--------------------------- MODULE HiveCatalogProofs ---------------------------
(***************************************************************************)
(* Proofs about HiveCatalog, for any number of clients, tables, partitions *)
(* and writes, as long as move() does not stop half-way ("mixed") and      *)
(* callers keep CREATE and DROP of a table apart from other statements on  *)
(* it ("overlap"); what a statement reports also needs a CTAS that can be  *)
(* planned ("plan") and staged ("staging").                                *)
(***************************************************************************)
EXTENDS HiveCatalog, TLAPS

CodecOf(k) == CodecTable[k.index]
IndexOf(k) == IndexTable[k.index]

-----------------------------------------------------------------------------
(* Clients.                                                                *)

ClientStates ==
  [op : Ops, at : Steps, name : Names \cup {None}, quiet : BOOLEAN, part : BOOLEAN,
   index : Indexes \cup {None}, todo : Seq(Names), created : SUBSET Names,
   parts : SUBSET (Parts \cup {Whole}), write : 0..MaxWrites]

Creating == {"check", "mkdir", "register"}
Writing == {"begin", "run", "abort"}

\* The step at which a statement is tells which statement it is.
Kind(k) ==
  /\ k.at = "idle" => k = Idle
  /\ k.at \in Creating => k.op \in {"create", "ctas", "index"} /\ k.name \in Names
  /\ k.at \in Writing => k.op \in {"create", "ctas", "insert", "index"} /\ k.name \in Names
  /\ k.at = "remove" => k.op = "delete" /\ k.name \in Names
  /\ k.at \in {"record", "rollback"} => k.op = "index"
  /\ k.at = "dropTables" => k.op = "dropIndex"
  /\ k.op \in {"create", "ctas", "insert", "index"} => k.write \in 1..MaxWrites

\* How far a vector index is: the codec table is made first.
IndexShape(k) ==
  /\ k.index \in Indexes <=> k.op \in {"index", "dropIndex"}
  /\ k.op = "index" => k.name \in {CodecOf(k), IndexOf(k)}
  /\ k.op = "index" =>
       \/ /\ k.at \in Creating \cup Writing
          /\ \/ k.name = CodecOf(k) /\ k.todo = <<IndexOf(k)>> /\ k.created = {}
             \/ k.name = IndexOf(k) /\ k.todo = <<>> /\ k.created = {CodecOf(k)}
       \/ k.at = "record" /\ k.created = {CodecOf(k), IndexOf(k)}
       \/ k.at = "rollback" /\ k.created \subseteq {CodecOf(k), IndexOf(k)}
  /\ k.op = "dropIndex" =>
       k.name = None /\ k.todo \in {<<CodecOf(k), IndexOf(k)>>, <<IndexOf(k)>>}

\* What a query may have written.
PartsShape(k) ==
  k.at = "run" => /\ k.parts \subseteq IF k.part THEN Parts ELSE {Whole}
                  /\ k.op \in {"create", "index"} => k.parts = {}

Shape(k) == Kind(k) /\ IndexShape(k) /\ PartsShape(k)

ClientInv ==
  /\ writes \in 0..MaxWrites
  /\ clients \in [Clients -> ClientStates]
  /\ \A c \in Clients : Shape(clients[c])

\* Statements that work on one table at a time do not create or drop it.
ApartInv ==
  \A c, d \in Clients : c # d /\ Touches(clients[c]) \cap Touches(clients[d]) # {} =>
    ~Creates(clients[c])

-----------------------------------------------------------------------------
(* Tables.                                                                 *)

Dirs == [dir : BOOLEAN, schema : Schemas \cup {None}, data : SUBSET Pairs,
         stats : SUBSET Pairs]

Place(schema) == IF schema.partitioned THEN Parts ELSE {Whole}

\* A directory holds nothing without a schema, its files lie where the schema
\* says, and its statistics count all of them.
Good(d) ==
  /\ d.stats = d.data
  /\ ~d.dir => d = NoDir
  /\ d.schema = None => d.data = {}
  /\ d.schema # None => PartsOf(d.data) \subseteq Place(d.schema)

DirInv == disk \in [Names -> Dirs] /\ \A n \in Names : Good(disk[n])

\* tables_ is what the directories hold.
Entry(d) == IF d.schema = None THEN None ELSE Table(d.schema, d.data, d.stats)
TablesInv == tables = [n \in Names |-> Entry(disk[n])]

\* What a statement knows of the directory d of its table holds until the
\* statement is done with it, whatever the other clients do.
Knows(k, d) ==
  /\ k.at = "mkdir" => d = NoDir
  /\ k.at = "register" => d = EmptyDir
  /\ k.at \in Writing \cup {"remove"} => d.schema # None /\ d.schema.partitioned = k.part
  /\ k.at \in Writing /\ k.op # "insert" => d.data = {} /\ ~d.schema.added

KnowsInv == \A c \in Clients : Knows(clients[c], disk[clients[c].name])

CatalogInv == ClientInv /\ ApartInv /\ DirInv /\ TablesInv /\ KnowsInv

-----------------------------------------------------------------------------
(* Clients keep to their statements.                                       *)

\* A client that does nothing.
LEMMA IdleFacts == Idle \in ClientStates /\ Shape(Idle) /\ Touches(Idle) = {} /\ ~Creates(Idle)
<1>1. Idle \in ClientStates
  BY CatalogAssumption DEF Idle, ClientStates, Ops, Steps
<1>2. Shape(Idle)
  BY NoneAssumption DEF Idle, Shape, Kind, IndexShape, PartsShape, Creating, Writing
<1>3. Touches(Idle) = {} /\ ~Creates(Idle)
  BY DEF Idle, Touches, Creates
<1>4. QED
  BY <1>1, <1>2, <1>3

\* One client goes on.
LEMMA ClientUpdate ==
  ASSUME ClientInv, NEW c \in Clients, NEW k \in ClientStates, Shape(k), Go(c, k),
         writes' \in 0..MaxWrites
  PROVE  ClientInv'
<1>1. \A d \in Clients : clients'[d] = IF d = c THEN k ELSE clients[d]
  BY DEF Go, ClientInv
<1>2. clients' \in [Clients -> ClientStates]
  BY DEF Go, ClientInv
<1>3. QED
  BY <1>1, <1>2 DEF ClientInv

\* How a client may go on: with the same tables, or with tables that its callers
\* keep apart from the other statements'.
Continues(c, k) ==
  /\ k \in ClientStates /\ Shape(k) /\ Go(c, k) /\ writes' \in 0..MaxWrites
  /\ \/ Touches(k) \subseteq Touches(clients[c]) /\ (Creates(k) => Creates(clients[c]))
     \/ Apart(c, Touches(k), Creates(k))

\* That keeps the clients apart.
LEMMA ApartUpdate ==
  ASSUME "overlap" \notin Faults, ClientInv, ApartInv, NEW c \in Clients, NEW k,
         Continues(c, k)
  PROVE  ClientInv' /\ ApartInv'
<1>1. ClientInv'
  BY ClientUpdate DEF Continues
<1>2. \A d \in Clients : clients'[d] = IF d = c THEN k ELSE clients[d]
  BY DEF Continues, Go, ClientInv
<1>3. ASSUME NEW d \in Clients, d # c, Touches(k) \cap Touches(clients[d]) # {}
      PROVE  ~Creates(k) /\ ~Creates(clients[d])
  <2>1. CASE Touches(k) \subseteq Touches(clients[c]) /\ (Creates(k) => Creates(clients[c]))
    BY <1>3, <2>1 DEF ApartInv
  <2>2. CASE Apart(c, Touches(k), Creates(k))
    BY <1>3, <2>2 DEF Apart
  <2>3. QED
    BY <2>1, <2>2 DEF Continues
<1>4. ASSUME NEW a \in Clients, NEW b \in Clients, a # b,
             Touches(clients'[a]) \cap Touches(clients'[b]) # {}
      PROVE  ~Creates(clients'[a])
  <2>1. CASE a = c
    BY <1>2, <1>3, <1>4, <2>1
  <2>2. CASE b = c
    BY <1>2, <1>3, <1>4, <2>2
  <2>3. CASE a # c /\ b # c
    BY <1>2, <1>4, <2>3 DEF ApartInv
  <2>4. QED
    BY <2>1, <2>2, <2>3
<1>5. ApartInv'
  BY <1>4 DEF ApartInv, Touches, Creates
<1>6. QED
  BY <1>1, <1>5

\* The end of a statement, or the rollback of an index.
LEMMA EndContinues ==
  ASSUME ClientInv, NEW c \in Clients, End(c) \/ Fail(c), writes' = writes
  PROVE  \E k : Continues(c, k)
<1>1. CASE End(c)
  BY <1>1, IdleFacts DEF End, Continues, ClientInv
<1>2. CASE Fail(c) /\ clients[c].op = "index"
  <2> DEFINE k == [clients[c] EXCEPT !.at = "rollback"]
  <2>1. k \in ClientStates
    BY ZenonT(90) DEF ClientInv, ClientStates, Steps
  <2>2. Shape(k)
    BY <1>2 DEF ClientInv, ClientStates, Shape, Kind, IndexShape, PartsShape, Creating,
       Writing, CodecOf, IndexOf
  <2>3. Go(c, k)
    BY <1>2 DEF Fail, Move
  <2>4. Touches(k) = Touches(clients[c]) /\ Creates(k) = Creates(clients[c])
    BY DEF Touches, Creates, ClientInv, ClientStates
  <2>5. QED
    BY <2>1, <2>2, <2>3, <2>4 DEF ClientInv, Continues
<1>3. QED
  BY <1>1, <1>2 DEF Fail

\* A step within a statement.
LEMMA MoveContinues ==
  ASSUME ClientInv, NEW c \in Clients, NEW at \in Steps,
         Kind([clients[c] EXCEPT !.at = at]), Move(c, at), writes' = writes,
         at # "run", clients[c].op = "index" =>
           clients[c].at \in Creating \cup Writing /\ at \in Creating \cup Writing
  PROVE  \E k : Continues(c, k)
<1> DEFINE k == [clients[c] EXCEPT !.at = at]
<1>1. k \in ClientStates
  BY DEF ClientInv, ClientStates
<1>2. Shape(k)
  BY DEF ClientInv, ClientStates, Shape, IndexShape, PartsShape, CodecOf, IndexOf, Creating,
     Writing
<1>3. Touches(k) = Touches(clients[c]) /\ Creates(k) = Creates(clients[c])
  BY DEF Touches, Creates, ClientInv, ClientStates
<1>4. QED
  BY <1>1, <1>2, <1>3 DEF ClientInv, Continues, Move

\* A statement that has begun.
LEMMA BegunFacts ==
  ASSUME NEW op \in Ops, NEW at \in Steps, NEW n \in Names \cup {None}
  PROVE  LET b == Begun(op, at, n)
         IN /\ b \in ClientStates /\ b.op = op /\ b.at = at /\ b.name = n
            /\ b.index = None /\ b.created = {} /\ b.parts = {}
<1> DEFINE b == Begun(op, at, n)
<1>1. PICK k : k = Idle
  OBVIOUS
<1>2. k \in ClientStates /\ k.index = None /\ k.created = {} /\ k.parts = {}
  <2>1. k \in ClientStates
    BY <1>1, IdleFacts
  <2>2. k.index = None /\ k.created = {} /\ k.parts = {}
    BY <1>1 DEF Idle
  <2>3. QED
    BY <2>1, <2>2
<1>3. b = [k EXCEPT !.op = op, !.at = at, !.name = n]
  BY <1>1 DEF Begun
<1>4. QED
  BY <1>2, <1>3 DEF ClientStates

\* The first step of a statement.
LEMMA StartContinues ==
  ASSUME ClientInv, NEW c \in Clients, NEW n \in Names,
         StartCreate(c, n) \/ StartInsert(c, n) \/ StartDelete(c, n),
         StartInsert(c, n) \/ StartDelete(c, n) => tables[n].schema.partitioned \in BOOLEAN
  PROVE  \E k : Continues(c, k)
<1>1. CASE StartCreate(c, n)
  <2>1. PICK op \in {"create", "ctas"}, quiet \in BOOLEAN, part \in BOOLEAN :
          Go(c, [Begun(op, "check", n) EXCEPT !.quiet = quiet, !.part = part,
                                              !.write = writes + 1])
    BY <1>1 DEF StartCreate
  <2>2. NewWrite
    BY <1>1 DEF StartCreate
  <2>3. PICK b : b = Begun(op, "check", n)
    OBVIOUS
  <2>4. b \in ClientStates /\ b.op = op /\ b.at = "check" /\ b.name = n /\ b.index = None
    BY <2>3, BegunFacts DEF Ops, Steps
  <2>5. PICK w \in 1..MaxWrites : w = writes + 1 /\ writes' = w /\ w \in 0..MaxWrites
    BY ONLY <2>2, ClientInv, CatalogAssumption DEF NewWrite, ClientInv
  <2> DEFINE k == [b EXCEPT !.quiet = quiet, !.part = part, !.write = w]
  <2>6. k \in ClientStates
    BY ONLY <2>4, <2>5, quiet \in BOOLEAN, part \in BOOLEAN DEF ClientStates
  <2>7. /\ k.op = op /\ k.at = "check" /\ k.name = n /\ k.index = None
        /\ k.write = w
    BY ONLY <2>4 DEF ClientStates
  <2>8. Go(c, k)
    BY <2>1, <2>3, <2>5
  <2> HIDE DEF k
  <2>9. Shape(k)
    BY <2>5, <2>7, NoneAssumption DEF Shape, Kind, IndexShape, PartsShape, Creating, Writing
  <2>10. Touches(k) = {n} /\ Creates(k)
    BY <2>7, NoneAssumption DEF Touches, Creates
  <2>11. Apart(c, Touches(k), Creates(k))
    BY <1>1, <2>10 DEF StartCreate, Apart
  <2>12. QED
    BY <2>5, <2>6, <2>8, <2>9, <2>11 DEF Continues
<1>2. CASE StartInsert(c, n)
  <2>1. Go(c, [Begun("insert", "begin", n) EXCEPT !.part = tables[n].schema.partitioned,
                                                  !.write = writes + 1])
    BY <1>2 DEF StartInsert
  <2>2. NewWrite
    BY <1>2 DEF StartInsert
  <2>3. PICK b : b = Begun("insert", "begin", n)
    OBVIOUS
  <2>4. b \in ClientStates /\ b.op = "insert" /\ b.at = "begin" /\ b.name = n /\ b.index = None
    BY <2>3, BegunFacts DEF Ops, Steps
  <2>5. PICK w \in 1..MaxWrites : w = writes + 1 /\ writes' = w /\ w \in 0..MaxWrites
    BY ONLY <2>2, ClientInv, CatalogAssumption DEF NewWrite, ClientInv
  <2>6. PICK part \in BOOLEAN : part = tables[n].schema.partitioned
    BY <1>2
  <2> DEFINE k == [b EXCEPT !.part = part, !.write = w]
  <2>7. k \in ClientStates
    BY ONLY <2>4, <2>5, part \in BOOLEAN DEF ClientStates
  <2>8. /\ k.op = "insert" /\ k.at = "begin" /\ k.name = n /\ k.index = None
        /\ k.write = w
    BY ONLY <2>4 DEF ClientStates
  <2>9. Go(c, k)
    BY <2>1, <2>3, <2>5, <2>6
  <2> HIDE DEF k
  <2>10. Shape(k)
    BY <2>5, <2>8, NoneAssumption DEF Shape, Kind, IndexShape, PartsShape, Creating, Writing
  <2>11. Touches(k) = {n} /\ ~Creates(k)
    BY <2>8, NoneAssumption DEF Touches, Creates
  <2>12. Apart(c, Touches(k), Creates(k))
    BY <1>2, <2>11 DEF StartInsert, Apart
  <2>13. QED
    BY <2>5, <2>7, <2>9, <2>10, <2>12 DEF Continues
<1>3. CASE StartDelete(c, n)
  <2>1. PICK ps \in SUBSET Parts :
          Go(c, [Begun("delete", "remove", n) EXCEPT
                   !.part = tables[n].schema.partitioned, !.parts = ps])
    BY <1>3 DEF StartDelete
  <2>2. PICK b : b = Begun("delete", "remove", n)
    OBVIOUS
  <2>3. b \in ClientStates /\ b.op = "delete" /\ b.at = "remove" /\ b.name = n /\ b.index = None
    BY <2>2, BegunFacts DEF Ops, Steps
  <2>4. PICK part \in BOOLEAN : part = tables[n].schema.partitioned
    BY <1>3
  <2> DEFINE k == [b EXCEPT !.part = part, !.parts = ps]
  <2>5. k \in ClientStates
    BY ONLY <2>3, part \in BOOLEAN, ps \in SUBSET Parts DEF ClientStates
  <2>6. k.op = "delete" /\ k.at = "remove" /\ k.name = n /\ k.index = None
    BY ONLY <2>3 DEF ClientStates
  <2>7. Go(c, k)
    BY <2>1, <2>2, <2>4
  <2> HIDE DEF k
  <2>8. Shape(k)
    BY <2>6, NoneAssumption DEF Shape, Kind, IndexShape, PartsShape, Creating, Writing
  <2>9. Touches(k) = {n} /\ ~Creates(k)
    BY <2>6, NoneAssumption DEF Touches, Creates
  <2>10. Apart(c, Touches(k), Creates(k))
    BY <1>3, <2>9 DEF StartDelete, Apart
  <2>11. writes' \in 0..MaxWrites
    BY <1>3 DEF StartDelete, ClientInv
  <2>12. QED
    BY <2>5, <2>7, <2>8, <2>10, <2>11 DEF Continues
<1>4. QED
  BY <1>1, <1>2, <1>3

\* The first step of a vector index, and of dropping one.
LEMMA IndexStartContinues ==
  ASSUME ClientInv, NEW c \in Clients, NEW i \in Indexes, StartIndex(c, i) \/ DropRecord(c, i)
  PROVE  \E k : Continues(c, k)
<1>0. CodecTable[i] \in Names /\ IndexTable[i] \in Names
  BY CatalogAssumption
<1>1. Head(TablesOf(i)) = CodecTable[i] /\ Tail(TablesOf(i)) = <<IndexTable[i]>>
  BY <1>0 DEF TablesOf
<1>2. CASE StartIndex(c, i)
  <2>1. Go(c, [Begun("index", "check", Head(TablesOf(i))) EXCEPT !.part = TRUE, !.index = i,
                     !.todo = Tail(TablesOf(i)), !.write = writes + 1])
    BY <1>2 DEF StartIndex
  <2>2. NewWrite
    BY <1>2 DEF StartIndex
  <2>3. PICK b : b = Begun("index", "check", CodecTable[i])
    OBVIOUS
  <2>4. /\ b \in ClientStates /\ b.op = "index" /\ b.at = "check" /\ b.name = CodecTable[i]
        /\ b.created = {}
    BY <1>0, <2>3, BegunFacts DEF Ops, Steps
  <2>5. PICK w \in 1..MaxWrites : w = writes + 1 /\ writes' = w /\ w \in 0..MaxWrites
    BY ONLY <2>2, ClientInv, CatalogAssumption DEF NewWrite, ClientInv
  <2> DEFINE todo == <<IndexTable[i]>>
             k == [b EXCEPT !.part = TRUE, !.index = i, !.todo = todo, !.write = w]
  <2>6. todo \in Seq(Names)
    BY <1>0
  <2>7. Go(c, k)
    BY <1>1, <2>1, <2>3, <2>5
  <2> HIDE DEF todo
  <2>8. k \in ClientStates
    BY ONLY <2>4, <2>5, <2>6, i \in Indexes DEF ClientStates
  <2>9. /\ k.op = "index" /\ k.at = "check" /\ k.name = CodecTable[i] /\ k.index = i
        /\ k.write = w /\ k.todo = todo /\ k.created = {}
    BY ONLY <2>4 DEF ClientStates
  <2> HIDE DEF k
  <2>10. Shape(k)
    BY <1>0, <2>5, <2>9 DEF Shape, Kind, IndexShape, PartsShape, Creating, Writing, CodecOf,
       IndexOf, todo
  <2>11. Touches(k) = {CodecTable[i], IndexTable[i]} /\ Creates(k)
    BY <1>0, <2>9, NoneAssumption DEF Touches, Creates
  <2>12. Apart(c, Touches(k), Creates(k))
    BY <1>2, <2>11 DEF StartIndex, Apart
  <2>13. QED
    BY <2>5, <2>7, <2>8, <2>10, <2>12 DEF Continues
<1>3. CASE DropRecord(c, i)
  <2>1. Go(c, [Begun("dropIndex", "dropTables", None) EXCEPT !.index = i,
                 !.todo = TablesOf(i)])
    BY <1>3 DEF DropRecord
  <2>2. writes' \in 0..MaxWrites
    BY <1>3 DEF DropRecord, ClientInv
  <2>3. PICK b : b = Begun("dropIndex", "dropTables", None)
    OBVIOUS
  <2>4. b \in ClientStates /\ b.op = "dropIndex" /\ b.at = "dropTables" /\ b.name = None
    BY <2>3, BegunFacts DEF Ops, Steps
  <2> DEFINE k == [b EXCEPT !.index = i, !.todo = TablesOf(i)]
  <2>5. TablesOf(i) \in Seq(Names)
    BY <1>0 DEF TablesOf
  <2>6. k \in ClientStates
    BY ONLY <2>4, <2>5, i \in Indexes DEF ClientStates
  <2>7. /\ k.op = "dropIndex" /\ k.at = "dropTables" /\ k.name = None /\ k.index = i
        /\ k.todo = TablesOf(i)
    BY ONLY <2>4 DEF ClientStates
  <2>8. Go(c, k)
    BY <2>1, <2>3
  <2> HIDE DEF k
  <2>9. Shape(k)
    BY <1>0, <2>7 DEF Shape, Kind, IndexShape, PartsShape, Creating, Writing, CodecOf,
       IndexOf, TablesOf
  <2>10. Touches(k) = {CodecTable[i], IndexTable[i]} /\ Creates(k)
    BY <1>0, <2>7, NoneAssumption DEF Touches, Creates
  <2>11. Apart(c, Touches(k), Creates(k))
    BY <1>3, <2>10 DEF DropRecord, Apart
  <2>12. QED
    BY <2>2, <2>6, <2>8, <2>9, <2>11 DEF Continues
<1>4. QED
  BY <1>2, <1>3

\* The steps of createTable().
LEMMA CreateContinues ==
  ASSUME ClientInv, NEW c \in Clients, Create(c)
  PROVE  \E k : Continues(c, k)
<1> USE DEF Kind, Creating, Writing, Steps, ClientInv, ClientStates, Shape, IndexShape, At
<1>1. CASE CreateCheck(c)
  <2>1. CASE Move(c, "mkdir")
    BY <1>1, <2>1, MoveContinues DEF CreateCheck
  <2>2. CASE End(c) \/ Fail(c)
    BY <1>1, <2>2, EndContinues DEF CreateCheck
  <2>3. QED
    BY <1>1, <2>1, <2>2 DEF CreateCheck
<1>2. CASE CreateDir(c)
  BY <1>2, MoveContinues DEF CreateDir
<1>3. CASE Register(c)
  <2>1. CASE Move(c, "begin")
    BY <1>3, <2>1, MoveContinues DEF Register
  <2>2. CASE End(c) \/ Fail(c)
    BY <1>3, <2>2, EndContinues DEF Register
  <2>3. QED
    BY <1>3, <2>1, <2>2 DEF Register
<1>4. QED
  BY <1>1, <1>2, <1>3 DEF Create

\* The steps of a write.
LEMMA WriteContinues ==
  ASSUME ClientInv, NEW c \in Clients, Write(c)
  PROVE  \E k : Continues(c, k)
<1> USE DEF Kind, Creating, Writing, Steps, ClientInv, ClientStates, Shape, IndexShape, At
<1>0. clients[c] \in ClientStates /\ Shape(clients[c])
  BY DEF ClientInv
<1>1. CASE BeginWrite(c)
  <2>1. PICK ps \in WrittenParts(clients[c]) :
          Go(c, [clients[c] EXCEPT !.at = "run", !.parts = ps])
    BY <1>1 DEF BeginWrite
  <2> DEFINE k == [clients[c] EXCEPT !.at = "run", !.parts = ps]
  <2>2. /\ ps \subseteq IF clients[c].part THEN Parts ELSE {Whole}
        /\ clients[c].op \in {"create", "index"} => ps = {}
    BY <2>1 DEF WrittenParts
  <2>a. ps \in SUBSET (Parts \cup {Whole})
    BY ONLY <2>2
  <2>3. k \in ClientStates
    BY ONLY <1>0, <2>a DEF ClientStates, Steps
  <2>4. Shape(k)
    BY <1>1, <2>2 DEF BeginWrite, PartsShape, CodecOf, IndexOf
  <2>5. Touches(k) = Touches(clients[c]) /\ Creates(k) = Creates(clients[c])
    BY DEF Touches, Creates
  <2>6. QED
    BY <1>1, <2>1, <2>3, <2>4, <2>5 DEF Continues, BeginWrite
<1>2. CASE BeginFails(c)
  BY <1>2, EndContinues DEF BeginFails
<1>3. CASE QueryFails(c)
  BY <1>3, MoveContinues DEF QueryFails
<1>4. CASE FinishWrite(c)
  <2>1. CASE Move(c, "abort")
    BY <1>4, <2>1, MoveContinues DEF FinishWrite
  <2>2. CASE End(c)
    BY <1>4, <2>2, EndContinues DEF FinishWrite
  <2>3. CASE \E k \in Committed(c) : Go(c, k)
    <3>1. PICK k \in Committed(c) : Go(c, k)
      BY <2>3
    <3>2. CASE clients[c].op # "index"
      BY <1>4, <3>1, <3>2, EndContinues, ZenonT(90) DEF FinishWrite, Committed, End
    <3>3. CASE clients[c].op = "index" /\ clients[c].todo = <<>>
      <4>1. k = [clients[c] EXCEPT !.created = @ \cup {clients[c].name}, !.at = "record"]
        BY <3>1, <3>3 DEF Committed
      <4>2. /\ clients[c].created = {CodecOf(clients[c])}
            /\ clients[c].name = IndexOf(clients[c])
            /\ clients[c].name \in Names
        <5>1. clients[c].at = "run"
          BY ONLY <1>4 DEF FinishWrite, At
        <5>2. <<IndexOf(clients[c])>> # <<>>
          OBVIOUS
        <5>3. QED
          BY ONLY <1>0, <3>3, <5>1, <5>2 DEF Shape, Kind, IndexShape, Writing, Creating
      <4>a. k \in ClientStates
        BY ONLY <1>0, <4>1, <4>2 DEF ClientStates, Steps
      <4>3. Shape(k)
        BY <1>4, <3>3, <4>1, <4>2 DEF FinishWrite, PartsShape, CodecOf, IndexOf
      <4>4. Touches(k) = Touches(clients[c]) /\ Creates(k) = Creates(clients[c])
        BY <4>1 DEF Touches, Creates
      <4>5. QED
        BY <1>4, <3>1, <4>a, <4>3, <4>4 DEF Continues, FinishWrite
    <3>4. CASE clients[c].op = "index" /\ clients[c].todo # <<>>
      <4>1. /\ clients[c].created = {} /\ clients[c].name = CodecOf(clients[c])
            /\ clients[c].todo = <<IndexOf(clients[c])>>
            /\ IndexOf(clients[c]) \in Names /\ CodecOf(clients[c]) \in Names
        BY <1>4, <3>4, CatalogAssumption DEF FinishWrite, IndexOf, CodecOf
      <4>2. Head(clients[c].todo) = IndexOf(clients[c]) /\ Tail(clients[c].todo) = <<>>
        BY <4>1
      <4>3. PICK part \in BOOLEAN :
              k = [clients[c] EXCEPT !.created = {CodecOf(clients[c])}, !.at = "check",
                     !.name = IndexOf(clients[c]), !.todo = <<>>, !.part = part]
        <5>1. PICK part \in BOOLEAN :
                k = [[clients[c] EXCEPT !.created = @ \cup {clients[c].name}] EXCEPT
                       !.at = "check", !.name = Head(clients[c].todo),
                       !.todo = Tail(clients[c].todo), !.part = part]
          BY ONLY <1>0, <3>1, <3>4 DEF Committed, ClientStates
        <5>2. QED
          BY ONLY <1>0, <4>1, <4>2, <5>1 DEF ClientStates
      <4>4. k \in ClientStates
        <5>1. <<>> \in Seq(Names) /\ {CodecOf(clients[c])} \in SUBSET Names
          BY ONLY <1>0, <4>1 DEF ClientStates
        <5>2. QED
          BY ONLY <1>0, <4>1, <4>3, <5>1 DEF ClientStates, Steps
      <4>5. Shape(k)
        BY <1>4, <3>4, <4>1, <4>3 DEF FinishWrite, PartsShape, CodecOf, IndexOf
      <4>6. Touches(k) = Touches(clients[c]) /\ Creates(k) = Creates(clients[c])
        BY <3>4, <4>1, <4>3, NoneAssumption DEF Touches, Creates, CodecOf, IndexOf
      <4>7. QED
        BY <1>4, <3>1, <4>4, <4>5, <4>6 DEF Continues, FinishWrite
    <3>5. QED
      BY <3>2, <3>3, <3>4
  <2>4. QED
    BY <1>4, <2>1, <2>2, <2>3 DEF FinishWrite
<1>5. CASE AbortWrite(c)
  BY <1>5, EndContinues DEF AbortWrite
<1>6. QED
  BY <1>1, <1>2, <1>3, <1>4, <1>5 DEF Write

\* The later steps of a vector index, and DELETE.
LEMMA IndexContinues ==
  ASSUME ClientInv, NEW c \in Clients, Index(c) \/ RemovePartitions(c)
  PROVE  \E k : Continues(c, k)
<1> USE DEF Kind, Creating, Writing, Steps, ClientInv, ClientStates, Shape, IndexShape, At
<1>1. CASE WriteRecord(c)
  BY <1>1, EndContinues DEF WriteRecord
<1>2. CASE Rollback(c)
  <2>1. CASE End(c)
    BY <1>2, <2>1, EndContinues DEF Rollback
  <2>2. CASE ~End(c)
    <3>1. PICK n \in Names : Go(c, [clients[c] EXCEPT !.created = @ \ {n}])
      BY <1>2, <2>2, CatalogAssumption DEF Rollback
    <3> DEFINE k == [clients[c] EXCEPT !.created = @ \ {n}]
    <3>2. k \in ClientStates
      <4>1. PICK b \in ClientStates : b = clients[c]
        OBVIOUS
      <4>2. b.created \ {n} \in SUBSET Names
        OBVIOUS
      <4>3. [b EXCEPT !.created = @ \ {n}] \in ClientStates
        BY ONLY <4>1, <4>2 DEF ClientStates
      <4>4. QED
        BY <4>1, <4>3
    <3>3. Shape(k)
      BY <1>2 DEF Rollback, PartsShape, CodecOf, IndexOf
    <3>4. Touches(k) = Touches(clients[c]) /\ Creates(k) = Creates(clients[c])
      BY DEF Touches, Creates
    <3>5. QED
      BY <1>2, <3>1, <3>2, <3>3, <3>4 DEF Continues, Rollback
  <2>3. QED
    BY <2>1, <2>2
<1>3. CASE DropIndexTable(c)
  <2>1. CASE Go(c, Idle)
    BY <1>3, <2>1, EndContinues DEF DropIndexTable, End
  <2>2. CASE ~Go(c, Idle)
    <3> DEFINE k == [clients[c] EXCEPT !.todo = Tail(@)]
    <3>1. Tail(clients[c].todo) # <<>> /\ Go(c, k)
      BY <1>3, <2>2 DEF DropIndexTable
    <3>2. /\ clients[c].op = "dropIndex" /\ clients[c].index \in Indexes
          /\ CodecOf(clients[c]) \in Names /\ IndexOf(clients[c]) \in Names
      BY <1>3, CatalogAssumption DEF DropIndexTable, CodecOf, IndexOf
    <3>3. Tail(<<IndexOf(clients[c])>>) = <<>>
      BY <3>2
    <3>4. clients[c].todo = <<CodecOf(clients[c]), IndexOf(clients[c])>>
      BY <3>1, <3>2, <3>3
    <3>5. Tail(clients[c].todo) = <<IndexOf(clients[c])>>
      BY <3>2, <3>4
    <3>6. k \in ClientStates
      <4>1. <<IndexOf(clients[c])>> \in Seq(Names) /\ clients[c] \in ClientStates
        BY <3>2
      <4>2. QED
        BY ONLY <3>5, <4>1 DEF ClientStates
    <3>7. Shape(k)
      BY <1>3, <3>2, <3>5, SMTT(60) DEF DropIndexTable, PartsShape, CodecOf, IndexOf
    <3>8. Touches(k) = Touches(clients[c]) /\ Creates(k) = Creates(clients[c])
      BY DEF Touches, Creates
    <3>9. QED
      BY <1>3, <3>1, <3>6, <3>7, <3>8 DEF Continues, DropIndexTable
  <2>3. QED
    BY <2>1, <2>2
<1>4. CASE RemovePartitions(c)
  BY <1>4, EndContinues DEF RemovePartitions
<1>5. QED
  BY <1>1, <1>2, <1>3, <1>4 DEF Index

-----------------------------------------------------------------------------
(* Directories.                                                            *)

\* A directory is loaded as its entry: nothing stops loadTable().
LEMMA GoodLoads ==
  ASSUME NEW d \in Dirs, Good(d), d.schema # None, NEW old
  PROVE  Loads(d) /\ Loaded(d, old) = Entry(d) /\ Entry(d) \in Entries /\ Entry(d) # None
<1>1. HasStats(d)
  BY DEF Good, HasStats
<1>2. Loads(d) /\ Loaded(d, old) = Entry(d)
  BY <1>1 DEF Loads, Loaded, Entry
<1>3. Entry(d) = [schema |-> d.schema, data |-> d.data, stats |-> d.stats]
  BY DEF Entry, Table
<1>4. d.schema \in Schemas /\ d.data \in SUBSET Pairs /\ d.stats \in SUBSET Pairs
  BY DEF Dirs
<1>5. Entry(d) \in Entries
  BY <1>3, <1>4 DEF Entries
<1>6. QED
  BY <1>2, <1>5, NoneAssumption

\* An entry tells what the directory holds.
LEMMA EntryFacts ==
  ASSUME DirInv, TablesInv, NEW n \in Names
  PROVE  /\ disk[n] \in Dirs /\ Good(disk[n]) /\ tables[n] = Entry(disk[n])
         /\ tables[n] = None <=> disk[n].schema = None
         /\ tables[n] # None => /\ disk[n].schema \in Schemas /\ disk[n].dir
                                /\ tables[n].schema = disk[n].schema
                                /\ disk[n].schema.partitioned \in BOOLEAN
                                /\ tables[n].data = disk[n].data
                                /\ tables[n].stats = disk[n].stats
                                /\ tables[n] \in Entries
<1>1. disk[n] \in Dirs /\ Good(disk[n]) /\ tables[n] = Entry(disk[n])
  BY DEF DirInv, TablesInv
<1>2. tables[n] = None <=> disk[n].schema = None
  BY <1>1, GoodLoads DEF Entry
<1>3. ASSUME tables[n] # None
      PROVE  /\ disk[n].schema \in Schemas /\ disk[n].dir
             /\ disk[n].schema.partitioned \in BOOLEAN
             /\ tables[n] \in Entries
             /\ tables[n] = Table(disk[n].schema, disk[n].data, disk[n].stats)
  <2>1. disk[n].schema \in Schemas /\ disk[n].schema # None
    BY <1>1, <1>2, <1>3 DEF Dirs
  <2>2. disk[n].dir
    BY <1>1, <2>1 DEF Good, NoDir, Dirs
  <2>3. tables[n] \in Entries /\ tables[n] = Table(disk[n].schema, disk[n].data, disk[n].stats)
    BY <1>1, <2>1, GoodLoads DEF Entry
  <2>4. QED
    BY <2>1, <2>2, <2>3 DEF Schemas
<1>4. QED
  BY <1>1, <1>2, <1>3 DEF Table

\* A directory is what its fields are.
LEMMA SameDir ==
  ASSUME NEW a \in Dirs, NEW b \in Dirs, a.dir = b.dir, a.schema = b.schema, a.data = b.data,
         a.stats = b.stats
  PROVE  a = b
  BY DEF Dirs

\* Directories without files.
Fresh(part) == [dir |-> TRUE, schema |-> Schema(part, FALSE), data |-> {}, stats |-> {}]

LEMMA EmptyDirsAreGood ==
  /\ NoDir \in Dirs /\ Good(NoDir) /\ Entry(NoDir) = None
  /\ EmptyDir = [dir |-> TRUE, schema |-> None, data |-> {}, stats |-> {}]
  /\ EmptyDir \in Dirs /\ Good(EmptyDir) /\ Entry(EmptyDir) = None
  /\ \A part \in BOOLEAN : /\ Fresh(part) \in Dirs /\ Good(Fresh(part))
                           /\ Schema(part, FALSE) \in Schemas
                           /\ Schema(part, FALSE) # None
                           /\ Entry(Fresh(part)) = Table(Schema(part, FALSE), {}, {})
<1>1. NoDir \in Dirs /\ Good(NoDir) /\ Entry(NoDir) = None
  BY DEF NoDir, Dirs, Good, Entry
<1>2. EmptyDir = [dir |-> TRUE, schema |-> None, data |-> {}, stats |-> {}]
  <2>1. PICK d : d = NoDir
    OBVIOUS
  <2>2. d \in Dirs /\ d.schema = None /\ d.data = {} /\ d.stats = {}
    BY <1>1, <2>1 DEF NoDir
  <2>3. EmptyDir = [d EXCEPT !.dir = TRUE]
    BY <2>1 DEF EmptyDir
  <2>4. QED
    BY <2>2, <2>3 DEF Dirs
<1>3. EmptyDir \in Dirs /\ Good(EmptyDir) /\ Entry(EmptyDir) = None
  BY <1>2 DEF Dirs, Good, Entry
<1>4. ASSUME NEW part \in BOOLEAN
      PROVE  /\ Fresh(part) \in Dirs /\ Good(Fresh(part))
             /\ Schema(part, FALSE) \in Schemas /\ Schema(part, FALSE) # None
             /\ Entry(Fresh(part)) = Table(Schema(part, FALSE), {}, {})
  <2>1. Schema(part, FALSE) \in Schemas
    BY DEF Schema, Schemas
  <2>2. Schema(part, FALSE) # None
    BY <2>1, NoneAssumption
  <2>3. Fresh(part) \in Dirs /\ Good(Fresh(part))
    BY <2>1, <2>2 DEF Fresh, Dirs, Good, PartsOf
  <2>4. Entry(Fresh(part)) = Table(Schema(part, FALSE), {}, {})
    BY <2>2 DEF Fresh, Entry
  <2>5. QED
    BY <2>1, <2>2, <2>3, <2>4
<1>5. QED
  BY <1>1, <1>2, <1>3, <1>4

\* What a step may do to the directory of n without another client noticing.
Unnoticed(c, n, d) ==
  \A e \in Clients \ {c} : n \in Touches(clients[e]) =>
    /\ ~Creates(clients[e])
    /\ disk[n].schema # None => /\ d.schema # None
                                /\ d.schema.partitioned = disk[n].schema.partitioned

\* A statement that works on n, and creates or drops it or leaves it the table
\* that it is, is not noticed.
LEMMA OwnTable ==
  ASSUME ApartInv, NEW c \in Clients, NEW n \in Touches(clients[c]), NEW d,
         \/ Creates(clients[c])
         \/ d.schema # None /\ d.schema.partitioned = disk[n].schema.partitioned
  PROVE  Unnoticed(c, n, d)
<1>1. ASSUME NEW e \in Clients \ {c}, n \in Touches(clients[e])
      PROVE  ~Creates(clients[e]) /\ ~Creates(clients[c])
  <2>1. /\ Touches(clients[e]) \cap Touches(clients[c]) # {}
        /\ Touches(clients[c]) \cap Touches(clients[e]) # {}
    BY <1>1
  <2>2. QED
    BY <2>1 DEF ApartInv
<1>2. QED
  BY <1>1 DEF Unnoticed

\* A step of one client on one directory and its entry.
LEMMA DirUpdate ==
  ASSUME ClientInv, DirInv, TablesInv, KnowsInv, NEW c \in Clients, NEW k, NEW n \in Names,
         NEW d \in Dirs, Good(d), Unnoticed(c, n, d), Knows(k, disk'[k.name]),
         \A e \in Clients : clients'[e] = IF e = c THEN k ELSE clients[e],
         disk' = [disk EXCEPT ![n] = d], tables' = [tables EXCEPT ![n] = Entry(d)]
  PROVE  DirInv' /\ TablesInv' /\ KnowsInv'
<1>1. \A m \in Names : disk'[m] = IF m = n THEN d ELSE disk[m]
  BY DEF DirInv
<1>2. DirInv'
  <2>1. disk' \in [Names -> Dirs]
    BY DEF DirInv
  <2>2. ASSUME NEW m \in Names PROVE Good(disk'[m])
    BY <1>1 DEF DirInv
  <2>3. QED
    BY <2>1, <2>2 DEF DirInv, Good
<1>3. TablesInv'
  BY <1>1 DEF TablesInv
<1>4. ASSUME NEW e \in Clients, e # c PROVE Knows(clients'[e], disk'[clients'[e].name])
  <2>1. clients'[e] = clients[e] /\ Knows(clients[e], disk[clients[e].name])
    BY <1>4 DEF KnowsInv
  <2>2. CASE clients[e].name # n
    BY <2>1, <2>2 DEF DirInv, Knows
  <2>3. CASE clients[e].name = n
    <3>1. n \in Touches(clients[e])
      BY <2>3, NoneAssumption DEF Touches
    <3>2. /\ ~Creates(clients[e])
          /\ disk[n].schema # None =>
               d.schema # None /\ d.schema.partitioned = disk[n].schema.partitioned
      BY <1>4, <3>1 DEF Unnoticed
    <3>3. Shape(clients[e])
      BY DEF ClientInv
    <3>4. QED
      BY <1>1, <2>1, <2>3, <3>2, <3>3 DEF Creates, Shape, Kind, Creating, Writing, Knows
  <2>4. QED
    BY <2>2, <2>3
<1>5. KnowsInv'
  BY <1>4 DEF KnowsInv
<1>6. QED
  BY <1>2, <1>3, <1>5

\* A step of one client on no directory.
LEMMA LocalUpdate ==
  ASSUME DirInv, TablesInv, KnowsInv, NEW c \in Clients, NEW k, Knows(k, disk[k.name]),
         \A e \in Clients : clients'[e] = IF e = c THEN k ELSE clients[e],
         disk' = disk, tables' = tables
  PROVE  DirInv' /\ TablesInv' /\ KnowsInv'
<1>1. DirInv' /\ TablesInv'
  BY DEF DirInv, TablesInv
<1>2. ASSUME NEW e \in Clients PROVE Knows(clients'[e], disk'[clients'[e].name])
  BY DEF KnowsInv
<1>3. QED
  BY <1>1, <1>2 DEF KnowsInv

\* The other clients stay where they are.
LEMMA GoFacts ==
  ASSUME ClientInv, NEW c \in Clients, NEW k, Go(c, k)
  PROVE  \A e \in Clients : clients'[e] = IF e = c THEN k ELSE clients[e]
  BY DEF ClientInv, Go

\* A statement that ends, or fails, knows nothing more of its table.
LEMMA EndGoes ==
  ASSUME ClientInv, NEW c \in Clients, End(c) \/ Fail(c)
  PROVE  \E k : Go(c, k) /\ k.at \in {"idle", "rollback"}
<1>1. CASE End(c)
  BY <1>1 DEF End, Idle
<1>2. CASE Fail(c) /\ clients[c].op = "index"
  <2>1. [clients[c] EXCEPT !.at = "rollback"].at = "rollback"
    BY DEF ClientInv, ClientStates
  <2>2. QED
    BY <1>2, <2>1 DEF Fail, Move
<1>3. QED
  BY <1>1, <1>2 DEF Fail

LEMMA EndKnows ==
  ASSUME NEW k, k.at \in {"idle", "rollback"}, NEW d
  PROVE  Knows(k, d)
  BY DEF Knows, Writing

\* The name a statement works on is one it touches.
LEMMA OwnName ==
  ASSUME ClientInv, NEW c \in Clients, clients[c].at \in Creating \cup Writing \cup {"remove"}
  PROVE  clients[c].name \in Names /\ clients[c].name \in Touches(clients[c])
<1>1. clients[c].name \in Names
  BY DEF ClientInv, Shape, Kind
<1>2. QED
  BY <1>1, NoneAssumption DEF Touches

-----------------------------------------------------------------------------
(* Every step keeps tables and directories in order.                       *)

\* The steps of createTable().
LEMMA CreateStep ==
  ASSUME CatalogInv, NEW c \in Clients, Create(c)
  PROVE  DirInv' /\ TablesInv' /\ KnowsInv'
<1> DEFINE n == clients[c].name
<1> USE DEF CatalogInv
<1>1. CASE CreateCheck(c)
  <2>1. clients[c].at = "check" /\ n \in Names /\ disk' = disk /\ tables' = tables
    BY <1>1, OwnName DEF CreateCheck, At, Creating
  <2>2. CASE Move(c, "mkdir") /\ ~disk[n].dir
    <3> DEFINE k == [clients[c] EXCEPT !.at = "mkdir"]
    <3>1. Go(c, k) /\ k.at = "mkdir" /\ k.name = n
      BY <2>2 DEF Move, ClientInv, ClientStates
    <3>2. disk[n] = NoDir
      BY <2>1, <2>2 DEF DirInv, Good
    <3> HIDE DEF k
    <3>3. Knows(k, disk[k.name])
      BY <3>1, <3>2 DEF Knows, Writing
    <3>4. QED
      BY <2>1, <3>1, <3>3, GoFacts, LocalUpdate
  <2>3. CASE End(c) \/ Fail(c)
    BY <2>1, <2>3, EndGoes, EndKnows, GoFacts, LocalUpdate
  <2>4. QED
    BY <1>1, <2>2, <2>3 DEF CreateCheck
<1>2. CASE CreateDir(c)
  <2> DEFINE k == [clients[c] EXCEPT !.at = "register"]
  <2>1. clients[c].at = "mkdir" /\ n \in Names /\ n \in Touches(clients[c])
    BY <1>2, OwnName DEF CreateDir, At, Creating
  <2>2. Go(c, k) /\ k.at = "register" /\ k.name = n
    BY <1>2 DEF CreateDir, Move, ClientInv, ClientStates
  <2>3. disk[n] = NoDir /\ ~disk[n].dir
    <3>1. disk[n] = NoDir
      BY <2>1 DEF KnowsInv, Knows
    <3>2. QED
      BY <3>1 DEF NoDir
  <2>4. disk' = [disk EXCEPT ![n] = EmptyDir]
    BY <1>2, <2>3 DEF CreateDir
  <2>5. tables[n] = Entry(EmptyDir) /\ tables' = tables
    BY <1>2, <2>1, <2>3, EntryFacts, EmptyDirsAreGood DEF CreateDir
  <2>6. tables' = [tables EXCEPT ![n] = Entry(EmptyDir)]
    BY <2>1, <2>5 DEF TablesInv
  <2>7. Creates(clients[c])
    BY <2>1 DEF ClientInv, Shape, Kind, Creating, Creates
  <2>8. Unnoticed(c, n, EmptyDir)
    BY <2>1, <2>7, OwnTable
  <2>9. disk'[n] = EmptyDir
    BY <2>1, <2>4 DEF DirInv
  <2> HIDE DEF k
  <2>10. Knows(k, disk'[k.name])
    BY <2>2, <2>9 DEF Knows, Writing
  <2> HIDE DEF n
  <2>11. QED
    BY <2>1, <2>2, <2>4, <2>6, <2>8, <2>10, EmptyDirsAreGood, GoFacts, DirUpdate
<1>3. CASE Register(c)
  <2> DEFINE k == [clients[c] EXCEPT !.at = "begin"]
             d == Fresh(clients[c].part)
  <2>1. /\ clients[c].at = "register" /\ n \in Names /\ n \in Touches(clients[c])
        /\ clients[c].part \in BOOLEAN /\ clients[c].op \in {"create", "ctas", "index"}
    BY <1>3, OwnName DEF Register, At, Creating, ClientInv, ClientStates, Shape, Kind
  <2>2. disk[n] = EmptyDir
    BY <2>1 DEF KnowsInv, Knows
  <2>3. tables[n] = None /\ disk[n].dir
    BY <2>1, <2>2, EntryFacts, EmptyDirsAreGood
  <2>4. /\ disk' = [disk EXCEPT ![n].schema = Schema(clients[c].part, FALSE)]
        /\ tables' = [tables EXCEPT ![n] = Table(Schema(clients[c].part, FALSE), {}, {})]
        /\ Move(c, "begin")
    BY <1>3, <2>3 DEF Register
  <2>5. disk' = [disk EXCEPT ![n] = d]
    <3>1. [disk[n] EXCEPT !.schema = Schema(clients[c].part, FALSE)] = d
      <4>1. /\ disk[n] \in Dirs /\ disk[n].dir = TRUE /\ disk[n].data = {}
            /\ disk[n].stats = {}
        <5>1. disk[n] \in Dirs
          BY <2>1 DEF DirInv
        <5>2. disk[n] = [dir |-> TRUE, schema |-> None, data |-> {}, stats |-> {}]
          BY ONLY <2>2, EmptyDirsAreGood
        <5>3. QED
          BY ONLY <5>1, <5>2
      <4>2. PICK r : r = disk[n]
        OBVIOUS
      <4>3. PICK schema \in Schemas : schema = Schema(clients[c].part, FALSE)
        BY <2>1, EmptyDirsAreGood
      <4>4. /\ r \in Dirs /\ r.dir = TRUE /\ r.data = {} /\ r.stats = {}
        BY <4>1, <4>2
      <4>5. [r EXCEPT !.schema = schema] \in Dirs
        BY ONLY <4>4, schema \in Schemas DEF Dirs
      <4>6. /\ [r EXCEPT !.schema = schema].dir = TRUE
            /\ [r EXCEPT !.schema = schema].schema = schema
            /\ [r EXCEPT !.schema = schema].data = {}
            /\ [r EXCEPT !.schema = schema].stats = {}
        BY ONLY <4>4, schema \in Schemas DEF Dirs
      <4>7. d \in Dirs /\ d.dir = TRUE /\ d.schema = schema /\ d.data = {} /\ d.stats = {}
        BY <2>1, <4>3, EmptyDirsAreGood DEF Fresh
      <4>8. QED
        BY <4>2, <4>3, <4>5, <4>6, <4>7, SameDir
    <3>2. QED
      BY <2>1, <2>4, <3>1 DEF DirInv
  <2>6. tables' = [tables EXCEPT ![n] = Entry(d)] /\ d \in Dirs /\ Good(d)
    BY <2>1, <2>4, EmptyDirsAreGood
  <2>7. Unnoticed(c, n, d)
    BY <2>1, OwnTable DEF Creates
  <2>8. Go(c, k) /\ k.at = "begin" /\ k.name = n /\ k.part = clients[c].part
    BY <2>4 DEF Move, ClientInv, ClientStates
  <2>9. disk'[n] = d
    BY <2>1, <2>5 DEF DirInv
  <2>10. /\ d.schema # None /\ d.schema.partitioned = clients[c].part
         /\ d.data = {} /\ ~d.schema.added
    BY <2>1, EmptyDirsAreGood DEF Fresh, Schema
  <2> HIDE DEF k, d
  <2>11. Knows(k, disk'[k.name])
    BY <2>8, <2>9, <2>10 DEF Knows, Writing
  <2> HIDE DEF n
  <2>12. QED
    BY <2>1, <2>5, <2>6, <2>7, <2>8, <2>11, GoFacts, DirUpdate
<1>4. QED
  BY <1>1, <1>2, <1>3 DEF Create

\* The files of a write lie in the partitions that it writes.
LEMMA FilesFacts ==
  ASSUME ClientInv, NEW c \in Clients, clients[c].at = "run"
  PROVE  LET f == Files(c, clients[c].parts)
         IN f \subseteq Pairs /\ PartsOf(f) \subseteq clients[c].parts
<1> DEFINE f == Files(c, clients[c].parts)
<1>1. clients[c].write \in 1..MaxWrites /\ clients[c].parts \subseteq Parts \cup {Whole}
  BY DEF ClientInv, ClientStates, Shape, Kind, Writing
<1>2. ASSUME NEW p \in clients[c].parts PROVE <<p, clients[c].write>> \in Pairs
  BY <1>1, <1>2 DEF Pairs
<1>3. f \subseteq Pairs
  BY <1>2 DEF Files
<1>4. ASSUME NEW q \in PartsOf(f) PROVE q \in clients[c].parts
  <2>1. PICK pair \in f : q = pair[1]
    BY <1>4 DEF PartsOf
  <2>2. PICK p \in clients[c].parts : pair = <<p, clients[c].write>>
    BY <2>1 DEF Files
  <2>3. QED
    BY <2>1, <2>2
<1>5. QED
  BY <1>3, <1>4

\* A write that is committed adds all of its files; another leaves no trace.
LEMMA FinishEffect ==
  ASSUME "mixed" \notin Faults, CatalogInv, NEW c \in Clients, FinishWrite(c)
  PROVE  LET n == clients[c].name
             f == Files(c, clients[c].parts)
         IN \/ /\ \E d \in Dirs : /\ Good(d) /\ d.dir /\ d.schema = disk[n].schema
                                  /\ d.data = disk[n].data \cup f
                                  /\ disk' = [disk EXCEPT ![n] = d]
                                  /\ tables' = [tables EXCEPT ![n] = Entry(d)]
               /\ \E k \in Committed(c) : Go(c, k)
               /\ catalog' = IF clients[c].op = "index" THEN catalog ELSE Report(c, n)
            \/ /\ clients[c].op = "insert" /\ End(c)
               /\ disk' = disk /\ tables' = tables /\ catalog' = catalog
<1> DEFINE n == clients[c].name
           f == Files(c, clients[c].parts)
<1> USE DEF CatalogInv
<1>1. /\ clients[c].at = "run" /\ n \in Names /\ clients[c].write \in 1..MaxWrites
      /\ clients[c].parts \subseteq IF clients[c].part THEN Parts ELSE {Whole}
      /\ clients[c].part \in BOOLEAN
  BY OwnName DEF FinishWrite, At, Writing, ClientInv, ClientStates, Shape, Kind, PartsShape
<1>2. /\ disk[n].schema # None /\ disk[n].schema.partitioned = clients[c].part
      /\ clients[c].op # "insert" => disk[n].data = {}
  BY <1>1 DEF KnowsInv, Knows, Writing
<1>3. disk[n] \in Dirs /\ Good(disk[n]) /\ tables[n] = Entry(disk[n]) /\ disk[n].dir = TRUE
  BY <1>1, <1>2, EntryFacts DEF Dirs
<1>4. PICK ps \in Moved(c) :
        LET d == WithWrite(c, disk[n], ps)
        IN /\ disk' = [disk EXCEPT ![n] = d]
           /\ tables' = [tables EXCEPT ![n] = IF Clashes(c) = {} THEN Loaded(d, @) ELSE @]
           /\ IF Clashes(c) = {} /\ Loads(d)
              THEN /\ \E k \in Committed(c) : Go(c, k)
                   /\ catalog' = IF clients[c].op = "index" THEN catalog ELSE Report(c, n)
              ELSE /\ IF clients[c].op \in {"create", "index"} THEN Move(c, "abort") ELSE End(c)
                   /\ UNCHANGED catalog
  BY DEF FinishWrite
<1>5. CASE Clashes(c) = {}
  <2> DEFINE d == WithWrite(c, disk[n], ps)
  <2>1. ps = clients[c].parts
    BY <1>5 DEF Moved
  <2>2. f \subseteq Pairs /\ PartsOf(f) \subseteq clients[c].parts
    BY <1>1, FilesFacts
  <2>3. PICK r \in Dirs : r = disk[n]
    BY <1>3
  <2>4. d = [r EXCEPT !.dir = TRUE, !.data = @ \cup f, !.stats = @ \cup f]
    BY <1>5, <2>1, <2>3 DEF WithWrite, Merged
  <2> HIDE DEF f
  <2>5. /\ d \in Dirs /\ d.dir = TRUE /\ d.schema = r.schema /\ d.data = r.data \cup f
        /\ d.stats = r.stats \cup f
    BY ONLY <2>2, <2>4, r \in Dirs DEF Dirs
  <2> HIDE DEF d
  <2>6. Good(d)
    <3>1. d.stats = d.data
      BY <1>3, <2>3, <2>5 DEF Good
    <3>2. PartsOf(d.data) = PartsOf(r.data) \cup PartsOf(f)
      BY <2>5 DEF PartsOf
    <3>3. PartsOf(r.data) \subseteq Place(r.schema)
      BY <1>2, <1>3, <2>3 DEF Good
    <3>4. PartsOf(f) \subseteq Place(r.schema)
      BY <1>1, <1>2, <2>2, <2>3 DEF Place
    <3>5. QED
      BY <1>2, <2>3, <2>5, <3>1, <3>2, <3>3, <3>4 DEF Good
  <2>7. Loads(d) /\ Loaded(d, tables[n]) = Entry(d)
    BY <1>2, <2>3, <2>5, <2>6, GoodLoads
  <2>8. disk' = [disk EXCEPT ![n] = d] /\ tables' = [tables EXCEPT ![n] = Loaded(d, @)]
    BY <1>4, <1>5 DEF d
  <2>9. tables' = [tables EXCEPT ![n] = Entry(d)]
    BY <1>1, <2>7, <2>8 DEF TablesInv
  <2>10. /\ \E k \in Committed(c) : Go(c, k)
         /\ catalog' = IF clients[c].op = "index" THEN catalog ELSE Report(c, n)
    BY <1>4, <1>5, <2>7 DEF d
  <2>11. QED
    BY <2>3, <2>5, <2>6, <2>8, <2>9, <2>10 DEF f
<1>6. CASE Clashes(c) # {}
  <2>1. ps = {}
    BY <1>6 DEF Moved
  <2>2. Files(c, ps) = {}
    BY <2>1 DEF Files
  <2>3. disk[n].data # {}
    BY <1>6 DEF Clashes, PartsOf
  <2>4. clients[c].op = "insert"
    BY <1>2, <2>3
  <2>5. WithWrite(c, disk[n], ps) = [disk[n] EXCEPT !.dir = TRUE, !.data = @ \cup {}, !.stats = @]
    BY <1>6, <2>2 DEF WithWrite
  <2>6. PICK r \in Dirs : r = disk[n] /\ r.dir = TRUE
    BY <1>3
  <2>7. [r EXCEPT !.dir = TRUE, !.data = @ \cup {}, !.stats = @] = r
    BY ONLY <2>6, r \in Dirs DEF Dirs
  <2>8. disk' = [disk EXCEPT ![n] = disk[n]]
    BY <1>4, <2>5, <2>6, <2>7
  <2>9. disk' = disk
    BY <1>1, <2>8 DEF DirInv
  <2>10. tables' = tables
    BY <1>1, <1>4, <1>6 DEF TablesInv
  <2>11. End(c) /\ catalog' = catalog
    BY <1>4, <1>6, <2>4
  <2>12. QED
    BY <2>4, <2>9, <2>10, <2>11
<1>7. QED
  BY <1>5, <1>6

\* A statement whose write is committed is done with that table.
LEMMA CommittedFacts ==
  ASSUME ClientInv, NEW c \in Clients, NEW k \in Committed(c)
  PROVE  k.at \in {"idle", "record", "check"}
<1>1. CASE clients[c].op # "index"
  <2>1. k = Idle
    BY <1>1 DEF Committed, ClientInv, ClientStates
  <2>2. QED
    BY <2>1 DEF Idle
<1>2. CASE clients[c].op = "index" /\ clients[c].todo = <<>>
  <2>1. k = [clients[c] EXCEPT !.created = @ \cup {clients[c].name}, !.at = "record"]
    BY <1>2 DEF Committed, ClientInv, ClientStates
  <2>2. QED
    BY <2>1 DEF ClientInv, ClientStates
<1>3. CASE clients[c].op = "index" /\ clients[c].todo # <<>>
  <2>1. PICK part \in BOOLEAN :
          k = [[clients[c] EXCEPT !.created = @ \cup {clients[c].name}] EXCEPT
                 !.at = "check", !.name = Head(clients[c].todo),
                 !.todo = Tail(clients[c].todo), !.part = part]
    BY <1>3, ZenonT(90) DEF Committed, ClientInv, ClientStates
  <2>2. QED
    BY <2>1 DEF ClientInv, ClientStates
<1>4. QED
  BY <1>1, <1>2, <1>3

\* The steps of a write.
LEMMA WriteStep ==
  ASSUME "mixed" \notin Faults, CatalogInv, NEW c \in Clients, Write(c)
  PROVE  DirInv' /\ TablesInv' /\ KnowsInv'
<1> DEFINE n == clients[c].name
<1> USE DEF CatalogInv
<1>0. /\ clients[c] \in ClientStates /\ Knows(clients[c], disk[n])
      /\ clients[c].at \in Writing /\ n \in Names /\ n \in Touches(clients[c])
  <2>1. clients[c].at \in Writing
    BY DEF Write, BeginWrite, BeginFails, QueryFails, FinishWrite, AbortWrite, At, Writing
  <2>2. QED
    BY <2>1, OwnName, SMTT(60) DEF ClientInv, KnowsInv
<1>1. CASE BeginWrite(c)
  <2>1. PICK ps \in WrittenParts(clients[c]) :
          Go(c, [clients[c] EXCEPT !.at = "run", !.parts = ps])
    BY <1>1 DEF BeginWrite
  <2> DEFINE k == [clients[c] EXCEPT !.at = "run", !.parts = ps]
  <2>2. /\ k.at = "run" /\ k.name = clients[c].name /\ k.part = clients[c].part
        /\ k.op = clients[c].op
    BY <1>0 DEF ClientStates
  <2>3. Go(c, k)
    BY <2>1
  <2> HIDE DEF k
  <2>4. Knows(k, disk[k.name])
    BY <1>0, <2>2 DEF Knows, Writing
  <2>5. disk' = disk /\ tables' = tables
    BY <1>1 DEF BeginWrite
  <2>6. QED
    BY <2>3, <2>4, <2>5, GoFacts, LocalUpdate
<1>2. CASE BeginFails(c)
  <2>1. disk' = disk /\ tables' = tables /\ Fail(c)
    BY <1>2 DEF BeginFails
  <2>2. QED
    BY <2>1, EndGoes, EndKnows, GoFacts, LocalUpdate
<1>3. CASE QueryFails(c)
  <2> DEFINE k == [clients[c] EXCEPT !.at = "abort"]
  <2>1. disk' = disk /\ tables' = tables /\ Go(c, k)
    BY <1>3 DEF QueryFails, Move
  <2>2. /\ k.at = "abort" /\ k.name = clients[c].name /\ k.part = clients[c].part
        /\ k.op = clients[c].op
    BY <1>0 DEF ClientStates
  <2> HIDE DEF k
  <2>3. Knows(k, disk[k.name])
    BY <1>0, <2>2 DEF Knows, Writing
  <2>4. QED
    BY <2>1, <2>3, GoFacts, LocalUpdate
<1>4. CASE FinishWrite(c)
  <2> DEFINE f == Files(c, clients[c].parts)
  <2>1. CASE /\ \E d \in Dirs : /\ Good(d) /\ d.dir /\ d.schema = disk[n].schema
                                /\ d.data = disk[n].data \cup f
                                /\ disk' = [disk EXCEPT ![n] = d]
                                /\ tables' = [tables EXCEPT ![n] = Entry(d)]
             /\ \E k \in Committed(c) : Go(c, k)
    <3>1. PICK d \in Dirs : /\ Good(d) /\ d.schema = disk[n].schema
                            /\ disk' = [disk EXCEPT ![n] = d]
                            /\ tables' = [tables EXCEPT ![n] = Entry(d)]
      BY <2>1
    <3>2. PICK k \in Committed(c) : Go(c, k)
      BY <2>1
    <3>3. Knows(k, disk'[k.name])
      BY CommittedFacts DEF Knows, Writing
    <3>4. Unnoticed(c, n, d)
      BY <1>0, <3>1, OwnTable DEF Knows
    <3> HIDE DEF n
    <3>5. QED
      BY <1>0, <3>1, <3>2, <3>3, <3>4, GoFacts, DirUpdate
  <2>2. CASE End(c) /\ disk' = disk /\ tables' = tables
    BY <2>2, EndGoes, EndKnows, GoFacts, LocalUpdate
  <2>3. QED
    BY <1>4, <2>1, <2>2, FinishEffect
<1>5. CASE AbortWrite(c)
  <2>1. PICK k : Go(c, k) /\ k.at \in {"idle", "rollback"}
    BY <1>5, EndGoes DEF AbortWrite
  <2>2. CASE clients[c].op = "insert"
    <3>1. disk' = [disk EXCEPT ![n] = @] /\ tables' = [tables EXCEPT ![n] = @]
      BY <1>5, <2>2 DEF AbortWrite, AbortedTable
    <3>a. disk' = disk /\ tables' = tables
      BY <1>0, <3>1 DEF DirInv, TablesInv
    <3>2. QED
      BY <2>1, <3>a, EndKnows, GoFacts, LocalUpdate
  <2>3. CASE clients[c].op # "insert"
    <3>1. disk' = [disk EXCEPT ![n] = NoDir] /\ tables' = [tables EXCEPT ![n] = Entry(NoDir)]
      BY <1>5, <2>3, EmptyDirsAreGood DEF AbortWrite, AbortedTable
    <3>2. Creates(clients[c])
      BY <1>0, <2>3 DEF ClientInv, Shape, Kind, Writing, Creates
    <3>3. Unnoticed(c, n, NoDir)
      BY <1>0, <3>2, OwnTable
    <3>4. Knows(k, disk'[k.name])
      BY <2>1, EndKnows
    <3>5. NoDir \in Dirs /\ Good(NoDir)
      BY EmptyDirsAreGood
    <3> HIDE DEF n
    <3>6. QED
      BY <1>0, <2>1, <3>1, <3>3, <3>4, <3>5, GoFacts, DirUpdate
  <2>4. QED
    BY <2>2, <2>3
<1>6. QED
  BY <1>1, <1>2, <1>3, <1>4, <1>5 DEF Write

\* DELETE removes the partitions of its filter and their statistics.
LEMMA RemoveEffect ==
  ASSUME CatalogInv, NEW c \in Clients, RemovePartitions(c)
  PROVE  LET n == clients[c].name
         IN /\ End(c)
            /\ \E d \in Dirs : \E ps : /\ Good(d) /\ d.dir /\ d.schema = disk[n].schema
                                       /\ d.data = Without(disk[n].data, ps)
                                       /\ disk' = [disk EXCEPT ![n] = d]
                                       /\ tables' = [tables EXCEPT ![n] = Entry(d)]
                                       /\ catalog' = IF catalog[n] # None
                                            THEN [catalog EXCEPT ![n].data = Without(@, ps)]
                                            ELSE catalog
<1> USE DEF CatalogInv
<1>1. PICK n : n = clients[c].name
  OBVIOUS
<1>2. clients[c].at = "remove" /\ n \in Names
  BY <1>1, OwnName DEF RemovePartitions, At
<1>3. disk[n].schema # None
  BY <1>1, <1>2 DEF KnowsInv, Knows
<1>4. PICK r \in Dirs : r = disk[n] /\ Good(r) /\ r.dir = TRUE
  BY <1>2, <1>3, EntryFacts DEF Dirs
<1>5. PICK ps : ps = IF clients[c].part THEN clients[c].parts ELSE PartsOf(disk[n].data)
  OBVIOUS
<1> DEFINE d == [r EXCEPT !.data = Without(@, ps), !.stats = Without(@, ps)]
<1>6. ps \cap PartsOf(disk[n].data) \subseteq PartsOf(disk[n].stats)
  BY <1>4 DEF Good
<1>7. /\ disk' = [disk EXCEPT ![n] = d]
      /\ tables' = [tables EXCEPT ![n] = Loaded(d, @)]
      /\ catalog' = IF Loads(d) /\ catalog[n] # None
                    THEN [catalog EXCEPT ![n].data = Without(@, ps)] ELSE catalog
      /\ End(c)
  BY <1>1, <1>4, <1>5, <1>6 DEF RemovePartitions
<1>8. Without(r.data, ps) \in SUBSET Pairs /\ Without(r.stats, ps) \in SUBSET Pairs
  BY DEF Without, Dirs
<1>9. /\ d \in Dirs /\ d.dir = TRUE /\ d.schema = r.schema /\ d.data = Without(r.data, ps)
      /\ d.stats = Without(r.stats, ps)
  BY <1>4, <1>8 DEF Dirs
<1> HIDE DEF d
<1>10. Good(d)
  <2>1. PartsOf(d.data) \subseteq PartsOf(r.data)
    BY <1>9 DEF PartsOf, Without
  <2>2. QED
    BY <1>3, <1>4, <1>9, <2>1 DEF Good
<1>11. Loads(d) /\ Loaded(d, tables[n]) = Entry(d)
  BY <1>3, <1>4, <1>9, <1>10, GoodLoads
<1>12. tables' = [tables EXCEPT ![n] = Entry(d)]
  BY <1>2, <1>7, <1>11 DEF TablesInv
<1>13. catalog' = IF catalog[n] # None THEN [catalog EXCEPT ![n].data = Without(@, ps)]
                   ELSE catalog
  BY <1>7, <1>11
<1>14. disk' = [disk EXCEPT ![n] = d]
  BY <1>7 DEF d
<1>15. d.schema = disk[n].schema /\ d.data = Without(disk[n].data, ps) /\ d.dir
  BY <1>4, <1>9
<1>16. QED
  BY <1>1, <1>7, <1>9, <1>10, <1>12, <1>13, <1>14, <1>15

LEMMA RemoveStep ==
  ASSUME CatalogInv, NEW c \in Clients, RemovePartitions(c)
  PROVE  DirInv' /\ TablesInv' /\ KnowsInv'
<1> DEFINE n == clients[c].name
<1> USE DEF CatalogInv
<1>1. clients[c].at = "remove" /\ n \in Names /\ n \in Touches(clients[c])
  BY OwnName DEF RemovePartitions, At
<1>2. disk[n].schema # None
  BY <1>1 DEF KnowsInv, Knows
<1>3. PICK d \in Dirs : /\ Good(d) /\ d.schema = disk[n].schema
                        /\ disk' = [disk EXCEPT ![n] = d]
                        /\ tables' = [tables EXCEPT ![n] = Entry(d)]
  BY RemoveEffect
<1>4. PICK k : Go(c, k) /\ k.at \in {"idle", "rollback"}
  BY RemoveEffect, EndGoes
<1>5. Unnoticed(c, n, d)
  BY <1>1, <1>2, <1>3, OwnTable
<1>6. Knows(k, disk'[k.name])
  BY <1>4, EndKnows
<1> HIDE DEF n
<1>7. QED
  BY <1>1, <1>3, <1>4, <1>5, <1>6, GoFacts, DirUpdate

\* Dropping a table that may not exist.
LEMMA DroppedFacts ==
  ASSUME DirInv, TablesInv, NEW n \in Names
  PROVE  LET d == IF tables[n] = None THEN disk[n] ELSE NoDir
         IN d \in Dirs /\ Good(d) /\ Entry(d) = None
<1>1. CASE tables[n] = None
  BY <1>1, EntryFacts
<1>2. CASE tables[n] # None
  BY <1>2, EmptyDirsAreGood
<1>3. QED
  BY <1>1, <1>2

\* The tables of an index, and the one that is dropped next.
LEMMA IndexTables ==
  ASSUME ClientInv, NEW c \in Clients, clients[c].index \in Indexes
  PROVE  LET k == clients[c]
         IN /\ {CodecOf(k), IndexOf(k)} \subseteq Names
            /\ {CodecOf(k), IndexOf(k)} \subseteq Touches(k)
            /\ k.at = "dropTables" => Head(k.todo) \in {CodecOf(k), IndexOf(k)}
<1> DEFINE k == clients[c]
<1>1. CodecOf(k) \in Names /\ IndexOf(k) \in Names
  BY CatalogAssumption DEF CodecOf, IndexOf
<1>2. {CodecOf(k), IndexOf(k)} \subseteq Touches(k)
  BY NoneAssumption DEF Touches, CodecOf, IndexOf
<1>3. ASSUME k.at = "dropTables" PROVE Head(k.todo) \in {CodecOf(k), IndexOf(k)}
  <2>1. k.todo \in {<<CodecOf(k), IndexOf(k)>>, <<IndexOf(k)>>}
    BY <1>3, SMTT(60) DEF ClientInv, Shape, Kind, IndexShape
  <2>2. QED
    BY <1>1, <2>1
<1>4. QED
  BY <1>1, <1>2, <1>3

\* The steps of a vector index.
LEMMA IndexStep ==
  ASSUME CatalogInv, NEW c \in Clients, Index(c)
  PROVE  DirInv' /\ TablesInv' /\ KnowsInv'
<1> USE DEF CatalogInv
<1>0. clients[c] \in ClientStates /\ clients[c].index \in Indexes /\ Creates(clients[c])
  BY DEF ClientInv, Shape, Kind, IndexShape, Index, WriteRecord, Rollback, DropIndexTable, At,
     Creates
<1>1. CASE WriteRecord(c)
  <2>1. disk' = disk /\ tables' = tables /\ (End(c) \/ Fail(c))
    BY <1>1 DEF WriteRecord
  <2>2. QED
    BY <2>1, EndGoes, EndKnows, GoFacts, LocalUpdate
<1>2. CASE \E n \in {CodecOf(clients[c]), IndexOf(clients[c])} :
             \E k : /\ k.at \in {"rollback", "idle", "dropTables"} /\ Go(c, k)
                    /\ disk' = [disk EXCEPT ![n] = IF tables[n] = None THEN @ ELSE NoDir]
                    /\ tables' = [tables EXCEPT ![n] = None]
  <2>1. PICK n \in {CodecOf(clients[c]), IndexOf(clients[c])} :
             \E k : /\ k.at \in {"rollback", "idle", "dropTables"} /\ Go(c, k)
                    /\ disk' = [disk EXCEPT ![n] = IF tables[n] = None THEN @ ELSE NoDir]
                    /\ tables' = [tables EXCEPT ![n] = None]
    BY <1>2
  <2>2. PICK k : /\ k.at \in {"rollback", "idle", "dropTables"} /\ Go(c, k)
                 /\ disk' = [disk EXCEPT ![n] = IF tables[n] = None THEN @ ELSE NoDir]
                 /\ tables' = [tables EXCEPT ![n] = None]
    BY <2>1
  <2>3. n \in Names /\ n \in Touches(clients[c])
    BY <1>0, <2>1, IndexTables
  <2> DEFINE d == IF tables[n] = None THEN disk[n] ELSE NoDir
  <2>4. d \in Dirs /\ Good(d) /\ Entry(d) = None
    BY <2>3, DroppedFacts
  <2>5. disk' = [disk EXCEPT ![n] = d] /\ tables' = [tables EXCEPT ![n] = Entry(d)]
    BY <2>2, <2>4
  <2>6. Unnoticed(c, n, d)
    BY <1>0, <2>3, OwnTable
  <2>7. Knows(k, disk'[k.name])
    BY <2>2 DEF Knows, Writing
  <2> HIDE DEF d
  <2>8. QED
    BY <2>2, <2>3, <2>4, <2>5, <2>6, <2>7, GoFacts, DirUpdate, ZenonT(90)
<1>3. CASE Rollback(c)
  <2>1. clients[c].at = "rollback"
    BY <1>3 DEF Rollback, At
  <2>2. CASE RollbackTables(c) = {}
    <3>1. disk' = disk /\ tables' = tables /\ End(c)
      BY <1>3, <2>2 DEF Rollback
    <3>2. QED
      BY <3>1, EndGoes, EndKnows, GoFacts, LocalUpdate
  <2>3. CASE RollbackTables(c) # {}
    <3> DEFINE n == IF CodecOf(clients[c]) \in RollbackTables(c) THEN CodecOf(clients[c])
                    ELSE IndexOf(clients[c])
               k == [clients[c] EXCEPT !.created = @ \ {n}]
    <3>1. /\ disk' = [disk EXCEPT ![n] = IF tables[n] = None THEN @ ELSE NoDir]
          /\ tables' = [tables EXCEPT ![n] = None] /\ Go(c, k)
      BY <1>3, <2>3 DEF Rollback, CodecOf, IndexOf
    <3>2. k.at = "rollback"
      BY <1>0, <2>1 DEF ClientStates
    <3>3. n \in {CodecOf(clients[c]), IndexOf(clients[c])}
      OBVIOUS
    <3> HIDE DEF n, k
    <3>4. QED
      BY <1>2, <3>1, <3>2, <3>3
  <2>4. QED
    BY <2>2, <2>3
<1>4. CASE DropIndexTable(c)
  <2> DEFINE n == Head(clients[c].todo)
             k == IF Tail(clients[c].todo) = <<>> THEN Idle
                  ELSE [clients[c] EXCEPT !.todo = Tail(@)]
  <2>1. /\ disk' = [disk EXCEPT ![n] = IF tables[n] = None THEN @ ELSE NoDir]
        /\ tables' = [tables EXCEPT ![n] = None] /\ Go(c, k) /\ clients[c].at = "dropTables"
    BY <1>4 DEF DropIndexTable, At
  <2>2. n \in {CodecOf(clients[c]), IndexOf(clients[c])}
    BY <1>0, <2>1, IndexTables
  <2>3. k.at \in {"idle", "dropTables"}
    <3>1. Idle.at = "idle"
      BY DEF Idle
    <3>2. [clients[c] EXCEPT !.todo = Tail(@)].at = "dropTables"
      BY <1>0, <2>1 DEF ClientStates
    <3>3. QED
      BY <3>1, <3>2
  <2> HIDE DEF n, k
  <2>4. QED
    BY <1>2, <2>1, <2>2, <2>3
<1>5. QED
  BY <1>1, <1>3, <1>4 DEF Index

\* The first steps of statements.
LEMMA StartStep ==
  ASSUME CatalogInv, NEW c \in Clients,
         \/ \E n \in Names : StartCreate(c, n) \/ StartInsert(c, n) \/ StartDelete(c, n)
         \/ \E i \in Indexes : StartIndex(c, i) \/ DropRecord(c, i)
  PROVE  DirInv' /\ TablesInv' /\ KnowsInv'
<1> USE DEF CatalogInv
<1>1. disk' = disk /\ tables' = tables
  BY DEF StartCreate, StartInsert, StartDelete, StartIndex, DropRecord
<1>2. CASE \E k : Go(c, k) /\ Knows(k, disk[k.name])
  BY <1>1, <1>2, GoFacts, LocalUpdate
<1>3. ASSUME NEW n \in Names, StartCreate(c, n) PROVE \E k : Go(c, k) /\ Knows(k, disk[k.name])
  <2>1. PICK op \in {"create", "ctas"}, quiet \in BOOLEAN, part \in BOOLEAN :
          Go(c, [Begun(op, "check", n) EXCEPT !.quiet = quiet, !.part = part,
                                              !.write = writes + 1])
    BY <1>3 DEF StartCreate
  <2>2. PICK b : b = Begun(op, "check", n)
    OBVIOUS
  <2>3. b \in ClientStates /\ b.at = "check"
    BY <2>2, BegunFacts DEF Ops, Steps
  <2> DEFINE k == [b EXCEPT !.quiet = quiet, !.part = part, !.write = writes + 1]
  <2>4. k.at = "check"
    BY ONLY <2>3 DEF ClientStates
  <2>5. Go(c, k)
    BY <2>1, <2>2
  <2> HIDE DEF k
  <2>6. QED
    BY <2>4, <2>5 DEF Knows, Writing
<1>4. ASSUME NEW n \in Names, StartInsert(c, n) PROVE \E k : Go(c, k) /\ Knows(k, disk[k.name])
  <2>1. PICK b : b = Begun("insert", "begin", n)
    OBVIOUS
  <2>2. b \in ClientStates /\ b.at = "begin" /\ b.name = n /\ b.op = "insert"
    BY <2>1, BegunFacts DEF Ops, Steps
  <2>3. PICK part : part = tables[n].schema.partitioned
    OBVIOUS
  <2> DEFINE k == [b EXCEPT !.part = part, !.write = writes + 1]
  <2>4. k.at = "begin" /\ k.name = n /\ k.op = "insert" /\ k.part = part
    BY ONLY <2>2 DEF ClientStates
  <2>5. Go(c, k)
    BY <1>4, <2>1, <2>3 DEF StartInsert
  <2>6. disk[n].schema # None /\ disk[n].schema.partitioned = part
    BY <1>4, <2>3, EntryFacts DEF StartInsert
  <2> HIDE DEF k
  <2>7. QED
    BY <2>4, <2>5, <2>6 DEF Knows, Writing
<1>5. ASSUME NEW n \in Names, StartDelete(c, n) PROVE \E k : Go(c, k) /\ Knows(k, disk[k.name])
  <2>1. PICK b : b = Begun("delete", "remove", n)
    OBVIOUS
  <2>2. b \in ClientStates /\ b.at = "remove" /\ b.name = n
    BY <2>1, BegunFacts DEF Ops, Steps
  <2>3. PICK part : part = tables[n].schema.partitioned
    OBVIOUS
  <2>4. PICK ps \in SUBSET Parts : Go(c, [b EXCEPT !.part = part, !.parts = ps])
    BY <1>5, <2>1, <2>3 DEF StartDelete
  <2> DEFINE k == [b EXCEPT !.part = part, !.parts = ps]
  <2>5. k.at = "remove" /\ k.name = n /\ k.part = part
    BY ONLY <2>2 DEF ClientStates
  <2>6. disk[n].schema # None /\ disk[n].schema.partitioned = part
    BY <1>5, <2>3, EntryFacts DEF StartDelete
  <2>7. Go(c, k)
    BY <2>4
  <2> HIDE DEF k
  <2>8. QED
    BY <2>5, <2>6, <2>7 DEF Knows, Writing
<1>6. ASSUME NEW i \in Indexes, StartIndex(c, i) PROVE \E k : Go(c, k) /\ Knows(k, disk[k.name])
  <2>1. PICK b : b = Begun("index", "check", Head(TablesOf(i)))
    OBVIOUS
  <2>2. Head(TablesOf(i)) \in Names
    BY CatalogAssumption DEF TablesOf
  <2>3. b \in ClientStates /\ b.at = "check"
    BY <2>1, <2>2, BegunFacts DEF Ops, Steps
  <2> DEFINE k == [b EXCEPT !.part = TRUE, !.index = i, !.todo = Tail(TablesOf(i)),
                            !.write = writes + 1]
  <2>4. k.at = "check"
    BY ONLY <2>3 DEF ClientStates
  <2>5. Go(c, k)
    BY <1>6, <2>1 DEF StartIndex
  <2> HIDE DEF k
  <2>6. QED
    BY <2>4, <2>5 DEF Knows, Writing
<1>7. ASSUME NEW i \in Indexes, DropRecord(c, i) PROVE \E k : Go(c, k) /\ Knows(k, disk[k.name])
  <2>1. PICK b : b = Begun("dropIndex", "dropTables", None)
    OBVIOUS
  <2>2. b \in ClientStates /\ b.at = "dropTables"
    BY <2>1, BegunFacts DEF Ops, Steps
  <2> DEFINE k == [b EXCEPT !.index = i, !.todo = TablesOf(i)]
  <2>3. k.at = "dropTables"
    BY ONLY <2>2 DEF ClientStates
  <2>4. Go(c, k)
    BY <1>7, <2>1 DEF DropRecord
  <2> HIDE DEF k
  <2>5. QED
    BY <2>3, <2>4 DEF Knows, Writing
<1>8. QED
  BY <1>2, <1>3, <1>4, <1>5, <1>6, <1>7, SMTT(60)

\* What a change of the schema leaves alone.
LEMMA AddColumnEffect ==
  ASSUME CatalogInv, NEW c \in Clients, NEW n \in Names, AddColumn(c, n)
  PROVE  /\ clients' = clients /\ tables[n] # None
         /\ \E d \in Dirs : /\ Good(d) /\ d.dir /\ d.schema \in Schemas /\ d.schema.added
                            /\ d.schema.partitioned = disk[n].schema.partitioned
                            /\ d.data = disk[n].data
                            /\ disk' = [disk EXCEPT ![n] = d]
                            /\ tables' = [tables EXCEPT ![n] = Entry(d)]
                            /\ catalog' = IF catalog[n] # None
                                          THEN [catalog EXCEPT ![n].added = TRUE] ELSE catalog
<1> USE DEF CatalogInv
<1>1. tables[n] # None
  BY DEF AddColumn
<1>2. PICK r \in Dirs : r = disk[n] /\ Good(r) /\ r.dir = TRUE /\ r.schema \in Schemas
  BY <1>1, EntryFacts DEF Dirs
<1> DEFINE d == [r EXCEPT !.schema.added = TRUE]
<1>3. PICK s \in Schemas : s = r.schema
  BY <1>2
<1>4. /\ [s EXCEPT !.added = TRUE] \in Schemas /\ [s EXCEPT !.added = TRUE].added
      /\ [s EXCEPT !.added = TRUE].partitioned = s.partitioned
  BY DEF Schemas
<1>5. d = [r EXCEPT !.schema = [s EXCEPT !.added = TRUE]]
  BY <1>2, <1>3 DEF Dirs
<1>6. PICK t \in Schemas : t = [s EXCEPT !.added = TRUE]
  BY <1>4
<1>7. d = [r EXCEPT !.schema = t]
  BY <1>5, <1>6
<1>8. /\ d \in Dirs /\ d.dir = TRUE /\ d.schema = t /\ d.data = r.data /\ d.stats = r.stats
  BY ONLY <1>2, <1>7, r \in Dirs, t \in Schemas DEF Dirs
<1>9. t # None /\ r.schema # None
  BY <1>2, NoneAssumption
<1>10. /\ disk' = [disk EXCEPT ![n] = d] /\ tables' = [tables EXCEPT ![n] = Loaded(d, @)]
       /\ catalog' = IF Loads(d) /\ catalog[n] # None
                     THEN [catalog EXCEPT ![n].added = TRUE] ELSE catalog
       /\ clients' = clients
  BY <1>2 DEF AddColumn, Reloaded
<1> HIDE DEF d
<1>11. Place(t) = Place(r.schema)
  BY <1>3, <1>4, <1>6 DEF Place
<1>12. Good(d)
  BY <1>2, <1>8, <1>9, <1>11 DEF Good
<1>13. Loads(d) /\ Loaded(d, tables[n]) = Entry(d)
  BY <1>8, <1>9, <1>12, GoodLoads
<1>14. tables' = [tables EXCEPT ![n] = Entry(d)]
  BY <1>10, <1>13 DEF TablesInv
<1>15. catalog' = IF catalog[n] # None THEN [catalog EXCEPT ![n].added = TRUE] ELSE catalog
  BY <1>10, <1>13
<1>16. /\ d.schema \in Schemas /\ d.schema.added /\ d.data = disk[n].data /\ d.dir
       /\ d.schema.partitioned = disk[n].schema.partitioned
  BY <1>2, <1>3, <1>4, <1>6, <1>8
<1>17. QED
  BY <1>1, <1>8, <1>10, <1>12, <1>14, <1>15, <1>16

\* DROP TABLE, ALTER TABLE, and loading tables anew.
LEMMA SchemaStep ==
  ASSUME "overlap" \notin Faults, CatalogInv, NEW c \in Clients, NEW n \in Names,
         DropTable(c, n) \/ AddColumn(c, n) \/ Refused(c, n) \/ ReloadTable(c, n)
  PROVE  CatalogInv'
<1> USE DEF CatalogInv
<1>1. clients' = clients /\ writes' = writes /\ clients[c].at = "idle"
  BY DEF DropTable, AddColumn, Refused, ReloadTable, vars, At
<1>2. ClientInv' /\ ApartInv'
  BY <1>1 DEF ClientInv, ApartInv
<1>3. \A e \in Clients : clients'[e] = IF e = c THEN clients[c] ELSE clients[e]
  BY <1>1
<1>4. \A d : Knows(clients[c], d)
  BY <1>1 DEF Knows, Writing
<1>5. CASE DropTable(c, n)
  <2>1. disk' = [disk EXCEPT ![n] = NoDir] /\ tables' = [tables EXCEPT ![n] = Entry(NoDir)]
    BY <1>5, EmptyDirsAreGood DEF DropTable
  <2>2. Unnoticed(c, n, NoDir)
    BY <1>5 DEF DropTable, Apart, Unnoticed
  <2>3. NoDir \in Dirs /\ Good(NoDir)
    BY EmptyDirsAreGood
  <2>4. QED
    BY <1>2, <1>3, <1>4, <2>1, <2>2, <2>3, DirUpdate
<1>6. CASE AddColumn(c, n)
  <2>1. PICK d \in Dirs : /\ Good(d) /\ d.schema \in Schemas
                          /\ d.schema.partitioned = disk[n].schema.partitioned
                          /\ disk' = [disk EXCEPT ![n] = d]
                          /\ tables' = [tables EXCEPT ![n] = Entry(d)]
    BY <1>6, AddColumnEffect
  <2>2. Apart(c, {n}, FALSE) /\ d.schema # None
    BY <1>6, <2>1, NoneAssumption DEF AddColumn
  <2>3. Unnoticed(c, n, d)
    BY <2>1, <2>2 DEF Apart, Unnoticed
  <2>4. QED
    BY <1>2, <1>3, <1>4, <2>1, <2>3, DirUpdate
<1>7. CASE disk' = disk /\ tables' = tables
  BY <1>2, <1>3, <1>4, <1>7, LocalUpdate
<1>8. CASE ReloadTable(c, n)
  <2>1. disk' = disk /\ tables' = [tables EXCEPT ![n] = Loaded(disk[n], @)]
    BY <1>8 DEF ReloadTable
  <2>2. disk[n] \in Dirs /\ Good(disk[n]) /\ tables[n] = Entry(disk[n]) /\ disk[n].schema # None
    BY <1>8, EntryFacts DEF ReloadTable
  <2>3. Loaded(disk[n], tables[n]) = tables[n]
    BY <2>2, GoodLoads
  <2>4. tables' = tables
    BY <2>1, <2>3 DEF TablesInv
  <2>5. QED
    BY <1>7, <2>1, <2>4
<1>9. QED
  BY <1>5, <1>6, <1>7, <1>8 DEF Refused, vars

\* A restart finds the tables that memory held.
LEMMA RestartStep ==
  ASSUME CatalogInv, Restart
  PROVE  CatalogInv' /\ disk' = disk /\ tables' = tables /\ clients' = clients
<1> USE DEF CatalogInv
<1>1. /\ disk' = disk /\ clients' = clients /\ writes' = writes
      /\ tables' = [n \in Names |-> IF disk[n].dir THEN Loaded(disk[n], None) ELSE None]
      /\ \A n \in Names : disk[n].dir => Loads(disk[n])
  BY DEF Restart
<1>2. ASSUME NEW n \in Names
      PROVE  (IF disk[n].dir THEN Loaded(disk[n], None) ELSE None) = Entry(disk[n])
  <2>1. disk[n] \in Dirs /\ Good(disk[n])
    BY DEF DirInv
  <2>2. CASE disk[n].dir
    <3>1. disk[n].schema # None
      BY <1>1, <2>2 DEF Loads
    <3>2. QED
      BY <2>1, <2>2, <3>1, GoodLoads
  <2>3. CASE ~disk[n].dir
    BY <2>1, <2>3, EmptyDirsAreGood DEF Good
  <2>4. QED
    BY <2>2, <2>3
<1>3. tables' = tables
  BY <1>1, <1>2 DEF TablesInv
<1>4. QED
  BY <1>1, <1>3 DEF ClientInv, ApartInv, DirInv, TablesInv, KnowsInv

\* The invariant is inductive.
LEMMA CatalogInvInit == Init => CatalogInv
<1> SUFFICES ASSUME Init PROVE CatalogInv
  OBVIOUS
<1>1. ClientInv
  BY IdleFacts, CatalogAssumption DEF Init, ClientInv
<1>2. ApartInv
  BY IdleFacts DEF Init, ApartInv
<1>3. DirInv /\ TablesInv
  BY EmptyDirsAreGood DEF Init, DirInv, TablesInv
<1>4. KnowsInv
  <2>1. \A d : Knows(Idle, d)
    BY DEF Knows, Idle, Writing
  <2>2. QED
    BY <2>1 DEF Init, KnowsInv
<1>5. QED
  BY <1>1, <1>2, <1>3, <1>4 DEF CatalogInv

LEMMA CatalogInvNext ==
  ASSUME "overlap" \notin Faults, "mixed" \notin Faults, CatalogInv, [Next]_vars
  PROVE  CatalogInv'
<1> USE DEF CatalogInv
<1>1. CASE UNCHANGED vars
  BY <1>1 DEF vars, ClientInv, ApartInv, DirInv, TablesInv, KnowsInv
<1>2. CASE Restart
  BY <1>2, RestartStep
<1>3. ASSUME NEW c \in Clients, Create(c) \/ Write(c) \/ RemovePartitions(c) \/ Index(c)
      PROVE  CatalogInv'
  <2>1. \E k : Continues(c, k)
    BY <1>3, CreateContinues, WriteContinues, IndexContinues
  <2>2. ClientInv' /\ ApartInv'
    BY <2>1, ApartUpdate
  <2>3. QED
    BY <1>3, <2>2, CreateStep, WriteStep, RemoveStep, IndexStep
<1>4. ASSUME NEW c \in Clients, NEW n \in Names,
             StartCreate(c, n) \/ StartInsert(c, n) \/ StartDelete(c, n)
      PROVE  CatalogInv'
  <2>1. StartInsert(c, n) \/ StartDelete(c, n) => tables[n].schema.partitioned \in BOOLEAN
    BY EntryFacts DEF StartInsert, StartDelete
  <2>2. ClientInv' /\ ApartInv'
    BY <1>4, <2>1, StartContinues, ApartUpdate
  <2>3. QED
    BY <1>4, <2>2, StartStep
<1>5. ASSUME NEW c \in Clients, NEW i \in Indexes, StartIndex(c, i) \/ DropRecord(c, i)
      PROVE  CatalogInv'
  <2>1. ClientInv' /\ ApartInv'
    BY <1>5, IndexStartContinues, ApartUpdate
  <2>2. QED
    BY <1>5, <2>1, StartStep
<1>6. ASSUME NEW c \in Clients, NEW n \in Names,
             DropTable(c, n) \/ AddColumn(c, n) \/ Refused(c, n) \/ ReloadTable(c, n)
      PROVE  CatalogInv'
  BY <1>6, SchemaStep
<1>7. QED
  BY <1>1, <1>2, <1>3, <1>4, <1>5, <1>6 DEF Next

LEMMA CatalogInvHolds ==
  ASSUME "overlap" \notin Faults, "mixed" \notin Faults
  PROVE  Spec => []CatalogInv
<1>1. CatalogInv /\ [Next]_vars => CatalogInv'
  BY CatalogInvNext
<1>2. QED
  BY <1>1, CatalogInvInit, PTL DEF Spec

\* findTable() finds the tables that the directories hold.
THEOREM MemoryIsTheDisk ==
  ASSUME "overlap" \notin Faults, "mixed" \notin Faults
  PROVE  Spec => []MemoryMirrorsDisk
<1>1. CatalogInv => MemoryMirrorsDisk
  <2> SUFFICES ASSUME CatalogInv, NEW n \in Names
               PROVE  /\ tables[n] = None <=> disk[n].schema = None
                      /\ tables[n] # None => tables[n] = Loaded(disk[n], None)
    BY DEF MemoryMirrorsDisk
  <2>1. QED
    BY EntryFacts, GoodLoads DEF CatalogInv
<1>2. QED
  BY <1>1, CatalogInvHolds, PTL

\* The statistics count the files.
THEOREM StatsAreExact ==
  ASSUME "overlap" \notin Faults, "mixed" \notin Faults
  PROVE  Spec => []StatsCountData
<1>1. CatalogInv => StatsCountData
  <2> SUFFICES ASSUME CatalogInv, NEW n \in Names, tables[n] # None
               PROVE  tables[n].stats = tables[n].data
    BY DEF StatsCountData
  <2>1. QED
    BY EntryFacts DEF CatalogInv, Good
<1>2. QED
  BY <1>1, CatalogInvHolds, PTL

-----------------------------------------------------------------------------
(* What the statements report.                                             *)

\* A table is as it was reported.
Agrees(r, d) ==
  IF r = None THEN d = NoDir
  ELSE d.schema # None /\ d.data = r.data /\ d.schema.added = r.added

\* The tables that a statement creates or drops, which nobody else works on.
Making(k, n) == Creates(k) /\ n \in Touches(k)

\* How far it is with one of them: nothing is reported of a table that is being
\* made, and an index has made what it lists as created and nothing else.
Stage(k, n, r, d) ==
  /\ k.op = "dropIndex" \/ (k.op # "index" /\ k.at = "check") => Agrees(r, d)
  /\ k.op # "dropIndex" /\ (k.op = "index" \/ k.at # "check") => r = None
  /\ k.op = "index" =>
       IF n \in k.created THEN d.schema # None /\ d.data = {} /\ ~d.schema.added
       ELSE (n = k.name /\ k.at \in {"mkdir", "register"} \cup Writing) \/ d = NoDir

ResultInv ==
  \A n \in Names :
    /\ (\A c \in Clients : ~Making(clients[c], n)) => Agrees(catalog[n], disk[n])
    /\ \A c \in Clients : Making(clients[c], n) => Stage(clients[c], n, catalog[n], disk[n])

\* A step of one client, on tables that no other client makes or drops.
LEMMA ResultUpdate ==
  ASSUME ResultInv, NEW c \in Clients, NEW k, NEW N \in SUBSET Names,
         \A e \in Clients : clients'[e] = IF e = c THEN k ELSE clients[e],
         \A m \in Names \ N : disk'[m] = disk[m] /\ catalog'[m] = catalog[m],
         \A m \in N : \A e \in Clients \ {c} : ~Making(clients[e], m),
         \A m \in Names : Making(k, m) => Stage(k, m, catalog'[m], disk'[m]),
         \A m \in Names : ~Making(k, m) /\ (Making(clients[c], m) \/ m \in N) =>
           Agrees(catalog'[m], disk'[m])
  PROVE  ResultInv'
<1> SUFFICES ASSUME NEW m \in Names
             PROVE  /\ (\A e \in Clients : ~Making(clients'[e], m)) =>
                         Agrees(catalog'[m], disk'[m])
                    /\ \A e \in Clients : Making(clients'[e], m) =>
                         Stage(clients'[e], m, catalog'[m], disk'[m])
  <2>1. ResultInv' <=>
          \A m \in Names :
            /\ (\A e \in Clients : ~Making(clients'[e], m)) => Agrees(catalog'[m], disk'[m])
            /\ \A e \in Clients : Making(clients'[e], m) =>
                 Stage(clients'[e], m, catalog'[m], disk'[m])
    BY DEF ResultInv, Making, Creates, Touches, Agrees, Stage
  <2>2. QED
    BY <2>1
<1>1. ASSUME \A e \in Clients : ~Making(clients'[e], m)
      PROVE  Agrees(catalog'[m], disk'[m])
  <2>1. ~Making(k, m)
    BY <1>1
  <2>2. CASE Making(clients[c], m) \/ m \in N
    BY <2>1, <2>2
  <2>3. CASE ~Making(clients[c], m) /\ m \notin N
    <3>1. \A e \in Clients : ~Making(clients[e], m)
      BY <1>1, <2>3
    <3>2. Agrees(catalog[m], disk[m])
      BY <3>1 DEF ResultInv
    <3>3. QED
      BY <2>3, <3>2
  <2>4. QED
    BY <2>2, <2>3
<1>2. ASSUME NEW e \in Clients, Making(clients'[e], m)
      PROVE  Stage(clients'[e], m, catalog'[m], disk'[m])
  <2>1. CASE e = c
    BY <1>2, <2>1
  <2>2. CASE e # c
    <3>1. Making(clients[e], m) /\ clients'[e] = clients[e]
      BY <1>2, <2>2
    <3>2. m \notin N
      BY <2>2, <3>1
    <3>3. Stage(clients[e], m, catalog[m], disk[m])
      BY <3>1 DEF ResultInv
    <3>4. QED
      BY <3>1, <3>2, <3>3
  <2>3. QED
    BY <2>1, <2>2
<1>3. QED
  BY <1>1, <1>2

\* A step of one client on one table, and on none.
LEMMA ResultUpdateOne ==
  ASSUME ResultInv, NEW c \in Clients, NEW k, NEW n \in Names,
         \A e \in Clients : clients'[e] = IF e = c THEN k ELSE clients[e],
         \A m \in Names : m # n => disk'[m] = disk[m] /\ catalog'[m] = catalog[m],
         \A e \in Clients \ {c} : ~Making(clients[e], n),
         \A m \in Names : Making(k, m) => Stage(k, m, catalog'[m], disk'[m]),
         \A m \in Names : ~Making(k, m) /\ (Making(clients[c], m) \/ m = n) =>
           Agrees(catalog'[m], disk'[m])
  PROVE  ResultInv'
<1>1. PICK N \in SUBSET Names : N = {n}
  OBVIOUS
<1>2. \A m \in Names \ N : disk'[m] = disk[m] /\ catalog'[m] = catalog[m]
  BY <1>1
<1>3. \A m \in N : \A e \in Clients \ {c} : ~Making(clients[e], m)
  BY <1>1
<1>4. \A m \in Names : ~Making(k, m) /\ (Making(clients[c], m) \/ m \in N) =>
        Agrees(catalog'[m], disk'[m])
  BY <1>1
<1>5. QED
  BY <1>2, <1>3, <1>4, ResultUpdate

LEMMA ResultUpdateNone ==
  ASSUME ResultInv, NEW c \in Clients, NEW k, disk' = disk, catalog' = catalog,
         \A e \in Clients : clients'[e] = IF e = c THEN k ELSE clients[e],
         \A m \in Names : Making(k, m) => Stage(k, m, catalog[m], disk[m]),
         \A m \in Names : ~Making(k, m) /\ Making(clients[c], m) => Agrees(catalog[m], disk[m])
  PROVE  ResultInv'
<1>1. PICK N \in SUBSET Names : N = {}
  OBVIOUS
<1>2. \A m \in Names \ N : disk'[m] = disk[m] /\ catalog'[m] = catalog[m]
  OBVIOUS
<1>3. \A m \in N : \A e \in Clients \ {c} : ~Making(clients[e], m)
  BY <1>1
<1>4. \A m \in Names : ~Making(k, m) /\ (Making(clients[c], m) \/ m \in N) =>
        Agrees(catalog'[m], disk'[m])
  BY <1>1
<1>5. QED
  BY <1>2, <1>3, <1>4, ResultUpdate

\* Nobody else makes or drops a table that a statement works on.
LEMMA MineAlone ==
  ASSUME ApartInv, NEW c \in Clients, NEW m \in Touches(clients[c])
  PROVE  \A e \in Clients \ {c} : ~Making(clients[e], m)
<1> SUFFICES ASSUME NEW e \in Clients \ {c}, Creates(clients[e]), m \in Touches(clients[e])
             PROVE  FALSE
  BY DEF Making
<1>1. Touches(clients[e]) \cap Touches(clients[c]) # {}
  OBVIOUS
<1>2. QED
  BY <1>1 DEF ApartInv

\* A table that its statement does not create or drop is as it was reported, and
\* it was reported if it exists.
LEMMA ReportedTable ==
  ASSUME CatalogInv, ResultInv, NEW n \in Names, \A e \in Clients : ~Making(clients[e], n)
  PROVE  /\ Agrees(catalog[n], disk[n])
         /\ disk[n].schema # None => catalog[n] # None
         /\ disk[n].schema = None => catalog[n] = None /\ disk[n] = NoDir
<1>1. Agrees(catalog[n], disk[n])
  BY DEF ResultInv
<1>2. NoDir.schema = None
  BY DEF NoDir
<1>3. QED
  BY <1>1, <1>2 DEF Agrees

\* The tables of a statement.
LEMMA MakingFacts ==
  ASSUME ClientInv, NEW c \in Clients
  PROVE  LET k == clients[c]
         IN /\ k.op \in {"create", "ctas"} => \A m \in Names : Making(k, m) <=> m = k.name
            /\ k.op \in {"index", "dropIndex"} =>
                 \A m \in Names : Making(k, m) <=> m \in {CodecOf(k), IndexOf(k)}
            /\ k.op \in {"insert", "delete", "none"} => \A m \in Names : ~Making(k, m)
<1> DEFINE k == clients[c]
<1>1. k \in ClientStates /\ Shape(k)
  BY DEF ClientInv
<1>2. ASSUME k.op \in {"create", "ctas"}, NEW m \in Names PROVE Making(k, m) <=> m = k.name
  <2>1. k.index = None
    BY <1>1, <1>2 DEF Shape, IndexShape, ClientStates
  <2>2. QED
    BY <1>2, <2>1, NoneAssumption DEF Making, Creates, Touches
<1>3. ASSUME k.op \in {"index", "dropIndex"}, NEW m \in Names
      PROVE  Making(k, m) <=> m \in {CodecOf(k), IndexOf(k)}
  <2>1. k.index \in Indexes /\ k.name \in {None, CodecOf(k), IndexOf(k)}
    BY <1>1, <1>3 DEF Shape, IndexShape
  <2>2. QED
    BY <1>3, <2>1, NoneAssumption DEF Making, Creates, Touches, CodecOf, IndexOf
<1>4. k.op \in {"insert", "delete", "none"} => \A m \in Names : ~Making(k, m)
  BY DEF Making, Creates
<1>5. QED
  BY <1>2, <1>3, <1>4

\* A statement that goes on with its tables goes on making them.
LEMMA MakingMoves ==
  ASSUME NEW k, NEW l, l.op = k.op, l.name = k.name, l.index = k.index, NEW m
  PROVE  Making(l, m) <=> Making(k, m)
  BY DEF Making, Creates, Touches

LEMMA IdleMakesNothing == \A m : ~Making(Idle, m)
  BY IdleFacts DEF Making

\* Nobody makes or drops a table when a statement on it begins.
LEMMA NobodyMakes ==
  ASSUME "overlap" \notin Faults, CatalogInv, NEW c \in Clients, At(c, "idle"), NEW names,
         NEW ddl, Apart(c, names, ddl), NEW m \in names
  PROVE  \A e \in Clients : ~Making(clients[e], m)
<1> SUFFICES ASSUME NEW e \in Clients, Creates(clients[e]), m \in Touches(clients[e])
             PROVE  FALSE
  BY DEF Making
<1>1. clients[c] = Idle
  BY DEF CatalogInv, ClientInv, Shape, Kind, At
<1>2. e # c
  BY <1>1, IdleFacts
<1>3. Touches(clients[e]) \cap names # {}
  OBVIOUS
<1>4. QED
  BY <1>2, <1>3 DEF Apart

\* An index has not made the table that it is about to make.
LEMMA NotYetMade ==
  ASSUME ClientInv, NEW c \in Clients, clients[c].op = "index",
         clients[c].at \in Creating \cup Writing
  PROVE  clients[c].name \notin clients[c].created
<1> DEFINE k == clients[c]
<1>1. \/ k.name = CodecOf(k) /\ k.created = {}
      \/ k.name = IndexOf(k) /\ k.created = {CodecOf(k)}
  BY DEF ClientInv, Shape, IndexShape, Creating, Writing
<1>2. k.index \in Indexes
  BY DEF ClientInv, Shape, IndexShape
<1>3. CodecOf(k) # IndexOf(k)
  BY <1>2, CatalogAssumption DEF CodecOf, IndexOf
<1>4. QED
  BY <1>1, <1>3

\* A statement that goes on making a table.
LEMMA StageMoves ==
  ASSUME NEW k, NEW l, NEW m, NEW r, NEW d, NEW e, Stage(k, m, r, d), r = None,
         l.op = k.op, l.name = k.name, l.created = k.created, k.op # "dropIndex",
         l.at \in {"mkdir", "register"} \cup Writing,
         e = d \/ (m = k.name /\ m \notin k.created)
  PROVE  Stage(l, m, r, e)
  BY DEF Stage, Writing

\* createTable() finds the directory empty and writes the schema.
LEMMA RegisterEffect ==
  ASSUME CatalogInv, NEW c \in Clients, Register(c)
  PROVE  /\ Move(c, "begin") /\ catalog' = catalog
         /\ \A m \in Names : m # clients[c].name => disk'[m] = disk[m]
<1> USE DEF CatalogInv
<1> DEFINE n == clients[c].name
<1>1. clients[c].at = "register" /\ n \in Names
  BY OwnName DEF Register, At, Creating
<1>2. disk[n] = EmptyDir
  BY <1>1 DEF KnowsInv, Knows
<1>3. tables[n] = None /\ disk[n].dir
  BY <1>1, <1>2, EntryFacts, EmptyDirsAreGood
<1>4. /\ disk' = [disk EXCEPT ![n].schema = Schema(clients[c].part, FALSE)]
      /\ Move(c, "begin") /\ catalog' = catalog
  BY <1>3 DEF Register
<1>5. QED
  BY <1>1, <1>4 DEF DirInv

\* A step of a statement that makes a table and goes on making it.
LEMMA MovesOn ==
  ASSUME CatalogInv, ResultInv, NEW c \in Clients, NEW k, Go(c, k),
         k.op = clients[c].op, k.name = clients[c].name, k.index = clients[c].index,
         k.created = clients[c].created, k.at \in {"mkdir", "register"} \cup Writing,
         clients[c].op \in {"create", "ctas", "index"},
         clients[c].at \in Creating \cup Writing,
         clients[c].op # "index" /\ clients[c].at = "check" => catalog[k.name] = None,
         catalog' = catalog, \A m \in Names : m # k.name => disk'[m] = disk[m]
  PROVE  ResultInv'
<1> USE DEF CatalogInv
<1> DEFINE n == clients[c].name
<1>1. n \in Names /\ n \in Touches(clients[c])
  BY OwnName
<1>2. \A e \in Clients \ {c} : ~Making(clients[e], n)
  BY <1>1, MineAlone
<1>3. ASSUME NEW m \in Names PROVE Making(k, m) <=> Making(clients[c], m)
  BY MakingMoves
<1>4. ASSUME NEW m \in Names, Making(k, m) PROVE Stage(k, m, catalog'[m], disk'[m])
  <2>1. Making(clients[c], m)
    BY <1>3, <1>4
  <2>2. Stage(clients[c], m, catalog[m], disk[m])
    BY <2>1 DEF ResultInv
  <2>3. catalog[m] = None
    <3>1. CASE clients[c].op = "index" \/ clients[c].at # "check"
      BY <2>2, <3>1 DEF Stage
    <3>2. CASE clients[c].op # "index" /\ clients[c].at = "check"
      BY <2>1, <3>2, MakingFacts
    <3>3. QED
      BY <3>1, <3>2
  <2>4. clients[c].op # "index" \/ n \notin clients[c].created
    BY NotYetMade
  <2>5. CASE m # n \/ clients[c].op = "index"
    <3>1. disk'[m] = disk[m] \/ (m = n /\ m \notin clients[c].created)
      BY <2>4, <2>5
    <3>2. QED
      BY <2>2, <2>3, <3>1, StageMoves
  <2>6. CASE clients[c].op # "index"
    BY <2>3, <2>6 DEF Stage, Writing
  <2>7. QED
    BY <2>5, <2>6
<1>5. \A e \in Clients : clients'[e] = IF e = c THEN k ELSE clients[e]
  BY GoFacts
<1>6. Making(clients[c], n)
  BY <1>1 DEF Making, Creates
<1>7. \A m \in Names : ~Making(k, m) /\ (Making(clients[c], m) \/ m = n) =>
        Agrees(catalog'[m], disk'[m])
  BY <1>3, <1>6
<1>8. \A m \in Names : m # n => disk'[m] = disk[m] /\ catalog'[m] = catalog[m]
  OBVIOUS
<1> HIDE DEF n
<1>9. QED
  BY <1>1, <1>2, <1>4, <1>5, <1>7, <1>8, ResultUpdateOne

\* A statement that ends with its tables as they were reported.
LEMMA EndsWell ==
  ASSUME CatalogInv, ResultInv, NEW c \in Clients, End(c), disk' = disk, catalog' = catalog,
         \A m \in Names : Making(clients[c], m) => Agrees(catalog[m], disk[m])
  PROVE  ResultInv'
<1>1. \A e \in Clients : clients'[e] = IF e = c THEN Idle ELSE clients[e]
  BY GoFacts DEF CatalogInv, End
<1>2. \A m \in Names : ~Making(Idle, m)
  BY IdleMakesNothing
<1>3. PICK k : k = Idle
  OBVIOUS
<1>4. QED
  BY <1>1, <1>2, <1>3, ResultUpdateNone

\* The steps of createTable() report nothing.
LEMMA CreateResult ==
  ASSUME CatalogInv, ResultInv, NEW c \in Clients, Create(c)
  PROVE  ResultInv'
<1> USE DEF CatalogInv
<1> DEFINE n == clients[c].name
<1>0. /\ clients[c] \in ClientStates /\ clients[c].at \in Creating /\ n \in Names
      /\ clients[c].op \in {"create", "ctas", "index"} /\ n \in Touches(clients[c])
      /\ Making(clients[c], n) /\ Stage(clients[c], n, catalog[n], disk[n])
  <2>1. clients[c].at \in Creating
    BY DEF Create, CreateCheck, CreateDir, Register, At, Creating
  <2>2. clients[c] \in ClientStates /\ clients[c].op \in {"create", "ctas", "index"}
    BY <2>1 DEF ClientInv, Shape, Kind
  <2>3. n \in Names /\ n \in Touches(clients[c])
    BY <2>1, OwnName
  <2>4. Making(clients[c], n)
    BY <2>2, <2>3 DEF Making, Creates
  <2>5. QED
    BY <2>1, <2>2, <2>3, <2>4 DEF ResultInv
<1>1. ASSUME NEW at \in {"mkdir", "register", "begin"}, Move(c, at), catalog' = catalog,
             \A m \in Names : m # n => disk'[m] = disk[m],
             clients[c].op # "index" /\ clients[c].at = "check" => catalog[n] = None
      PROVE  ResultInv'
  <2> DEFINE k == [clients[c] EXCEPT !.at = at]
  <2>1. /\ k.op = clients[c].op /\ k.name = n /\ k.index = clients[c].index
        /\ k.created = clients[c].created /\ k.at = at
    BY <1>0 DEF ClientStates
  <2>2. Go(c, k)
    BY <1>1 DEF Move
  <2> HIDE DEF k
  <2>3. k.at \in {"mkdir", "register"} \cup Writing
    BY <2>1 DEF Writing
  <2>4. clients[c].at \in Creating \cup Writing
    BY <1>0
  <2>5. QED
    BY <1>0, <1>1, <2>1, <2>2, <2>3, <2>4, MovesOn
<1>2. CASE CreateCheck(c)
  <2>1. clients[c].at = "check" /\ disk' = disk /\ catalog' = catalog
    BY <1>2 DEF CreateCheck, At
  <2>2. CASE clients[c].op = "index"
    <3>1. n \notin clients[c].created
      BY <1>0, <2>2, NotYetMade
    <3>2. disk[n] = NoDir
      BY <1>0, <2>1, <2>2, <3>1 DEF Stage, Writing
    <3>3. ~disk[n].dir
      BY <3>2 DEF NoDir
    <3>4. Move(c, "mkdir")
      BY <1>2, <3>3 DEF CreateCheck
    <3>5. QED
      BY <1>1, <2>1, <2>2, <3>4
  <2>3. CASE clients[c].op # "index" /\ ~disk[n].dir
    <3>1. disk[n] = NoDir
      BY <1>0, <2>3 DEF DirInv, Good
    <3>2. Agrees(catalog[n], disk[n])
      BY <1>0, <2>1, <2>3 DEF Stage
    <3>3. disk[n].schema = None
      BY <3>1 DEF NoDir
    <3>4. catalog[n] = None
      BY <3>2, <3>3 DEF Agrees
    <3>5. Move(c, "mkdir")
      BY <1>2, <2>3 DEF CreateCheck
    <3>6. QED
      BY <1>1, <2>1, <3>4, <3>5
  <2>4. CASE clients[c].op # "index" /\ disk[n].dir
    <3>1. End(c)
      BY <1>2, <2>4 DEF CreateCheck, Fail
    <3>2. ASSUME NEW m \in Names, Making(clients[c], m) PROVE Agrees(catalog[m], disk[m])
      <4>1. m = n
        BY <1>0, <2>4, <3>2, MakingFacts
      <4>2. QED
        BY <1>0, <2>1, <2>4, <4>1 DEF Stage
    <3>3. QED
      BY <2>1, <3>1, <3>2, EndsWell
  <2>5. QED
    BY <2>2, <2>3, <2>4
<1>3. CASE CreateDir(c)
  <2>1. clients[c].at = "mkdir" /\ Move(c, "register") /\ catalog' = catalog
    BY <1>3 DEF CreateDir, At
  <2>2. disk' = [disk EXCEPT ![n] = IF @.dir THEN @ ELSE EmptyDir]
    BY <1>3 DEF CreateDir
  <2>3. \A m \in Names : m # n => disk'[m] = disk[m]
    BY <2>2 DEF DirInv
  <2>4. QED
    BY <1>1, <2>1, <2>3
<1>4. CASE Register(c)
  <2>1. clients[c].at = "register"
    BY <1>4 DEF Register, At
  <2>2. QED
    BY <1>1, <1>4, <2>1, RegisterEffect
<1>5. QED
  BY <1>2, <1>3, <1>4 DEF Create

\* DELETE takes from the table what it takes from the report.
LEMMA RemoveResult ==
  ASSUME CatalogInv, ResultInv, catalog \in [Names -> Reports \cup {None}], NEW c \in Clients,
         RemovePartitions(c)
  PROVE  ResultInv'
<1> USE DEF CatalogInv
<1> DEFINE n == clients[c].name
<1>1. /\ n \in Names /\ n \in Touches(clients[c]) /\ clients[c].op = "delete"
      /\ disk[n].schema # None
  BY OwnName DEF RemovePartitions, At, KnowsInv, Knows, ClientInv, Shape, Kind
<1>2. PICK d \in Dirs : \E ps : /\ d.schema = disk[n].schema
                                /\ d.data = Without(disk[n].data, ps)
                                /\ disk' = [disk EXCEPT ![n] = d]
                                /\ catalog' = IF catalog[n] # None
                                     THEN [catalog EXCEPT ![n].data = Without(@, ps)]
                                     ELSE catalog
  BY RemoveEffect
<1>3. PICK ps : /\ d.schema = disk[n].schema
                /\ d.data = Without(disk[n].data, ps)
                /\ disk' = [disk EXCEPT ![n] = d]
                /\ catalog' = IF catalog[n] # None
                              THEN [catalog EXCEPT ![n].data = Without(@, ps)]
                              ELSE catalog
  BY <1>2
<1>4. \A m \in Names : ~Making(clients[c], m)
  BY <1>1, MakingFacts
<1>5. \A e \in Clients \ {c} : ~Making(clients[e], n)
  BY <1>1, MineAlone
<1>6. Agrees(catalog[n], disk[n]) /\ catalog[n] # None
  BY <1>1, <1>4, <1>5, ReportedTable
<1>7. disk'[n] = d /\ \A m \in Names : m # n => disk'[m] = disk[m] /\ catalog'[m] = catalog[m]
  BY <1>1, <1>3 DEF DirInv
<1>8. Agrees(catalog'[n], disk'[n])
  <2>1. PICK r \in Reports : r = catalog[n]
    BY <1>1, <1>6
  <2>2. catalog'[n] = [r EXCEPT !.data = Without(@, ps)]
    BY <1>1, <1>3, <1>6, <2>1
  <2>3. Without(r.data, ps) \in SUBSET Pairs
    BY DEF Without, Reports
  <2>4. PICK s \in Reports : /\ s = catalog'[n] /\ s.data = Without(r.data, ps)
                             /\ s.added = r.added
    BY <2>2, <2>3 DEF Reports
  <2>5. s # None
    BY NoneAssumption
  <2>6. disk[n].data = r.data /\ disk[n].schema.added = r.added
    BY <1>6, <2>1 DEF Agrees
  <2>7. d.schema # None /\ d.data = s.data /\ d.schema.added = s.added
    BY <1>1, <1>3, <2>4, <2>6
  <2>8. QED
    BY <1>7, <2>4, <2>5, <2>7 DEF Agrees
<1>9. PICK k : k = Idle /\ \A e \in Clients : clients'[e] = IF e = c THEN k ELSE clients[e]
  BY RemoveEffect, GoFacts DEF End
<1>10. \A m \in Names : ~Making(k, m)
  BY <1>9, IdleMakesNothing
<1> HIDE DEF n
<1>11. QED
  BY <1>1, <1>4, <1>5, <1>7, <1>8, <1>9, <1>10, ResultUpdateOne

\* An index goes on to its next table, or to its record.
LEMMA CommittedIndex ==
  ASSUME ClientInv, NEW c \in Clients, clients[c].op = "index", clients[c].at = "run",
         NEW k \in Committed(c)
  PROVE  /\ k.op = "index" /\ k.index = clients[c].index /\ k.index \in Indexes
         /\ k.created = clients[c].created \cup {clients[c].name}
         /\ k.at \in {"check", "record"} /\ k.name \in {None, CodecOf(k), IndexOf(k)}
<1>1. clients[c] \in ClientStates /\ Shape(clients[c])
  BY DEF ClientInv
<1>2. /\ clients[c].name \in {CodecOf(clients[c]), IndexOf(clients[c])}
      /\ clients[c].index \in Indexes
      /\ clients[c].todo = <<>> \/ clients[c].todo = <<IndexOf(clients[c])>>
  BY <1>1 DEF Shape, IndexShape
<1>3. IndexOf(clients[c]) \in Names
  BY <1>2, CatalogAssumption DEF IndexOf
<1>4. CASE clients[c].todo = <<>>
  <2>1. k = [clients[c] EXCEPT !.created = @ \cup {clients[c].name}, !.at = "record"]
    BY <1>4 DEF Committed, ClientInv, ClientStates
  <2>2. /\ k.op = "index" /\ k.index = clients[c].index /\ k.at = "record"
        /\ k.created = clients[c].created \cup {clients[c].name} /\ k.name = clients[c].name
    BY <1>1, <2>1 DEF ClientStates
  <2>3. QED
    BY <1>2, <2>2 DEF CodecOf, IndexOf
<1>5. CASE clients[c].todo # <<>>
  <2>1. PICK part \in BOOLEAN :
          k = [[clients[c] EXCEPT !.created = @ \cup {clients[c].name}] EXCEPT
                 !.at = "check", !.name = Head(clients[c].todo),
                 !.todo = Tail(clients[c].todo), !.part = part]
    BY <1>5 DEF Committed, ClientInv, ClientStates
  <2>2. Head(clients[c].todo) = IndexOf(clients[c])
    BY <1>2, <1>3, <1>5
  <2>3. /\ k.op = "index" /\ k.index = clients[c].index /\ k.at = "check"
        /\ k.created = clients[c].created \cup {clients[c].name}
        /\ k.name = IndexOf(clients[c])
    BY <1>1, <2>1, <2>2 DEF ClientStates
  <2>4. QED
    BY <1>2, <2>3 DEF IndexOf
<1>6. QED
  BY <1>4, <1>5

\* A write that is committed, or one that leaves no trace.
LEMMA FinishResult ==
  ASSUME "mixed" \notin Faults, CatalogInv, ResultInv,
         catalog \in [Names -> Reports \cup {None}], NEW c \in Clients, FinishWrite(c)
  PROVE  ResultInv'
<1> USE DEF CatalogInv
<1> DEFINE n == clients[c].name
           f == Files(c, clients[c].parts)
<1>1. /\ clients[c].at = "run" /\ n \in Names /\ n \in Touches(clients[c])
      /\ clients[c] \in ClientStates
      /\ clients[c].op \in {"create", "ctas", "insert", "index"}
      /\ f \subseteq Pairs /\ disk[n].schema # None
      /\ clients[c].op \in {"create", "index"} => f = {}
      /\ clients[c].op # "insert" => disk[n].data = {} /\ ~disk[n].schema.added
  <2>1. clients[c].at = "run" /\ clients[c] \in ClientStates
    BY DEF FinishWrite, At, ClientInv
  <2>2. n \in Names /\ n \in Touches(clients[c])
    BY <2>1, OwnName DEF Writing
  <2>3. clients[c].op \in {"create", "ctas", "insert", "index"}
    BY <2>1 DEF ClientInv, Shape, Kind, Writing
  <2>4. f \subseteq Pairs
    BY <2>1, FilesFacts
  <2>5. clients[c].op \in {"create", "index"} => f = {}
    BY <2>1 DEF ClientInv, Shape, PartsShape, Files
  <2>6. /\ disk[n].schema # None
        /\ clients[c].op # "insert" => disk[n].data = {} /\ ~disk[n].schema.added
    BY <2>1 DEF KnowsInv, Knows, Writing
  <2>7. QED
    BY <2>1, <2>2, <2>3, <2>4, <2>5, <2>6
<1>2. CASE clients[c].op = "insert" /\ End(c) /\ disk' = disk /\ catalog' = catalog
  BY <1>2, MakingFacts, EndsWell
<1>3. CASE /\ \E d \in Dirs : /\ d.schema = disk[n].schema /\ d.data = disk[n].data \cup f
                              /\ disk' = [disk EXCEPT ![n] = d]
           /\ \E k \in Committed(c) : Go(c, k)
           /\ catalog' = IF clients[c].op = "index" THEN catalog ELSE Report(c, n)
  <2>1. PICK d \in Dirs : /\ d.schema = disk[n].schema /\ d.data = disk[n].data \cup f
                          /\ disk' = [disk EXCEPT ![n] = d]
    BY <1>3
  <2>2. PICK k \in Committed(c) : Go(c, k)
    BY <1>3
  <2>3. \A e \in Clients : clients'[e] = IF e = c THEN k ELSE clients[e]
    BY <2>2, GoFacts
  <2>4. \A e \in Clients \ {c} : ~Making(clients[e], n)
    BY <1>1, MineAlone
  <2>5. disk'[n] = d /\ \A m \in Names : m # n => disk'[m] = disk[m]
    BY <1>1, <2>1 DEF DirInv
  <2>6. CASE clients[c].op = "index"
    <3>1. /\ k.op = "index" /\ k.index = clients[c].index
          /\ k.created = clients[c].created \cup {n} /\ k.at \in {"check", "record"}
      BY <1>1, <2>6, CommittedIndex
    <3>2. PICK e : e \in Clients /\ e = c
      OBVIOUS
    <3>3. k.name \in {None, CodecOf(k), IndexOf(k)} /\ k.index \in Indexes
      BY <1>1, <2>6, CommittedIndex
    <3>4. \A m \in Names : Making(k, m) <=> Making(clients[c], m)
      <4>1. CodecOf(k) = CodecOf(clients[c]) /\ IndexOf(k) = IndexOf(clients[c])
        BY <3>1 DEF CodecOf, IndexOf
      <4>2. \A m \in Names : Making(k, m) <=> m \in {CodecOf(k), IndexOf(k)}
        BY <3>1, <3>3, NoneAssumption DEF Making, Creates, Touches, CodecOf, IndexOf
      <4>3. QED
        BY <2>6, <4>1, <4>2, MakingFacts
    <3>5. catalog' = catalog
      BY <1>3, <2>6
    <3>6. ASSUME NEW m \in Names, Making(k, m) PROVE Stage(k, m, catalog'[m], disk'[m])
      <4>1. Stage(clients[c], m, catalog[m], disk[m])
        BY <3>4, <3>6 DEF ResultInv
      <4>2. CASE m = n
        BY <1>1, <2>1, <2>5, <2>6, <3>1, <3>5, <4>1, <4>2 DEF Stage
      <4>3. CASE m # n
        BY <2>5, <2>6, <3>1, <3>5, <4>1, <4>3 DEF Stage
      <4>4. QED
        BY <4>2, <4>3
    <3>7. n \in {CodecOf(clients[c]), IndexOf(clients[c])}
      BY <2>6 DEF ClientInv, Shape, IndexShape
    <3>8. Making(k, n)
      BY <1>1, <2>6, <3>4, <3>7, MakingFacts
    <3>9. \A m \in Names : ~Making(k, m) /\ (Making(clients[c], m) \/ m = n) =>
            Agrees(catalog'[m], disk'[m])
      BY <3>4, <3>8
    <3>10. \A m \in Names : m # n => disk'[m] = disk[m] /\ catalog'[m] = catalog[m]
      BY <2>5, <3>5
    <3> HIDE DEF n
    <3>11. QED
      BY <1>1, <2>3, <2>4, <3>6, <3>9, <3>10, ResultUpdateOne
  <2>7. CASE clients[c].op # "index"
    <3>1. k = Idle
      BY <1>1, <2>7 DEF Committed, ClientStates
    <3>2. \A m \in Names : ~Making(k, m)
      BY <3>1, IdleMakesNothing
    <3>3. \A m \in Names : Making(clients[c], m) => m = n
      BY <1>1, <2>7, MakingFacts
    <3>4. catalog' = Report(c, n)
      BY <1>3, <2>7
    <3>5. \A m \in Names : m # n => disk'[m] = disk[m] /\ catalog'[m] = catalog[m]
      BY <1>1, <2>5, <3>4 DEF Report
    <3>6. Agrees(catalog'[n], disk'[n])
      <4>1. CASE clients[c].op # "insert"
        <5>1. catalog'[n] = [data |-> f, added |-> FALSE]
          <6>1. catalog' = [catalog EXCEPT ![n] = [data |-> f, added |-> FALSE]]
            BY <3>4, <4>1 DEF Report
          <6> HIDE DEF n, f
          <6>2. QED
            BY <1>1, <6>1
        <5>2. PICK s \in Reports : s = catalog'[n] /\ s.data = f /\ s.added = FALSE
          <6>1. PICK s : s = [data |-> f, added |-> FALSE]
            OBVIOUS
          <6> HIDE DEF n, f
          <6>2. s \in Reports /\ s.data = f /\ s.added = FALSE
            BY <1>1, <6>1 DEF Reports
          <6>3. QED
            BY <5>1, <6>1, <6>2
        <5>3. s # None
          BY NoneAssumption
        <5>4. d.schema # None /\ d.data = f /\ d.schema.added = FALSE
          <6>1. d.schema \in Schemas
            BY <1>1, <2>1 DEF Dirs
          <6>2. QED
            BY <1>1, <2>1, <4>1, <6>1 DEF Schemas
        <5>5. QED
          BY <2>5, <5>2, <5>3, <5>4 DEF Agrees
      <4>2. CASE clients[c].op = "insert"
        <5>1. Agrees(catalog[n], disk[n]) /\ catalog[n] # None
          BY <1>1, <2>4, <4>2, MakingFacts, ReportedTable
        <5>2. PICK r \in Reports : r = catalog[n]
          BY <1>1, <5>1
        <5>3. catalog'[n] = [r EXCEPT !.data = @ \cup f]
          <6> DEFINE new == IF clients[c].op = "insert" /\ catalog[n] # None
                            THEN [catalog[n] EXCEPT !.data = @ \cup f]
                            ELSE [data |-> f, added |-> FALSE]
          <6>1. catalog' = [catalog EXCEPT ![n] = new]
            BY <3>4 DEF Report
          <6>2. new = [r EXCEPT !.data = @ \cup f]
            BY <4>2, <5>1, <5>2
          <6> HIDE DEF n, new
          <6>3. catalog'[n] = new
            BY <1>1, <6>1
          <6>4. QED
            BY <6>2, <6>3
        <5>4. r.data \cup f \in SUBSET Pairs
          BY <1>1 DEF Reports
        <5>5. PICK s \in Reports : s = catalog'[n] /\ s.data = r.data \cup f /\ s.added = r.added
          <6> HIDE DEF n, f
          <6>1. QED
            BY <5>3, <5>4 DEF Reports
        <5>6. s # None
          BY NoneAssumption
        <5>7. disk[n].data = r.data /\ disk[n].schema.added = r.added
          BY <5>1, <5>2 DEF Agrees
        <5>8. d.schema # None /\ d.data = s.data /\ d.schema.added = s.added
          BY <1>1, <2>1, <5>5, <5>7
        <5>9. QED
          BY <2>5, <5>5, <5>6, <5>8 DEF Agrees
      <4>3. QED
        BY <4>1, <4>2
    <3> HIDE DEF n
    <3>7. QED
      BY <1>1, <2>3, <2>4, <3>2, <3>3, <3>5, <3>6, ResultUpdateOne
  <2>8. QED
    BY <2>6, <2>7
<1>4. QED
  BY <1>2, <1>3, FinishEffect

\* The steps of a write.
LEMMA WriteResult ==
  ASSUME "mixed" \notin Faults, "plan" \notin Faults, "staging" \notin Faults, CatalogInv,
         ResultInv, catalog \in [Names -> Reports \cup {None}], NEW c \in Clients, Write(c)
  PROVE  ResultInv'
<1> USE DEF CatalogInv
<1> DEFINE n == clients[c].name
<1>0. /\ clients[c] \in ClientStates /\ clients[c].at \in Writing
      /\ n \in Names /\ n \in Touches(clients[c])
      /\ clients[c].op \in {"create", "ctas", "insert", "index"}
  <2>1. clients[c].at \in Writing
    BY DEF Write, BeginWrite, BeginFails, QueryFails, FinishWrite, AbortWrite, At, Writing
  <2>2. QED
    BY <2>1, OwnName, SMTT(60) DEF ClientInv, Shape, Kind
<1>1. ASSUME NEW k, Go(c, k), k.op = clients[c].op, k.name = n, k.index = clients[c].index,
             k.created = clients[c].created, k.at \in Writing, catalog' = catalog, disk' = disk
      PROVE  ResultInv'
  <2>1. CASE clients[c].op # "insert"
    <3>1. clients[c].op \in {"create", "ctas", "index"} /\ clients[c].at # "check"
      BY <1>0, <2>1 DEF Writing
    <3>2. /\ clients[c].at \in Creating \cup Writing
          /\ k.at \in {"mkdir", "register"} \cup Writing
      BY <1>0, <1>1
    <3>3. QED
      BY <1>1, <3>1, <3>2, MovesOn
  <2>2. CASE clients[c].op = "insert"
    <3>1. \A m \in Names : ~Making(clients[c], m) /\ ~Making(k, m)
      BY <1>1, <2>2 DEF Making, Creates
    <3>2. QED
      BY <1>1, <3>1, GoFacts, ResultUpdateNone
  <2>3. QED
    BY <2>1, <2>2
<1>2. CASE BeginWrite(c)
  <2>1. PICK ps \in WrittenParts(clients[c]) :
          Go(c, [clients[c] EXCEPT !.at = "run", !.parts = ps])
    BY <1>2 DEF BeginWrite
  <2> DEFINE k == [clients[c] EXCEPT !.at = "run", !.parts = ps]
  <2>2. /\ k.at = "run" /\ k.name = n /\ k.index = clients[c].index
        /\ k.op = clients[c].op /\ k.created = clients[c].created
    BY <1>0 DEF ClientStates
  <2>3. Go(c, k)
    BY <2>1
  <2> HIDE DEF k
  <2>4. disk' = disk /\ catalog' = catalog /\ k.at \in Writing
    BY <1>2, <2>2 DEF BeginWrite, Writing
  <2>5. QED
    BY <1>1, <2>2, <2>3, <2>4
<1>3. CASE BeginFails(c)
  <2>1. clients[c].op = "insert"
    BY <1>3 DEF BeginFails, MayNotBegin
  <2>2. End(c) /\ disk' = disk /\ catalog' = catalog
    BY <1>3, <2>1 DEF BeginFails, Fail
  <2>3. \A m \in Names : ~Making(clients[c], m)
    BY <2>1 DEF Making, Creates
  <2>4. QED
    BY <2>2, <2>3, EndsWell
<1>4. CASE QueryFails(c)
  <2> DEFINE k == [clients[c] EXCEPT !.at = "abort"]
  <2>1. /\ k.at = "abort" /\ k.name = n /\ k.index = clients[c].index
        /\ k.op = clients[c].op /\ k.created = clients[c].created
    BY <1>0 DEF ClientStates
  <2>2. Go(c, k) /\ disk' = disk /\ catalog' = catalog
    BY <1>4 DEF QueryFails, Move
  <2> HIDE DEF k
  <2>3. k.at \in Writing
    BY <2>1 DEF Writing
  <2>4. QED
    BY <1>1, <2>1, <2>2, <2>3
<1>5. CASE FinishWrite(c)
  BY <1>5, FinishResult
<1>6. CASE AbortWrite(c)
  <2>1. clients[c].at = "abort" /\ catalog' = catalog /\ Fail(c)
    BY <1>6 DEF AbortWrite, At
  <2>2. CASE clients[c].op = "insert"
    <3>1. disk' = [disk EXCEPT ![n] = @]
      BY <1>6, <2>2 DEF AbortWrite
    <3>2. disk' = disk
      BY <1>0, <3>1 DEF DirInv
    <3>3. \A m \in Names : ~Making(clients[c], m)
      BY <2>2 DEF Making, Creates
    <3>4. End(c)
      BY <2>1, <2>2 DEF Fail
    <3>5. QED
      BY <2>1, <3>2, <3>3, <3>4, EndsWell
  <2>3. CASE clients[c].op # "insert"
    <3>1. disk' = [disk EXCEPT ![n] = NoDir]
      BY <1>6, <2>3 DEF AbortWrite
    <3>2. disk'[n] = NoDir /\ \A m \in Names : m # n => disk'[m] = disk[m]
      BY <1>0, <3>1 DEF DirInv
    <3>3. \A e \in Clients \ {c} : ~Making(clients[e], n)
      BY <1>0, MineAlone
    <3>4. ASSUME NEW m \in Names, Making(clients[c], m)
          PROVE  catalog[m] = None /\ Stage(clients[c], m, catalog[m], disk[m])
      BY <1>0, <2>1, <2>3, <3>4 DEF ResultInv, Stage
    <3>5. Making(clients[c], n)
      BY <1>0, <2>3 DEF Making, Creates
    <3>6. CASE clients[c].op # "index"
      <4>1. PICK k : k = Idle /\ \A e \in Clients : clients'[e] = IF e = c THEN k ELSE clients[e]
        BY <2>1, <3>6, GoFacts DEF Fail, End
      <4>2. \A m \in Names : ~Making(k, m)
        BY <4>1, IdleMakesNothing
      <4>3. Agrees(catalog'[n], disk'[n])
        BY <1>0, <2>1, <3>2, <3>4, <3>5 DEF Agrees
      <4>4. \A m \in Names : Making(clients[c], m) => m = n
        BY <1>0, <2>3, <3>6, MakingFacts
      <4>5. \A m \in Names : m # n => disk'[m] = disk[m] /\ catalog'[m] = catalog[m]
        BY <2>1, <3>2
      <4> HIDE DEF n
      <4>6. QED
        BY <1>0, <3>3, <4>1, <4>2, <4>3, <4>4, <4>5, ResultUpdateOne
    <3>7. CASE clients[c].op = "index"
      <4> DEFINE k == [clients[c] EXCEPT !.at = "rollback"]
      <4>1. /\ k.at = "rollback" /\ k.name = n /\ k.index = clients[c].index
            /\ k.op = clients[c].op /\ k.created = clients[c].created
        BY <1>0 DEF ClientStates
      <4>2. Go(c, k)
        BY <2>1, <3>7 DEF Fail, Move
      <4> HIDE DEF k
      <4>3. \A e \in Clients : clients'[e] = IF e = c THEN k ELSE clients[e]
        BY <4>2, GoFacts
      <4>4. \A m \in Names : Making(k, m) <=> Making(clients[c], m)
        BY <4>1, MakingMoves
      <4>5. n \notin clients[c].created
        BY <1>0, <3>7, NotYetMade
      <4>6. ASSUME NEW m \in Names, Making(k, m) PROVE Stage(k, m, catalog'[m], disk'[m])
        <5>1. catalog'[m] = None /\ Stage(clients[c], m, catalog[m], disk[m])
          BY <2>1, <3>4, <4>4, <4>6
        <5>2. CASE m = n
          BY <3>2, <3>7, <4>1, <4>5, <5>1, <5>2 DEF Stage
        <5>3. CASE m # n
          BY <3>2, <3>7, <4>1, <5>1, <5>3 DEF Stage
        <5>4. QED
          BY <5>2, <5>3
      <4>7. \A m \in Names : ~Making(k, m) /\ (Making(clients[c], m) \/ m = n) =>
              Agrees(catalog'[m], disk'[m])
        BY <3>5, <4>4
      <4>8. \A m \in Names : m # n => disk'[m] = disk[m] /\ catalog'[m] = catalog[m]
        BY <2>1, <3>2
      <4> HIDE DEF n
      <4>9. QED
        BY <1>0, <3>3, <4>3, <4>6, <4>7, <4>8, ResultUpdateOne
    <3>8. QED
      BY <3>6, <3>7
  <2>4. QED
    BY <2>2, <2>3
<1>7. QED
  BY <1>2, <1>3, <1>4, <1>5, <1>6 DEF Write

\* The steps of a vector index.
LEMMA IndexResult ==
  ASSUME CatalogInv, ResultInv, catalog \in [Names -> Reports \cup {None}], NEW c \in Clients,
         Index(c)
  PROVE  ResultInv'
<1> USE DEF CatalogInv
<1> DEFINE own == {CodecOf(clients[c]), IndexOf(clients[c])}
<1>0. /\ clients[c] \in ClientStates /\ clients[c].index \in Indexes /\ own \subseteq Names
      /\ clients[c].op \in {"index", "dropIndex"} /\ own \subseteq Touches(clients[c])
  <2>1. /\ clients[c] \in ClientStates /\ clients[c].index \in Indexes
        /\ clients[c].op \in {"index", "dropIndex"}
    BY DEF ClientInv, Shape, Kind, IndexShape, Index, WriteRecord, Rollback, DropIndexTable, At
  <2>2. QED
    BY <2>1, IndexTables, SMTT(60)
<1>1. \A m \in Names : Making(clients[c], m) <=> m \in own
  BY <1>0, MakingFacts
<1>2. \A m \in own : Stage(clients[c], m, catalog[m], disk[m])
  BY <1>0, <1>1 DEF ResultInv
<1>3. \A m \in own : \A e \in Clients \ {c} : ~Making(clients[e], m)
  BY <1>0, MineAlone
<1> HIDE DEF own
<1>4. CASE WriteRecord(c)
  <2>1. /\ clients[c].at = "record" /\ clients[c].op = "index" /\ disk' = disk
        /\ clients[c].created = own
    BY <1>4 DEF WriteRecord, At, ClientInv, Shape, Kind, IndexShape, Creating, Writing, own
  <2>2. \A m \in own : /\ catalog[m] = None /\ disk[m].schema # None /\ disk[m].data = {}
                       /\ ~disk[m].schema.added
    BY <1>2, <2>1 DEF Stage
  <2>3. CASE End(c) /\ catalog' = ReportIndex(c)
    <3>1. PICK k : k = Idle /\ \A e \in Clients : clients'[e] = IF e = c THEN k ELSE clients[e]
      BY <2>3, GoFacts DEF End
    <3>2. \A m \in Names : ~Making(k, m)
      BY <3>1, IdleMakesNothing
    <3>3. \A m \in Names \ own : disk'[m] = disk[m] /\ catalog'[m] = catalog[m]
      BY <2>1, <2>3 DEF ReportIndex
    <3>4. ASSUME NEW m \in own PROVE Agrees(catalog'[m], disk'[m])
      <4>1. PICK s : s = [data |-> {}, added |-> FALSE]
        OBVIOUS
      <4>2. s \in Reports /\ s.data = {} /\ s.added = FALSE
        BY <4>1 DEF Reports
      <4>3. catalog'[m] = s
        BY <1>0, <2>1, <2>3, <4>1 DEF ReportIndex
      <4>4. s # None
        BY <4>2, NoneAssumption
      <4>5. disk[m].schema.added = FALSE
        <5>1. disk[m].schema \in Schemas
          BY <1>0, <2>2 DEF DirInv, Dirs
        <5>2. QED
          BY <2>2, <5>1 DEF Schemas
      <4>6. QED
        BY <2>1, <2>2, <4>2, <4>3, <4>4, <4>5 DEF Agrees
    <3>5. QED
      BY <1>0, <1>1, <1>3, <3>1, <3>2, <3>3, <3>4, ResultUpdate
  <2>4. CASE Fail(c) /\ catalog' = catalog
    <3> DEFINE k == [clients[c] EXCEPT !.at = "rollback"]
    <3>1. /\ k.at = "rollback" /\ k.name = clients[c].name /\ k.index = clients[c].index
          /\ k.op = clients[c].op /\ k.created = clients[c].created
      BY <1>0 DEF ClientStates
    <3>2. Go(c, k)
      BY <2>1, <2>4 DEF Fail, Move
    <3> HIDE DEF k
    <3>3. \A e \in Clients : clients'[e] = IF e = c THEN k ELSE clients[e]
      BY <3>2, GoFacts
    <3>4. \A m \in Names : Making(k, m) <=> m \in own
      BY <1>1, <3>1, MakingMoves
    <3>5. ASSUME NEW m \in Names, Making(k, m) PROVE Stage(k, m, catalog[m], disk[m])
      BY <2>1, <2>2, <3>1, <3>4, <3>5 DEF Stage
    <3>6. QED
      BY <1>1, <2>1, <2>4, <3>3, <3>4, <3>5, ResultUpdateNone
  <2>5. QED
    BY <1>4, <2>3, <2>4 DEF WriteRecord
<1>5. CASE Rollback(c)
  <2>1. /\ clients[c].at = "rollback" /\ clients[c].op = "index" /\ catalog' = catalog
        /\ clients[c].created \subseteq own
    BY <1>5 DEF Rollback, At, ClientInv, Shape, Kind, IndexShape, Creating, Writing, own
  <2>2. \A m \in own : /\ catalog[m] = None
                       /\ IF m \in clients[c].created THEN disk[m].schema # None
                          ELSE disk[m] = NoDir
    BY <1>2, <2>1 DEF Stage, Writing
  <2>3. CASE clients[c].created = {}
    <3>1. End(c) /\ disk' = disk
      BY <1>5, <2>3 DEF Rollback, RollbackTables
    <3>2. \A m \in Names : Making(clients[c], m) => Agrees(catalog[m], disk[m])
      BY <1>1, <2>2, <2>3 DEF Agrees
    <3>3. QED
      BY <2>1, <3>1, <3>2, EndsWell
  <2>4. CASE clients[c].created # {}
    <3> DEFINE n == IF CodecOf(clients[c]) \in clients[c].created THEN CodecOf(clients[c])
                    ELSE IndexOf(clients[c])
               k == [clients[c] EXCEPT !.created = @ \ {n}]
    <3>1. /\ disk' = [disk EXCEPT ![n] = IF tables[n] = None THEN @ ELSE NoDir] /\ Go(c, k)
      BY <1>5, <2>4 DEF Rollback, RollbackTables, CodecOf, IndexOf
    <3>2. n \in clients[c].created /\ n \in own
      BY <2>1, <2>4 DEF own
    <3> HIDE DEF n
    <3>3. /\ k.at = "rollback" /\ k.name = clients[c].name /\ k.index = clients[c].index
          /\ k.op = clients[c].op /\ k.created = clients[c].created \ {n}
      BY <1>0, <2>1 DEF ClientStates
    <3> HIDE DEF k
    <3>4. tables[n] # None
      BY <1>0, <2>2, <3>2, EntryFacts
    <3>5. disk'[n] = NoDir /\ \A m \in Names : m # n => disk'[m] = disk[m]
      BY <1>0, <3>1, <3>2, <3>4 DEF DirInv
    <3>6. \A e \in Clients : clients'[e] = IF e = c THEN k ELSE clients[e]
      BY <3>1, GoFacts
    <3>7. \A m \in Names : Making(k, m) <=> m \in own
      BY <1>1, <3>3, MakingMoves
    <3>8. ASSUME NEW m \in Names, Making(k, m) PROVE Stage(k, m, catalog'[m], disk'[m])
      <4>1. Stage(clients[c], m, catalog[m], disk[m]) /\ catalog'[m] = None
        BY <1>2, <2>1, <2>2, <3>7, <3>8
      <4>2. CASE m = n
        BY <2>1, <3>3, <3>5, <4>1, <4>2 DEF Stage
      <4>3. CASE m # n
        BY <2>1, <3>3, <3>5, <4>1, <4>3 DEF Stage, Writing
      <4>4. QED
        BY <4>2, <4>3
    <3>9. \A m \in Names : ~Making(k, m) /\ (Making(clients[c], m) \/ m = n) =>
            Agrees(catalog'[m], disk'[m])
      BY <1>1, <3>2, <3>7
    <3>10. \A m \in Names : m # n => disk'[m] = disk[m] /\ catalog'[m] = catalog[m]
      BY <2>1, <3>5
    <3>11. n \in Names
      BY <1>0, <3>2
    <3>12. QED
      BY <1>3, <3>2, <3>6, <3>8, <3>9, <3>10, <3>11, ResultUpdateOne
  <2>5. QED
    BY <2>3, <2>4
<1>6. CASE DropIndexTable(c)
  <2> DEFINE n == Head(clients[c].todo)
             k == IF Tail(clients[c].todo) = <<>> THEN Idle
                  ELSE [clients[c] EXCEPT !.todo = Tail(@)]
  <2>1. /\ disk' = [disk EXCEPT ![n] = IF tables[n] = None THEN @ ELSE NoDir]
        /\ catalog' = [catalog EXCEPT ![n] = None] /\ Go(c, k)
        /\ clients[c].at = "dropTables" /\ clients[c].op = "dropIndex"
    BY <1>6 DEF DropIndexTable, At, ClientInv, Shape, Kind
  <2>2. n \in own
    BY <1>0, <2>1, IndexTables DEF own
  <2>3. \A m \in own : Agrees(catalog[m], disk[m])
    BY <1>2, <2>1 DEF Stage
  <2>4. \/ \A m \in Names : ~Making(k, m)
        \/ k.op = "dropIndex" /\ \A m \in Names : Making(k, m) <=> m \in own
    <3>1. CASE Tail(clients[c].todo) = <<>>
      BY <3>1, IdleMakesNothing
    <3>2. CASE Tail(clients[c].todo) # <<>>
      <4>1. k = [clients[c] EXCEPT !.todo = Tail(@)]
        BY <3>2
      <4> HIDE DEF k
      <4>2. k.op = clients[c].op /\ k.name = clients[c].name /\ k.index = clients[c].index
        BY <1>0, <4>1 DEF ClientStates
      <4>3. QED
        BY <1>1, <2>1, <4>2, MakingMoves
    <3>3. QED
      BY <3>1, <3>2
  <2> HIDE DEF n, k
  <2>5. n \in Names
    BY <1>0, <2>2
  <2>6. disk'[n] = NoDir
    <3>1. CASE tables[n] = None
      <4>1. disk[n].schema = None
        BY <2>5, <3>1, EntryFacts
      <4>2. disk[n] = NoDir
        BY <2>2, <2>3, <4>1 DEF Agrees
      <4>3. QED
        BY <2>1, <2>5, <3>1, <4>2 DEF DirInv
    <3>2. CASE tables[n] # None
      BY <2>1, <2>5, <3>2 DEF DirInv
    <3>3. QED
      BY <3>1, <3>2
  <2>7. catalog'[n] = None
    BY <2>1, <2>5
  <2>8. \A m \in Names : m # n => disk'[m] = disk[m] /\ catalog'[m] = catalog[m]
    BY <2>1, <2>5 DEF DirInv
  <2>9. \A m \in own : Agrees(catalog'[m], disk'[m])
    <3>1. Agrees(catalog'[n], disk'[n])
      BY <2>6, <2>7 DEF Agrees
    <3>2. QED
      BY <1>0, <2>3, <2>8, <3>1
  <2>10. \A e \in Clients : clients'[e] = IF e = c THEN k ELSE clients[e]
    BY <2>1, GoFacts
  <2>11. \A m \in Names : Making(k, m) => Stage(k, m, catalog'[m], disk'[m])
    BY <2>4, <2>9 DEF Stage
  <2>12. \A m \in Names : ~Making(k, m) /\ (Making(clients[c], m) \/ m = n) =>
           Agrees(catalog'[m], disk'[m])
    BY <1>1, <2>2, <2>9
  <2>13. QED
    BY <1>3, <2>2, <2>5, <2>8, <2>10, <2>11, <2>12, ResultUpdateOne
<1>7. QED
  BY <1>4, <1>5, <1>6 DEF Index

\* A statement that begins takes the tables over as they were reported.
LEMMA StartResult ==
  ASSUME "overlap" \notin Faults, CatalogInv, ResultInv, NEW c \in Clients,
         \/ \E n \in Names : StartCreate(c, n) \/ StartInsert(c, n) \/ StartDelete(c, n)
         \/ \E i \in Indexes : StartIndex(c, i) \/ DropRecord(c, i)
  PROVE  ResultInv'
<1> USE DEF CatalogInv
<1>1. disk' = disk /\ catalog' = catalog /\ At(c, "idle")
  BY DEF StartCreate, StartInsert, StartDelete, StartIndex, DropRecord
<1>2. \A m \in Names : ~Making(clients[c], m)
  <2>1. clients[c] = Idle
    BY <1>1 DEF At, ClientInv, Shape, Kind
  <2>2. QED
    BY <2>1, IdleMakesNothing
<1>3. ASSUME NEW k, Go(c, k), \A m \in Names : Making(k, m) => Stage(k, m, catalog[m], disk[m])
      PROVE  ResultInv'
  BY <1>1, <1>2, <1>3, GoFacts, ResultUpdateNone
<1>4. ASSUME NEW n \in Names, StartCreate(c, n) PROVE ResultInv'
  <2>1. PICK op \in {"create", "ctas"}, quiet \in BOOLEAN, part \in BOOLEAN :
          Go(c, [Begun(op, "check", n) EXCEPT !.quiet = quiet, !.part = part,
                                              !.write = writes + 1])
    BY <1>4 DEF StartCreate
  <2>2. PICK b : b = Begun(op, "check", n)
    OBVIOUS
  <2>3. b \in ClientStates /\ b.at = "check" /\ b.op = op /\ b.name = n /\ b.index = None
    BY <2>2, BegunFacts DEF Ops, Steps
  <2> DEFINE k == [b EXCEPT !.quiet = quiet, !.part = part, !.write = writes + 1]
  <2>4. k.at = "check" /\ k.op = op /\ k.name = n /\ k.index = None
    BY ONLY <2>3 DEF ClientStates
  <2>5. Go(c, k)
    BY <2>1, <2>2
  <2> HIDE DEF k
  <2>6. \A e \in Clients : ~Making(clients[e], n)
    BY <1>1, <1>4, NobodyMakes DEF StartCreate
  <2>7. Agrees(catalog[n], disk[n])
    BY <2>6, ReportedTable
  <2>8. ASSUME NEW m \in Names, Making(k, m) PROVE Stage(k, m, catalog[m], disk[m])
    <3>1. m = n
      BY <2>4, <2>8, NoneAssumption DEF Making, Touches
    <3>2. QED
      BY <2>4, <2>7, <3>1 DEF Stage
  <2>9. QED
    BY <1>3, <2>5, <2>8
<1>5. ASSUME NEW n \in Names, StartInsert(c, n) PROVE ResultInv'
  <2>1. PICK b : b = Begun("insert", "begin", n)
    OBVIOUS
  <2>2. b \in ClientStates /\ b.op = "insert"
    BY <2>1, BegunFacts DEF Ops, Steps
  <2>3. PICK part : part = tables[n].schema.partitioned
    OBVIOUS
  <2> DEFINE k == [b EXCEPT !.part = part, !.write = writes + 1]
  <2>4. k.op = "insert"
    BY ONLY <2>2 DEF ClientStates
  <2>5. Go(c, k)
    BY <1>5, <2>1, <2>3 DEF StartInsert
  <2> HIDE DEF k
  <2>6. QED
    BY <1>3, <2>4, <2>5 DEF Making, Creates
<1>6. ASSUME NEW n \in Names, StartDelete(c, n) PROVE ResultInv'
  <2>1. PICK b : b = Begun("delete", "remove", n)
    OBVIOUS
  <2>2. b \in ClientStates /\ b.op = "delete"
    BY <2>1, BegunFacts DEF Ops, Steps
  <2>3. PICK part : part = tables[n].schema.partitioned
    OBVIOUS
  <2>4. PICK ps \in SUBSET Parts : Go(c, [b EXCEPT !.part = part, !.parts = ps])
    BY <1>6, <2>1, <2>3 DEF StartDelete
  <2> DEFINE k == [b EXCEPT !.part = part, !.parts = ps]
  <2>5. k.op = "delete"
    BY ONLY <2>2 DEF ClientStates
  <2>6. Go(c, k)
    BY <2>4
  <2> HIDE DEF k
  <2>7. QED
    BY <1>3, <2>5, <2>6 DEF Making, Creates
<1>7. ASSUME NEW i \in Indexes, StartIndex(c, i) PROVE ResultInv'
  <2>1. PICK n : n = Head(TablesOf(i))
    OBVIOUS
  <2>2. n = CodecTable[i] /\ CodecTable[i] \in Names /\ IndexTable[i] \in Names
    BY <2>1, CatalogAssumption DEF TablesOf
  <2>3. PICK b : b = Begun("index", "check", n)
    OBVIOUS
  <2>4. b \in ClientStates /\ b.at = "check" /\ b.op = "index" /\ b.name = n /\ b.created = {}
    BY <2>2, <2>3, BegunFacts DEF Ops, Steps
  <2> DEFINE k == [b EXCEPT !.part = TRUE, !.index = i, !.todo = Tail(TablesOf(i)),
                            !.write = writes + 1]
  <2>5. k.at = "check" /\ k.op = "index" /\ k.name = n /\ k.index = i /\ k.created = {}
    BY ONLY <2>4 DEF ClientStates
  <2>6. Go(c, k)
    BY <1>7, <2>1, <2>3 DEF StartIndex
  <2> HIDE DEF k
  <2>7. ASSUME NEW m \in {CodecTable[i], IndexTable[i]} PROVE catalog[m] = None /\ disk[m] = NoDir
    <3>1. \A e \in Clients : ~Making(clients[e], m)
      BY <1>1, <1>7, NobodyMakes DEF StartIndex
    <3>2. m \in Names /\ tables[m] = None
      BY <1>7, <2>2 DEF StartIndex
    <3>3. disk[m].schema = None
      BY <3>2, EntryFacts
    <3>4. QED
      BY <3>1, <3>2, <3>3, ReportedTable
  <2>8. ASSUME NEW m \in Names, Making(k, m) PROVE Stage(k, m, catalog[m], disk[m])
    <3>1. m \in {CodecTable[i], IndexTable[i]}
      BY <2>2, <2>5, <2>8, NoneAssumption DEF Making, Touches
    <3>2. QED
      BY <2>5, <2>7, <3>1 DEF Stage
  <2>9. QED
    BY <1>3, <2>6, <2>8
<1>8. ASSUME NEW i \in Indexes, DropRecord(c, i) PROVE ResultInv'
  <2>1. PICK b : b = Begun("dropIndex", "dropTables", None)
    OBVIOUS
  <2>2. b \in ClientStates /\ b.op = "dropIndex" /\ b.name = None
    BY <2>1, BegunFacts DEF Ops, Steps
  <2> DEFINE k == [b EXCEPT !.index = i, !.todo = TablesOf(i)]
  <2>3. k.op = "dropIndex" /\ k.name = None /\ k.index = i
    BY ONLY <2>2 DEF ClientStates
  <2>4. Go(c, k)
    BY <1>8, <2>1 DEF DropRecord
  <2> HIDE DEF k
  <2>5. ASSUME NEW m \in Names, Making(k, m) PROVE Stage(k, m, catalog[m], disk[m])
    <3>1. m \in {CodecTable[i], IndexTable[i]}
      BY <2>3, <2>5, NoneAssumption DEF Making, Touches
    <3>2. \A e \in Clients : ~Making(clients[e], m)
      BY <1>1, <1>8, <3>1, NobodyMakes DEF DropRecord
    <3>3. QED
      BY <2>3, <3>2, ReportedTable DEF Stage
  <2>6. QED
    BY <1>3, <2>4, <2>5
<1>9. QED
  BY <1>4, <1>5, <1>6, <1>7, <1>8, SMTT(60)

\* DROP TABLE, ALTER TABLE, and loading tables anew.
LEMMA SchemaResult ==
  ASSUME "overlap" \notin Faults, CatalogInv, ResultInv,
         catalog \in [Names -> Reports \cup {None}], NEW c \in Clients, NEW n \in Names,
         DropTable(c, n) \/ AddColumn(c, n) \/ Refused(c, n) \/ ReloadTable(c, n)
  PROVE  ResultInv'
<1> USE DEF CatalogInv
<1>1. clients' = clients /\ At(c, "idle")
  BY DEF DropTable, AddColumn, Refused, ReloadTable, vars
<1>2. PICK k : k = clients[c] /\ \A m \in Names : ~Making(k, m)
  <2>1. clients[c] = Idle
    BY <1>1 DEF At, ClientInv, Shape, Kind
  <2>2. QED
    BY <2>1, IdleMakesNothing
<1>3. \A e \in Clients : clients'[e] = IF e = c THEN k ELSE clients[e]
  BY <1>1, <1>2
<1>4. ASSUME \A e \in Clients : ~Making(clients[e], n), Agrees(catalog'[n], disk'[n]),
             \A m \in Names : m # n => disk'[m] = disk[m] /\ catalog'[m] = catalog[m]
      PROVE  ResultInv'
  BY <1>2, <1>3, <1>4, ResultUpdateOne
<1>5. CASE DropTable(c, n)
  <2>1. \A e \in Clients : ~Making(clients[e], n)
    BY <1>1, <1>5, NobodyMakes DEF DropTable
  <2>2. disk' = [disk EXCEPT ![n] = NoDir] /\ catalog' = [catalog EXCEPT ![n] = None]
    BY <1>5 DEF DropTable
  <2>3. /\ disk'[n] = NoDir /\ catalog'[n] = None
        /\ \A m \in Names : m # n => disk'[m] = disk[m] /\ catalog'[m] = catalog[m]
    BY <2>2 DEF DirInv
  <2>4. QED
    BY <1>4, <2>1, <2>3 DEF Agrees
<1>6. CASE AddColumn(c, n)
  <2>1. \A e \in Clients : ~Making(clients[e], n)
    BY <1>1, <1>6, NobodyMakes DEF AddColumn
  <2>2. tables[n] # None
    BY <1>6 DEF AddColumn
  <2>3. PICK d \in Dirs : /\ d.schema \in Schemas /\ d.schema.added /\ d.data = disk[n].data
                          /\ disk' = [disk EXCEPT ![n] = d]
                          /\ catalog' = IF catalog[n] # None
                                        THEN [catalog EXCEPT ![n].added = TRUE] ELSE catalog
    BY <1>6, AddColumnEffect
  <2>4. Agrees(catalog[n], disk[n]) /\ catalog[n] # None
    BY <2>1, <2>2, EntryFacts, ReportedTable
  <2>5. PICK r \in Reports : r = catalog[n] /\ r.data = disk[n].data
    BY <2>4 DEF Agrees
  <2>6. catalog'[n] = [r EXCEPT !.added = TRUE]
    BY <2>3, <2>4, <2>5
  <2>7. PICK s \in Reports : s = catalog'[n] /\ s.data = r.data /\ s.added = TRUE
    BY <2>6 DEF Reports
  <2>8. d.schema # None /\ s # None /\ d.schema.added = TRUE
    <3>1. d.schema # None /\ s # None
      BY <2>3, NoneAssumption
    <3>2. d.schema.added = TRUE
      BY <2>3 DEF Schemas
    <3>3. QED
      BY <3>1, <3>2
  <2>9. /\ disk'[n] = d
        /\ \A m \in Names : m # n => disk'[m] = disk[m] /\ catalog'[m] = catalog[m]
    BY <2>3 DEF DirInv
  <2>10. Agrees(catalog'[n], disk'[n])
    <3>1. d.data = s.data
      BY <2>3, <2>5, <2>7
    <3>2. QED
      BY ONLY <2>7, <2>8, <2>9, <3>1 DEF Agrees
  <2>11. QED
    BY <1>4, <2>1, <2>9, <2>10
<1>7. CASE disk' = disk /\ catalog' = catalog
  <2>1. \A m \in Names : ~Making(clients[c], m)
    BY <1>2
  <2>2. QED
    BY <1>2, <1>3, <1>7, <2>1, ResultUpdateNone
<1>8. QED
  BY <1>5, <1>6, <1>7 DEF Refused, ReloadTable, vars

-----------------------------------------------------------------------------
(* Types and reports.                                                      *)

ReportsInv == catalog \in [Names -> Reports \cup {None}] /\ records \subseteq Indexes

\* A report that replaces or changes another is a report.
LEMMA ReportFacts ==
  ASSUME catalog \in [Names -> Reports \cup {None}], NEW n \in Names, NEW f \in SUBSET Pairs
  PROVE  /\ [data |-> f, added |-> FALSE] \in Reports
         /\ catalog[n] # None => /\ [catalog[n] EXCEPT !.data = f] \in Reports
                                 /\ [catalog[n] EXCEPT !.added = TRUE] \in Reports
                                 /\ catalog[n].data \in SUBSET Pairs
<1>1. [data |-> f, added |-> FALSE] \in Reports
  BY DEF Reports
<1>2. ASSUME catalog[n] # None
      PROVE  /\ [catalog[n] EXCEPT !.data = f] \in Reports
             /\ [catalog[n] EXCEPT !.added = TRUE] \in Reports
             /\ catalog[n].data \in SUBSET Pairs
  <2>1. PICK r \in Reports : r = catalog[n]
    BY <1>2
  <2>2. [r EXCEPT !.data = f] \in Reports /\ [r EXCEPT !.added = TRUE] \in Reports
    BY DEF Reports
  <2>3. r.data \in SUBSET Pairs
    BY DEF Reports
  <2>4. QED
    BY <2>1, <2>2, <2>3
<1>3. QED
  BY <1>1, <1>2

LEMMA ReportsNext ==
  ASSUME "overlap" \notin Faults, "mixed" \notin Faults, CatalogInv, ReportsInv, [Next]_vars
  PROVE  ReportsInv'
<1> USE DEF CatalogInv
<1>1. CASE catalog' = catalog /\ (records' = records \/ \E i \in Indexes : records' = records \ {i})
  BY <1>1 DEF ReportsInv
<1>2. ASSUME NEW n \in Names, NEW r \in Reports \cup {None},
             catalog' = [catalog EXCEPT ![n] = r], records' = records
      PROVE  ReportsInv'
  BY <1>2 DEF ReportsInv
<1>3. ASSUME NEW c \in Clients, FinishWrite(c) PROVE ReportsInv'
  <2>1. records' = records /\ clients[c].at = "run"
    BY <1>3 DEF FinishWrite, At
  <2>2. PICK n \in Names : n = clients[c].name
    BY <2>1, OwnName DEF Writing
  <2>3. PICK f \in SUBSET Pairs : f = Files(c, clients[c].parts)
    BY <2>1, FilesFacts
  <2>4. catalog' = catalog \/ catalog' = Report(c, n)
    BY <1>3, <2>2, FinishEffect
  <2>5. CASE catalog' = Report(c, n)
    <3> DEFINE r == IF clients[c].op = "insert" /\ catalog[n] # None
                    THEN [catalog[n] EXCEPT !.data = @ \cup f]
                    ELSE [data |-> f, added |-> FALSE]
    <3>1. catalog' = [catalog EXCEPT ![n] = r]
      BY <2>3, <2>5 DEF Report
    <3>2. r \in Reports
      <4>1. CASE clients[c].op = "insert" /\ catalog[n] # None
        <5>1. catalog[n].data \in SUBSET Pairs
          BY <4>1, ReportFacts DEF ReportsInv
        <5>2. PICK g \in SUBSET Pairs : g = catalog[n].data \cup f
          BY <5>1
        <5>3. [catalog[n] EXCEPT !.data = g] \in Reports
          BY <4>1, ReportFacts DEF ReportsInv
        <5>4. QED
          BY <4>1, <5>2, <5>3
      <4>2. CASE ~(clients[c].op = "insert" /\ catalog[n] # None)
        BY <4>2, ReportFacts DEF ReportsInv
      <4>3. QED
        BY <4>1, <4>2
    <3> HIDE DEF r
    <3>3. QED
      BY <1>2, <2>1, <3>1, <3>2
  <2>6. QED
    BY <1>1, <2>1, <2>4, <2>5
<1>4. ASSUME NEW c \in Clients, RemovePartitions(c) PROVE ReportsInv'
  <2>1. records' = records /\ clients[c].at = "remove"
    BY <1>4 DEF RemovePartitions, At
  <2>2. PICK n \in Names : n = clients[c].name
    BY <2>1, OwnName
  <2>3. PICK ps : catalog' = IF catalog[n] # None
                             THEN [catalog EXCEPT ![n].data = Without(@, ps)] ELSE catalog
    BY <1>4, <2>2, RemoveEffect
  <2>4. CASE catalog[n] # None
    <3>1. catalog[n].data \in SUBSET Pairs
      BY <2>4, ReportFacts DEF ReportsInv
    <3>2. PICK g \in SUBSET Pairs : g = Without(catalog[n].data, ps)
      BY <3>1 DEF Without
    <3>3. [catalog[n] EXCEPT !.data = g] \in Reports
      BY <2>4, ReportFacts DEF ReportsInv
    <3>4. catalog' = [catalog EXCEPT ![n] = [catalog[n] EXCEPT !.data = g]]
      BY <2>3, <2>4, <3>2
    <3>5. PICK r \in Reports : r = [catalog[n] EXCEPT !.data = g]
      BY <3>3
    <3>6. QED
      BY <1>2, <2>1, <3>4, <3>5
  <2>5. QED
    BY <1>1, <2>1, <2>3, <2>4
<1>5. ASSUME NEW c \in Clients, NEW n \in Names, AddColumn(c, n) PROVE ReportsInv'
  <2>1. records' = records
    BY <1>5 DEF AddColumn
  <2>2. catalog' = IF catalog[n] # None THEN [catalog EXCEPT ![n].added = TRUE] ELSE catalog
    BY <1>5, AddColumnEffect
  <2>3. CASE catalog[n] # None
    <3>1. {} \in SUBSET Pairs
      OBVIOUS
    <3>2. PICK r \in Reports : r = [catalog[n] EXCEPT !.added = TRUE]
      BY <2>3, <3>1, ReportFacts DEF ReportsInv
    <3>3. catalog' = [catalog EXCEPT ![n] = r]
      BY <2>2, <2>3, <3>2
    <3>4. QED
      BY <1>2, <2>1, <3>3
  <2>4. QED
    BY <1>1, <2>1, <2>2, <2>3
<1>6. ASSUME NEW c \in Clients, Index(c) PROVE ReportsInv'
  <2>1. CASE WriteRecord(c)
    <3>1. CASE records' = records \cup {clients[c].index} /\ catalog' = ReportIndex(c)
      <4>1. clients[c].index \in Indexes
        BY <2>1 DEF WriteRecord, At, ClientInv, Shape, Kind, IndexShape
      <4>2. \A n \in Names : [data |-> {}, added |-> FALSE] \in Reports
        BY ReportFacts DEF ReportsInv
      <4>3. catalog' \in [Names -> Reports \cup {None}]
        BY <3>1, <4>2 DEF ReportIndex, ReportsInv
      <4>4. QED
        BY <3>1, <4>1, <4>3 DEF ReportsInv
    <3>2. QED
      BY <1>1, <2>1, <3>1 DEF WriteRecord
  <2>2. CASE Rollback(c)
    BY <1>1, <2>2 DEF Rollback
  <2>3. CASE DropIndexTable(c)
    <3>1. clients[c].index \in Indexes /\ clients[c].at = "dropTables"
      BY <2>3 DEF DropIndexTable, At, ClientInv, Shape, Kind, IndexShape
    <3>2. PICK n \in Names : n = Head(clients[c].todo)
      BY <3>1, IndexTables
    <3>3. catalog' = [catalog EXCEPT ![n] = None] /\ records' = records
      BY <2>3, <3>2 DEF DropIndexTable
    <3>4. QED
      BY <1>2, <3>3
  <2>4. QED
    BY <1>6, <2>1, <2>2, <2>3 DEF Index
<1>7. ASSUME NEW c \in Clients, NEW n \in Names, DropTable(c, n) PROVE ReportsInv'
  BY <1>2, <1>7 DEF DropTable
<1>8. ASSUME NEW c \in Clients, Create(c) PROVE ReportsInv'
  BY <1>1, <1>8 DEF Create, CreateCheck, CreateDir, Register
<1>9. ASSUME NEW c \in Clients, Write(c) PROVE ReportsInv'
  BY <1>1, <1>3, <1>9 DEF Write, BeginWrite, BeginFails, QueryFails, AbortWrite
<1>10. ASSUME NEW c \in Clients, NEW n \in Names,
              \/ StartCreate(c, n) \/ StartInsert(c, n) \/ StartDelete(c, n)
              \/ Refused(c, n) \/ ReloadTable(c, n)
       PROVE  ReportsInv'
  BY <1>1, <1>10 DEF StartCreate, StartInsert, StartDelete, Refused, ReloadTable, vars
<1>11. ASSUME NEW c \in Clients, NEW i \in Indexes, StartIndex(c, i) \/ DropRecord(c, i)
       PROVE  ReportsInv'
  BY <1>1, <1>11 DEF StartIndex, DropRecord
<1>12. CASE Restart \/ UNCHANGED vars
  BY <1>1, <1>12 DEF Restart, vars
<1>13. QED
  BY <1>4, <1>5, <1>6, <1>7, <1>8, <1>9, <1>10, <1>11, <1>12 DEF Next

\* The state has its type, and files lie where the schema of their table says.
THEOREM TypeCorrect ==
  ASSUME "overlap" \notin Faults, "mixed" \notin Faults
  PROVE  Spec => []TypeOK
<1>1. Init => ReportsInv
  BY DEF Init, ReportsInv
<1>2. CatalogInv /\ ReportsInv /\ [Next]_vars => ReportsInv'
  BY ReportsNext
<1>3. CatalogInv /\ ReportsInv => TypeOK
  <2> SUFFICES ASSUME CatalogInv, ReportsInv PROVE TypeOK
    OBVIOUS
  <2>1. disk \in [Names -> Dirs]
    BY DEF CatalogInv, DirInv
  <2>2. tables \in [Names -> Entries \cup {None}]
    <3>1. \A n \in Names : Entry(disk[n]) \in Entries \cup {None}
      BY EntryFacts DEF CatalogInv
    <3>2. QED
      BY <3>1 DEF CatalogInv, TablesInv
  <2>3. \A c \in Clients : /\ clients[c].op \in Ops /\ clients[c].at \in Steps
                           /\ clients[c].name \in Names \cup {None}
                           /\ clients[c].index \in Indexes \cup {None}
    BY DEF CatalogInv, ClientInv, ClientStates
  <2>4. \A n \in Names : tables[n] # None =>
          PartsOf(disk[n].data) \subseteq IF tables[n].schema.partitioned THEN Parts ELSE {Whole}
    BY EntryFacts DEF CatalogInv, Good, Place
  <2>5. writes \in 0..MaxWrites
    BY DEF CatalogInv, ClientInv
  <2>6. QED
    BY <2>1, <2>2, <2>3, <2>4, <2>5 DEF ReportsInv, TypeOK, Dirs
<1>4. QED
  BY <1>1, <1>2, <1>3, CatalogInvHolds, PTL DEF Spec

\* Statements are all or nothing: what they report is what is there.
THEOREM ResultsAreKept ==
  ASSUME "overlap" \notin Faults, "mixed" \notin Faults, "plan" \notin Faults,
         "staging" \notin Faults
  PROVE  Spec => []ResultsAreTrue
<1>1. Init => ReportsInv /\ ResultInv
  <2> SUFFICES ASSUME Init PROVE ReportsInv /\ ResultInv
    OBVIOUS
  <2>1. ReportsInv
    BY DEF Init, ReportsInv
  <2>2. \A c \in Clients, n \in Names : ~Making(clients[c], n)
    BY IdleMakesNothing DEF Init
  <2>3. QED
    BY <2>1, <2>2 DEF Init, ResultInv, Agrees
<1>2. CatalogInv /\ ReportsInv /\ [Next]_vars => ReportsInv'
  BY ReportsNext
<1>3. CatalogInv /\ ReportsInv /\ ResultInv /\ [Next]_vars => ResultInv'
  <2> SUFFICES ASSUME CatalogInv, ReportsInv, ResultInv, [Next]_vars PROVE ResultInv'
    OBVIOUS
  <2>1. catalog \in [Names -> Reports \cup {None}]
    BY DEF ReportsInv
  <2>2. ASSUME disk' = disk, catalog' = catalog, clients' = clients PROVE ResultInv'
    BY <2>2 DEF ResultInv
  <2>3. CASE Restart \/ UNCHANGED vars
    BY <2>2, <2>3 DEF Restart, vars
  <2>4. ASSUME NEW c \in Clients, Create(c) \/ Write(c) \/ RemovePartitions(c) \/ Index(c)
        PROVE  ResultInv'
    BY <2>1, <2>4, CreateResult, WriteResult, RemoveResult, IndexResult
  <2>5. ASSUME NEW c \in Clients,
               \/ \E n \in Names : StartCreate(c, n) \/ StartInsert(c, n) \/ StartDelete(c, n)
               \/ \E i \in Indexes : StartIndex(c, i) \/ DropRecord(c, i)
        PROVE  ResultInv'
    BY <2>5, StartResult
  <2>6. ASSUME NEW c \in Clients, NEW n \in Names,
               DropTable(c, n) \/ AddColumn(c, n) \/ Refused(c, n) \/ ReloadTable(c, n)
        PROVE  ResultInv'
    BY <2>1, <2>6, SchemaResult
  <2>7. QED
    BY <2>3, <2>4, <2>5, <2>6 DEF Next
<1>4. CatalogInv /\ ResultInv => ResultsAreTrue
  <2> SUFFICES ASSUME CatalogInv, ResultInv, NEW n \in Names,
                      \A c \in Clients : Creates(clients[c]) => n \notin Touches(clients[c])
               PROVE  IF catalog[n] = None THEN tables[n] = None /\ disk[n] = NoDir
                      ELSE /\ tables[n] # None /\ tables[n].data = catalog[n].data
                           /\ tables[n].schema.added = catalog[n].added
    BY DEF ResultsAreTrue
  <2>1. \A c \in Clients : ~Making(clients[c], n)
    BY DEF Making
  <2>2. Agrees(catalog[n], disk[n])
    BY <2>1, ReportedTable
  <2>3. CASE catalog[n] = None
    <3>1. disk[n] = NoDir
      BY <2>2, <2>3 DEF Agrees
    <3>2. disk[n].schema = None
      BY <3>1 DEF NoDir
    <3>3. QED
      BY <2>3, <3>1, <3>2, EntryFacts DEF CatalogInv
  <2>4. CASE catalog[n] # None
    <3>1. /\ disk[n].schema # None /\ disk[n].data = catalog[n].data
          /\ disk[n].schema.added = catalog[n].added
      BY <2>2, <2>4 DEF Agrees
    <3>2. QED
      BY <2>4, <3>1, EntryFacts DEF CatalogInv
  <2>5. QED
    BY <2>3, <2>4
<1>5. QED
  BY <1>1, <1>2, <1>3, <1>4, CatalogInvHolds, PTL DEF Spec
=============================================================================

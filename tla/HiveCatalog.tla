----------------------------- MODULE HiveCatalog -----------------------------
(***************************************************************************)
(* The local Hive catalog: LocalHiveConnectorMetadata with the statements  *)
(* that SqlQueryRunner, the optimizer's FinishWrite and LocalRunner run    *)
(* against it from several threads.                                        *)
(*                                                                         *)
(* A table lives twice: as a directory, with a .schema file, data files    *)
(* and the statistics of its writes, and as an entry of tables_, loaded    *)
(* from the directory.  Every step that mutex_ protects is one action;     *)
(* what happens outside it (the check for the directory, its creation,     *)
(* the staging directory, the query that writes) is a step of its own.     *)
(*                                                                         *)
(* Data is a set of pairs <<partition, write>>: the files that a write     *)
(* put into a partition, or into Whole for a table without partitions.     *)
(* Statistics are the pairs they count.                                    *)
(***************************************************************************)
EXTENDS Naturals, FiniteSets, Sequences

CONSTANTS
  Clients,     \* threads that run statements
  Names,       \* table names
  Indexes,     \* vector index names
  CodecTable,  \* CodecTable[i], the name <index>__codecs
  IndexTable,  \* IndexTable[i], the name <index>__index
  Parts,       \* values of the partition column
  Whole,       \* the directory of a table without partitions
  None,        \* no table
  MaxWrites,   \* bound on the statements that write
  Faults       \* what may go wrong, a subset of AllFaults

\* "plan": the optimizer rejects a CTAS; "staging": no staging directory can be
\* made; "record": the index record cannot be written; "mixed": move() moves
\* some partitions before it meets one that exists; "overlap": CREATE and DROP of one
\* table overlap with other statements on it.
AllFaults == {"plan", "staging", "record", "mixed", "overlap"}

ASSUME CatalogAssumption ==
  /\ CodecTable \in [Indexes -> Names] /\ IndexTable \in [Indexes -> Names]
  /\ \A i \in Indexes : CodecTable[i] # IndexTable[i]
  /\ \A i, j \in Indexes : i # j => {CodecTable[i], IndexTable[i]}
                                    \cap {CodecTable[j], IndexTable[j]} = {}
  /\ Whole \notin Parts /\ MaxWrites \in Nat /\ Faults \subseteq AllFaults

VARIABLES
  disk,      \* the directory of each table
  tables,    \* tables_
  records,   \* the .vector_index files
  clients,   \* what each client is doing
  writes,    \* number of writing statements begun
  catalog    \* the catalog as the results of the statements tell it

vars == <<disk, tables, records, clients, writes, catalog>>

(***************************************************************************)
(* Directories and the tables loaded from them.                            *)
(***************************************************************************)
NoDir == [dir |-> FALSE, schema |-> None, data |-> {}, stats |-> {}]
EmptyDir == [NoDir EXCEPT !.dir = TRUE]
Schema(partitioned, added) == [partitioned |-> partitioned, added |-> added]

\* createTable(), loadTable(): the entry of tables_.
Table(schema, data, stats) == [schema |-> schema, data |-> data, stats |-> stats]

PartsOf(pairs) == {p[1] : p \in pairs}

\* loadTable() fails without a .schema, and, having replaced the entry, when a
\* partition has no .stats.
HasStats(d) == d.schema.partitioned => PartsOf(d.data) \subseteq PartsOf(d.stats)
Loads(d) == d.schema # None /\ HasStats(d)
Loaded(d, old) == IF d.schema = None THEN old
                  ELSE Table(d.schema, d.data, IF HasStats(d) THEN d.stats ELSE {})

(***************************************************************************)
(* Clients.                                                                *)
(***************************************************************************)
\* op is the statement, at its next step, name the table it works on, quiet
\* IF [NOT] EXISTS, part whether the table is partitioned, index the vector
\* index, todo the tables it has still to handle, created those it has made,
\* writing the partitions and the number of its write.
Idle == [op |-> "none", at |-> "idle", name |-> None, quiet |-> FALSE, part |-> FALSE,
         index |-> None, todo |-> <<>>, created |-> {}, parts |-> {}, write |-> 0]

Ops == {"none", "create", "ctas", "insert", "delete", "index", "dropIndex"}
Steps == {"idle", "check", "mkdir", "register", "begin", "run", "abort", "remove",
          "record", "rollback", "dropTables"}

\* The names a statement may touch.
Touches(k) == (IF k.name = None THEN {} ELSE {k.name})
              \cup (IF k.index = None THEN {} ELSE {CodecTable[k.index], IndexTable[k.index]})
Creates(k) == k.op \in {"create", "ctas", "index", "dropIndex"}

\* Statements on the same table run concurrently unless one of them creates or
\* drops it, which its callers keep apart without the fault "overlap".
Apart(c, names, ddl) ==
  "overlap" \in Faults \/ \A d \in Clients \ {c} :
    (Touches(clients[d]) \cap names # {}) => ~ddl /\ ~Creates(clients[d])

Go(c, k) == clients' = [clients EXCEPT ![c] = k]
Move(c, at) == Go(c, [clients[c] EXCEPT !.at = at])
End(c) == Go(c, Idle)

\* A statement that fails ends, but an index first drops the tables it made.
Fail(c) == IF clients[c].op = "index" THEN Move(c, "rollback") ELSE End(c)

\* Every statement that writes has a number, which stands for its files.
NewWrite == writes < MaxWrites /\ writes' = writes + 1

Begun(op, at, n) == [Idle EXCEPT !.op = op, !.at = at, !.name = n]
At(c, at) == clients[c].at = at

(***************************************************************************)
(* createTable().                                                          *)
(***************************************************************************)
\* CREATE TABLE or CREATE TABLE AS SELECT.
StartCreate(c, n) ==
  /\ At(c, "idle") /\ Apart(c, {n}, TRUE)
  /\ \E op \in {"create", "ctas"}, quiet, part \in BOOLEAN :
       /\ op = "ctas" => ~quiet
       /\ Go(c, [Begun(op, "check", n) EXCEPT !.quiet = quiet, !.part = part,
                                              !.write = writes + 1])
  /\ NewWrite
  /\ UNCHANGED <<disk, tables, records, catalog>>

\* dirExists(): the table exists, which is no failure with IF NOT EXISTS.
CreateCheck(c) ==
  /\ At(c, "check")
  /\ IF ~disk[clients[c].name].dir THEN Move(c, "mkdir")
     ELSE IF clients[c].quiet THEN End(c) ELSE Fail(c)
  /\ UNCHANGED <<disk, tables, records, writes, catalog>>

\* createDir() does not mind a directory that has appeared meanwhile.
CreateDir(c) ==
  LET n == clients[c].name
  IN /\ At(c, "mkdir")
     /\ disk' = [disk EXCEPT ![n] = IF @.dir THEN @ ELSE EmptyDir]
     /\ Move(c, "register")
     /\ UNCHANGED <<tables, records, writes, catalog>>

\* Under mutex_: a table registered meanwhile loses its directory, otherwise
\* the schema is written and the table registered.
Register(c) ==
  LET n == clients[c].name
      schema == Schema(clients[c].part, FALSE)
  IN /\ At(c, "register")
     /\ IF tables[n] # None
        THEN /\ disk' = [disk EXCEPT ![n] = NoDir] /\ UNCHANGED tables
             /\ IF clients[c].quiet THEN End(c) ELSE Fail(c)
        ELSE IF ~disk[n].dir THEN Fail(c) /\ UNCHANGED <<disk, tables>>
        ELSE /\ disk' = [disk EXCEPT ![n].schema = schema]
             /\ tables' = [tables EXCEPT ![n] = Table(schema, {}, {})]
             /\ Move(c, "begin")
     /\ UNCHANGED <<records, writes, catalog>>

(***************************************************************************)
(* Writes: beginWrite(), the query, finishWrite() or abortWrite().         *)
(***************************************************************************)
\* INSERT: the parser finds the table, or fails.
StartInsert(c, n) ==
  /\ At(c, "idle") /\ tables[n] # None /\ Apart(c, {n}, FALSE)
  /\ Go(c, [Begun("insert", "begin", n) EXCEPT !.part = tables[n].schema.partitioned,
                                                !.write = writes + 1])
  /\ NewWrite
  /\ UNCHANGED <<disk, tables, records, catalog>>

\* The rows of a write: none for a new empty table, any partitions otherwise.
\* Variant: files outside the partitions' directories.
WrittenPartsFlat(k) == IF k.op \in {"create", "index"} THEN {{}} ELSE {{}, {Whole}}
WrittenParts(k) == IF k.op \in {"create", "index"} THEN {{}}
                   ELSE IF k.part THEN SUBSET Parts ELSE {{}, {Whole}}

BeginWrite(c) ==
  /\ At(c, "begin")
  /\ \E ps \in WrittenParts(clients[c]) :
       Go(c, [clients[c] EXCEPT !.at = "run", !.parts = ps])
  /\ UNCHANGED <<disk, tables, records, writes, catalog>>

\* The optimizer, or beginWrite() itself, throws: no handle exists to abort.
MayNotBegin == IF "staging" \in Faults THEN Ops
               ELSE IF "plan" \in Faults THEN {"ctas", "insert"} ELSE {"insert"}
BeginFails(c) ==
  /\ At(c, "begin") /\ clients[c].op \in MayNotBegin /\ Fail(c)
  /\ UNCHANGED <<disk, tables, records, writes, catalog>>

\* The query fails or is cancelled, or its plan is dropped (FinishWrite).
QueryFails(c) ==
  /\ At(c, "run") /\ clients[c].op \in {"ctas", "insert"} /\ Move(c, "abort")
  /\ UNCHANGED <<disk, tables, records, writes, catalog>>

\* move() renames the entries of the staging directory itself (it does not
\* descend into them): one that exists already stops it; Moved are the sets of
\* partitions that may have been moved by then, as the order in which the
\* directory is read is not defined.
Clashes(c) == IF clients[c].part
              THEN clients[c].parts \cap PartsOf(disk[clients[c].name].data) ELSE {}
Moved(c) == IF Clashes(c) = {} THEN {clients[c].parts}
            ELSE IF "mixed" \in Faults THEN SUBSET (clients[c].parts \ Clashes(c))
            ELSE {{}}

Files(c, ps) == {<<p, clients[c].write>> : p \in ps}

\* PersistedStats::write() merges the statistics of a write into the file.
\* Variant: replaces the file.
MergedReplacing(stats, files) == IF files = {} THEN stats ELSE files
Merged(stats, files) == stats \cup files

\* The directory once ps are moved: it is made if need be, and the statistics
\* follow when all were moved.
WithWrite(c, d, ps) ==
  [d EXCEPT !.dir = TRUE, !.data = @ \cup Files(c, ps),
            !.stats = IF Clashes(c) = {} THEN Merged(@, Files(c, ps)) ELSE @]

\* The statement whose write is committed goes on: an index has its next table
\* to make, and its record to write after the last.
Committed(c) ==
  LET k == [clients[c] EXCEPT !.created = @ \cup {clients[c].name}]
  IN IF k.op # "index" THEN {Idle}
     ELSE IF k.todo = <<>> THEN {[k EXCEPT !.at = "record"]}
     ELSE {[k EXCEPT !.at = "check", !.name = Head(k.todo), !.todo = Tail(k.todo),
                     !.part = part] : part \in BOOLEAN}

\* What a commit that succeeds tells its caller.
Report(c, n) ==
  LET files == Files(c, clients[c].parts)
      old == catalog[n]
  IN [catalog EXCEPT ![n] = IF clients[c].op = "insert" /\ old # None
                            THEN [old EXCEPT !.data = @ \cup files]
                            ELSE [data |-> files, added |-> FALSE]]

\* finishWrite(), under mutex_: move(), the statistics, loadTable().  A commit
\* that fails is aborted only for an empty table (co_createEmptyTable()).  The
\* writer is taken to report its partitions, so the checks after the move hold,
\* and the file system not to fail.
FinishWrite(c) ==
  LET n == clients[c].name
  IN /\ At(c, "run")
     /\ \E ps \in Moved(c) :
          LET d == WithWrite(c, disk[n], ps)
          IN /\ disk' = [disk EXCEPT ![n] = d]
             /\ tables' = [tables EXCEPT ![n] =
                             IF Clashes(c) = {} THEN Loaded(d, @) ELSE @]
             /\ IF Clashes(c) = {} /\ Loads(d)
                THEN /\ \E k \in Committed(c) : Go(c, k)
                     /\ catalog' = IF clients[c].op = "index" THEN catalog ELSE Report(c, n)
                ELSE /\ IF clients[c].op \in {"create", "index"} THEN Move(c, "abort") ELSE End(c)
                     /\ UNCHANGED catalog
     /\ UNCHANGED <<records, writes>>

\* abortWrite(), under mutex_: a table that the statement created goes.
AbortedTable(c, t) == IF clients[c].op = "insert" THEN t ELSE None
AbortWrite(c) ==
  LET n == clients[c].name
  IN /\ At(c, "abort")
     /\ disk' = [disk EXCEPT ![n] = IF clients[c].op = "insert" THEN @ ELSE NoDir]
     /\ tables' = [tables EXCEPT ![n] = AbortedTable(c, @)]
     /\ Fail(c)
     /\ UNCHANGED <<records, writes, catalog>>

(***************************************************************************)
(* DELETE, DROP TABLE and ALTER TABLE ADD COLUMN.                          *)
(***************************************************************************)
\* A metadata-only DELETE: the values of the partitions to remove come from its
\* filter, which a table without partitions does not have.
StartDelete(c, n) ==
  /\ At(c, "idle") /\ tables[n] # None /\ Apart(c, {n}, FALSE)
  /\ \E ps \in IF tables[n].schema.partitioned THEN SUBSET Parts ELSE {{}} :
       Go(c, [Begun("delete", "remove", n) EXCEPT !.part = tables[n].schema.partitioned,
                                                  !.parts = ps])
  /\ UNCHANGED <<disk, tables, records, writes, catalog>>

Without(pairs, ps) == {p \in pairs : p[1] \notin ps}

\* removePartitions(), under mutex_.
RemovePartitions(c) ==
  LET n == clients[c].name
      ps == IF clients[c].part THEN clients[c].parts ELSE PartsOf(disk[n].data)
      d == [disk[n] EXCEPT !.data = Without(@, ps), !.stats = Without(@, ps)]
  IN /\ At(c, "remove")
     /\ IF ~disk[n].dir \/ (clients[c].part /\ ~(ps \cap PartsOf(disk[n].data)
                                                  \subseteq PartsOf(disk[n].stats)))
        THEN UNCHANGED <<disk, tables, catalog>>
        ELSE /\ disk' = [disk EXCEPT ![n] = d]
             /\ tables' = [tables EXCEPT ![n] = Loaded(d, @)]
             /\ catalog' = IF Loads(d) /\ catalog[n] # None
                           THEN [catalog EXCEPT ![n].data = Without(@, ps)]
                           ELSE catalog
     /\ End(c)
     /\ UNCHANGED <<records, writes>>

DropTable(c, n) ==
  /\ At(c, "idle") /\ tables[n] # None /\ Apart(c, {n}, TRUE)
  /\ disk' = [disk EXCEPT ![n] = NoDir] /\ tables' = [tables EXCEPT ![n] = None]
  /\ catalog' = [catalog EXCEPT ![n] = None]
  /\ UNCHANGED <<records, clients, writes>>

\* addColumn() rewrites the schema and reloads the table.
\* Variant: registers the new schema without reloading what is on disk.
ReloadedEmpty(d, old) == Table(d.schema, {}, {})
Reloaded(d, old) == Loaded(d, old)
AddColumn(c, n) ==
  LET d == [disk[n] EXCEPT !.schema.added = TRUE]
  IN /\ At(c, "idle") /\ Apart(c, {n}, FALSE)
     /\ tables[n] # None /\ ~tables[n].schema.added /\ disk[n].schema # None
     /\ disk' = [disk EXCEPT ![n] = d]
     /\ tables' = [tables EXCEPT ![n] = Reloaded(d, @)]
     /\ catalog' = IF Loads(d) /\ catalog[n] # None
                   THEN [catalog EXCEPT ![n].added = TRUE] ELSE catalog
     /\ UNCHANGED <<records, clients, writes>>

(***************************************************************************)
(* Vector indexes.                                                         *)
(***************************************************************************)
TablesOf(i) == <<CodecTable[i], IndexTable[i]>>

\* co_createVectorIndex(): neither the index nor its tables may exist.  The
\* codec table, made first, is always partitioned, by the codec.
StartIndex(c, i) ==
  /\ At(c, "idle") /\ i \notin records /\ Apart(c, {CodecTable[i], IndexTable[i]}, TRUE)
  /\ tables[CodecTable[i]] = None /\ tables[IndexTable[i]] = None
  /\ Go(c, [Begun("index", "check", Head(TablesOf(i))) EXCEPT
              !.part = TRUE, !.index = i, !.todo = Tail(TablesOf(i)), !.write = writes + 1])
  /\ NewWrite
  /\ UNCHANGED <<disk, tables, records, catalog>>

\* The tables and the record exist: the index is reported.
ReportIndex(c) ==
  [n \in Names |-> IF n \in clients[c].created THEN [data |-> {}, added |-> FALSE]
                   ELSE catalog[n]]
WriteRecord(c) ==
  /\ At(c, "record")
  /\ \/ /\ records' = records \cup {clients[c].index}
        /\ catalog' = ReportIndex(c) /\ End(c)
     \/ "record" \in Faults /\ Fail(c) /\ UNCHANGED <<records, catalog>>
  /\ UNCHANGED <<disk, tables, writes>>

\* The catch block: drop the next table that was created, or rethrow.
\* Variant: only drops the last one.
RollbackOne(c) == clients[c].created \cap {IndexTable[clients[c].index]}
RollbackTables(c) == clients[c].created
Rollback(c) ==
  /\ At(c, "rollback")
  /\ IF RollbackTables(c) = {} THEN End(c) /\ UNCHANGED <<disk, tables>>
     ELSE LET codec == CodecTable[clients[c].index]
              n == IF codec \in RollbackTables(c) THEN codec ELSE IndexTable[clients[c].index]
          IN /\ disk' = [disk EXCEPT ![n] = IF tables[n] = None THEN @ ELSE NoDir]
             /\ tables' = [tables EXCEPT ![n] = None]
             /\ Go(c, [clients[c] EXCEPT !.created = @ \ {n}])
  /\ UNCHANGED <<records, writes, catalog>>

\* dropVectorIndex(): the record, then each table.
DropRecord(c, i) ==
  /\ At(c, "idle") /\ i \in records /\ Apart(c, {CodecTable[i], IndexTable[i]}, TRUE)
  /\ records' = records \ {i}
  /\ Go(c, [Begun("dropIndex", "dropTables", None) EXCEPT !.index = i, !.todo = TablesOf(i)])
  /\ UNCHANGED <<disk, tables, writes, catalog>>

DropIndexTable(c) ==
  LET n == Head(clients[c].todo)
  IN /\ At(c, "dropTables")
     /\ disk' = [disk EXCEPT ![n] = IF tables[n] = None THEN @ ELSE NoDir]
     /\ tables' = [tables EXCEPT ![n] = None]
     /\ catalog' = [catalog EXCEPT ![n] = None]
     /\ Go(c, IF Tail(clients[c].todo) = <<>> THEN Idle
              ELSE [clients[c] EXCEPT !.todo = Tail(@)])
     /\ UNCHANGED <<records, writes>>

(***************************************************************************)
(* The specification.                                                      *)
(***************************************************************************)
\* reloadTableFromPath(), under mutex_.
ReloadTable(c, n) ==
  /\ At(c, "idle") /\ disk[n].schema # None
  /\ tables' = [tables EXCEPT ![n] = Loaded(disk[n], @)]
  /\ UNCHANGED <<disk, records, clients, writes, catalog>>

\* The process ends in order, and the next one, or reinitialize(), loads every
\* directory; initialize() throws when one of them cannot be loaded.
Restart ==
  /\ \A c \in Clients : At(c, "idle")
  /\ \A n \in Names : disk[n].dir => Loads(disk[n])
  /\ tables' = [n \in Names |-> IF disk[n].dir THEN Loaded(disk[n], None) ELSE None]
  /\ UNCHANGED <<disk, records, clients, writes, catalog>>

\* findTable() finds nothing: a statement on the table is refused, or has
\* nothing to do with IF EXISTS.
Refused(c, n) == At(c, "idle") /\ tables[n] = None /\ UNCHANGED vars

Init ==
  /\ disk = [n \in Names |-> NoDir] /\ tables = [n \in Names |-> None]
  /\ catalog = [n \in Names |-> None]
  /\ records = {} /\ clients = [c \in Clients |-> Idle] /\ writes = 0

Create(c) == CreateCheck(c) \/ CreateDir(c) \/ Register(c)
Write(c) == BeginWrite(c) \/ BeginFails(c) \/ QueryFails(c) \/ FinishWrite(c) \/ AbortWrite(c)
Index(c) == WriteRecord(c) \/ Rollback(c) \/ DropIndexTable(c)
Next == Restart \/
  \E c \in Clients :
    \/ Create(c) \/ Write(c) \/ RemovePartitions(c) \/ Index(c)
    \/ \E n \in Names : \/ StartCreate(c, n) \/ StartInsert(c, n) \/ StartDelete(c, n)
                        \/ DropTable(c, n) \/ AddColumn(c, n) \/ Refused(c, n)
                        \/ ReloadTable(c, n)
    \/ \E i \in Indexes : StartIndex(c, i) \/ DropRecord(c, i)

Spec == Init /\ [][Next]_vars

(***************************************************************************)
(* Properties.                                                             *)
(***************************************************************************)
Pairs == (Parts \cup {Whole}) \X (1..MaxWrites)
Schemas == [partitioned : BOOLEAN, added : BOOLEAN]
Entries == [schema : Schemas, data : SUBSET Pairs, stats : SUBSET Pairs]
Reports == [data : SUBSET Pairs, added : BOOLEAN]

\* None stands for no name, no index, no schema, no table and no report.
ASSUME NoneAssumption ==
  None \notin Names \cup Indexes \cup Schemas \cup Entries \cup Reports

\* The state has its type, and the files of a table lie where its schema says:
\* below partition directories if it is partitioned (visitPartitions() descends
\* into nothing else), in the table's own directory if it is not.
TypeOK ==
  /\ disk \in [Names -> [dir : BOOLEAN, schema : Schemas \cup {None},
                         data : SUBSET Pairs, stats : SUBSET Pairs]]
  /\ tables \in [Names -> Entries \cup {None}]
  /\ catalog \in [Names -> Reports \cup {None}]
  /\ records \subseteq Indexes /\ writes \in 0..MaxWrites
  /\ \A c \in Clients : clients[c].op \in Ops /\ clients[c].at \in Steps
                        /\ clients[c].name \in Names \cup {None}
                        /\ clients[c].index \in Indexes \cup {None}
  /\ \A n \in Names : tables[n] # None =>
       PartsOf(disk[n].data) \subseteq IF tables[n].schema.partitioned THEN Parts ELSE {Whole}

\* Memory is never ahead of the disk nor behind it: between any two steps of any
\* clients, findTable() finds exactly the tables whose directory has a .schema,
\* each as loading that directory anew, in this process or in the next, would
\* give it.
MemoryMirrorsDisk ==
  \A n \in Names :
    /\ tables[n] = None <=> disk[n].schema = None
    /\ tables[n] # None => tables[n] = Loaded(disk[n], None)

\* The statistics that the optimizer reads count the files that a scan reads, no
\* file twice and none that is gone, however inserts, deletes and schema changes
\* by several clients follow one another (PersistedStats is merged by
\* finishWrite() and removed with its partition).
StatsCountData == \A n \in Names : tables[n] # None => tables[n].stats = tables[n].data

\* All or nothing: a table that no statement is about to create or drop is what
\* the statements that returned success made it, and one that failed, was
\* cancelled or rolled back has left nothing behind, not even a directory that
\* would keep the name from being created again (createTable()).
ResultsAreTrue ==
  \A n \in Names : (\A c \in Clients : Creates(clients[c]) => n \notin Touches(clients[c])) =>
    IF catalog[n] = None THEN tables[n] = None /\ disk[n] = NoDir
    ELSE /\ tables[n] # None
         /\ tables[n].data = catalog[n].data /\ tables[n].schema.added = catalog[n].added

\* Every partition directory has the .stats file that readPartitionStats() says
\* it is required to have, without which no load of the table succeeds again.
PartitionsHaveStats ==
  \A n \in Names : tables[n] # None /\ tables[n].schema.partitioned => HasStats(disk[n])
=============================================================================

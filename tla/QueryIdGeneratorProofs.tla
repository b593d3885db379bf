------------------------ MODULE QueryIdGeneratorProofs ------------------------
(***************************************************************************)
(* Proofs about QueryIdGenerator, for every counter limit, day length and  *)
(* clock bound, as long as the wall clock is never set back.               *)
(***************************************************************************)
EXTENDS QueryIdGenerator, TLAPS

\* Every id handed out is older than the current second or has a counter below
\* the current one.  A call that waited out an overflow has reset the counter
\* before it stamps, and then the clock is past every second used so far.
IssuedBelow ==
  \A i \in DOMAIN issued :
    /\ issued[i][1] <= lastSecond
    /\ issued[i][1] = lastSecond =>
         issued[i][2] < counter \/ (pc = "stamp" /\ lastSecond < clock)

\* The overflow test has been passed, or its wait is over, when an id is stamped.
CounterFits == pc = "stamp" => counter <= MaxCounter

\* The inductive invariant; the clock never shows an earlier second than the last
\* id.
IInv ==
  /\ TypeOK
  /\ lastSecond <= clock
  /\ IssuedBelow
  /\ CounterFits
  /\ FiveDigits
  /\ IdsInOrder

\* The day and the counter a stamp stores are numbers.
LEMMA StampTypes ==
  ASSUME TypeOK
  PROVE  Day(clock) \in Nat /\ RolledCounter \in Nat
  BY SecondsPerDayAssumption, MaxCounterAssumption DEF TypeOK, Day, RolledCounter

\* The overflow test keeps the counter within one of its limit.
LEMMA TypeStep == TypeOK /\ CounterFits /\ [Next]_vars => TypeOK' /\ CounterFits'
<1> SUFFICES ASSUME TypeOK, CounterFits, [Next]_vars PROVE TypeOK' /\ CounterFits'
  OBVIOUS
<1> USE MaxCounterAssumption
<1>1. CASE Enter
  BY <1>1 DEF Enter, TypeOK, CounterFits
<1>2. CASE NextSecond
  BY <1>2 DEF NextSecond, TypeOK, CounterFits
<1>3. CASE Stamp
  <2>1. Append(issued, <<clock, RolledCounter>>) \in Seq(Nat \X Nat)
    BY StampTypes DEF TypeOK
  <2>2. RolledCounter + 1 \in 0..(MaxCounter + 1)
    BY <1>3 DEF Stamp, RolledCounter, TypeOK, CounterFits
  <2>3. QED
    BY <1>3, <2>1, <2>2, StampTypes DEF Stamp, TypeOK, CounterFits
<1>4. CASE MoveClock
  BY <1>4, MaxClockAssumption DEF MoveClock, TypeOK, CounterFits
<1>5. CASE UNCHANGED vars
  BY <1>5 DEF vars, TypeOK, CounterFits
<1>6. QED
  BY <1>1, <1>2, <1>3, <1>4, <1>5 DEF Next

\* The variables of QueryIdGenerator always have their types, and the counter
\* never passes its limit by more than one, also when the clock is set back.
THEOREM TypeCorrect == Spec => []TypeOK
<1>1. Init => TypeOK /\ CounterFits
  BY MaxClockAssumption, MaxCounterAssumption DEF Init, TypeOK, CounterFits
<1>2. QED
  BY <1>1, TypeStep, PTL DEF Spec

\* What an id gets when it is stamped: a counter that fits, and a place after
\* every id already issued.
LEMMA StampIsNew ==
  ASSUME IInv, Stamp
  PROVE  /\ RolledCounter <= MaxCounter
         /\ \A i \in DOMAIN issued : Before(issued[i], <<clock, RolledCounter>>)
<1>1. RolledCounter <= MaxCounter
  BY MaxCounterAssumption DEF RolledCounter, IInv, TypeOK, CounterFits, Stamp
<1>2. ASSUME NEW i \in DOMAIN issued
      PROVE  Before(issued[i], <<clock, RolledCounter>>)
  <2>1. issued[i][1] \in Nat /\ issued[i][2] \in Nat
    BY DEF IInv, TypeOK
  <2>2. CASE clock = lastSecond
    BY <2>1, <2>2 DEF RolledCounter, IInv, TypeOK, IssuedBelow, Before
  <2>3. CASE clock # lastSecond
    BY <2>1, <2>3 DEF IInv, TypeOK, IssuedBelow, Before
  <2>4. QED
    BY <2>2, <2>3
<1>3. QED
  BY <1>1, <1>2

\* The inductive invariant is preserved by every step of a clock that only
\* moves forward.
LEMMA Inductive ==
  ASSUME ClockStepsBack = FALSE, IInv, [Next]_vars
  PROVE  IInv'
<1>1. TypeOK'
  BY TypeStep DEF IInv
<1>2. CASE Enter
  BY <1>1, <1>2, MaxCounterAssumption
  DEF IInv, TypeOK, Enter, IssuedBelow, CounterFits, FiveDigits, IdsInOrder
<1>3. CASE NextSecond
  BY <1>1, <1>3, MaxCounterAssumption
  DEF IInv, TypeOK, NextSecond, IssuedBelow, CounterFits, FiveDigits, IdsInOrder
<1>4. CASE Stamp
  <2> DEFINE new == <<clock, RolledCounter>>
  <2>1. /\ RolledCounter <= MaxCounter
        /\ \A i \in DOMAIN issued : Before(issued[i], new)
    BY <1>4, StampIsNew
  <2>2. RolledCounter \in Nat /\ new \in Nat \X Nat
    BY StampTypes DEF IInv, TypeOK
  <2>3. /\ lastSecond' = clock /\ clock' = clock /\ pc' = "idle"
        /\ counter' = RolledCounter + 1
        /\ issued' = Append(issued, new)
    BY <1>4 DEF Stamp
  <2>4. /\ issued \in Seq(Nat \X Nat)
        /\ clock \in Nat /\ lastSecond \in Nat /\ Len(issued) \in Nat
    BY DEF IInv, TypeOK
  <2>5. /\ new[1] = clock /\ new[2] = RolledCounter
        /\ DOMAIN issued = 1..Len(issued)
        /\ DOMAIN issued' = 1..(Len(issued) + 1)
        /\ \A i \in 1..Len(issued) : issued'[i] = issued[i]
        /\ issued'[Len(issued) + 1] = new
    BY <2>2, <2>3, <2>4
  <2> HIDE DEF new
  <2>6. FiveDigits'
    BY <2>1, <2>4, <2>5, SMTT(60) DEF FiveDigits, IInv
  <2>7. IdsInOrder'
    <3> SUFFICES ASSUME NEW i \in DOMAIN issued', NEW j \in DOMAIN issued', i < j
                 PROVE  Before(issued'[i], issued'[j])
      BY DEF IdsInOrder, Before
    <3>1. i \in 1..Len(issued) /\ issued'[i] = issued[i]
      BY <2>4, <2>5, SMTT(60)
    <3>2. CASE j \in 1..Len(issued)
      BY <3>1, <3>2, <2>5 DEF IdsInOrder, IInv
    <3>3. CASE j = Len(issued) + 1
      BY <3>1, <3>3, <2>1, <2>5
    <3>4. QED
      BY <3>2, <3>3, <2>4, <2>5
  <2>8. IssuedBelow'
    <3> SUFFICES ASSUME NEW i \in DOMAIN issued'
                 PROVE  /\ issued'[i][1] <= clock
                        /\ issued'[i][1] = clock => issued'[i][2] < RolledCounter + 1
      BY <2>3 DEF IssuedBelow
    <3>1. CASE i \in DOMAIN issued
      <4>1. issued[i][1] \in Nat /\ issued[i][2] \in Nat
        BY <3>1, <2>4
      <4>2. issued'[i] = issued[i]
        BY <3>1, <2>5
      <4>3. \/ issued[i][1] < clock
            \/ issued[i][1] = clock /\ issued[i][2] < RolledCounter
        BY <3>1, <2>1, <2>5 DEF Before
      <4>4. QED
        BY <4>1, <4>2, <4>3, <2>2, <2>4, SMTT(60)
    <3>2. CASE i = Len(issued) + 1
      BY <3>2, <2>2, <2>4, <2>5
    <3>3. QED
      BY <3>1, <3>2, <2>4, <2>5
  <2>9. CounterFits' /\ (lastSecond <= clock)'
    BY <2>3, <2>4 DEF CounterFits
  <2>10. QED
    BY <1>1, <2>6, <2>7, <2>8, <2>9 DEF IInv
<1>5. CASE MoveClock
  <2>1. PICK now \in 1..MaxClock :
          /\ now > clock
          /\ clock' = now
          /\ UNCHANGED <<lastSecond, lastDay, counter, pc, issued>>
    BY <1>5 DEF MoveClock
  <2>2. now \in Nat
    BY MaxClockAssumption
  <2>3. QED
    BY <1>1, <2>1, <2>2
    DEF IInv, TypeOK, IssuedBelow, CounterFits, FiveDigits, IdsInOrder
<1>6. CASE UNCHANGED vars
  BY <1>6 DEF vars, IInv, TypeOK, IssuedBelow, CounterFits, FiveDigits, IdsInOrder
<1>7. QED
  BY <1>2, <1>3, <1>4, <1>5, <1>6 DEF Next

\* No id has been issued before the first call.
LEMMA InitIInv == Init => IInv
  BY MaxClockAssumption, MaxCounterAssumption
  DEF Init, IInv, TypeOK, IssuedBelow, CounterFits, FiveDigits, IdsInOrder

\* Ids in strict order are distinct.
LEMMA OrderedIsUnique ==
  ASSUME TypeOK, IdsInOrder
  PROVE  UniqueIds
<1> SUFFICES ASSUME NEW i \in DOMAIN issued, NEW j \in DOMAIN issued, i # j
             PROVE  issued[i] # issued[j]
  BY DEF UniqueIds
<1>1. i \in Nat /\ j \in Nat /\ issued[i] \in Nat \X Nat /\ issued[j] \in Nat \X Nat
  BY SMTT(60) DEF TypeOK
<1>2. Before(issued[i], issued[j]) \/ Before(issued[j], issued[i])
  BY <1>1 DEF IdsInOrder
<1>3. QED
  BY <1>1, <1>2 DEF Before

\* While the wall clock is not set back, ids sort in the order of the calls.
THEOREM IdsAreOrdered ==
  ASSUME ClockStepsBack = FALSE
  PROVE  Spec => []IdsInOrder
<1>1. IInv /\ [Next]_vars => IInv'
  BY Inductive
<1>2. IInv => IdsInOrder
  BY DEF IInv
<1>3. QED
  BY <1>1, <1>2, InitIInv, PTL DEF Spec

\* While the wall clock is not set back, no id is ever returned twice, across
\* overflows of the counter and changes of the day.
THEOREM IdsAreUnique ==
  ASSUME ClockStepsBack = FALSE
  PROVE  Spec => []UniqueIds
<1>1. IInv /\ [Next]_vars => IInv'
  BY Inductive
<1>2. IInv => UniqueIds
  BY OrderedIsUnique DEF IInv
<1>3. QED
  BY <1>1, <1>2, InitIInv, PTL DEF Spec

\* While the wall clock is not set back, every counter fits its five digits.
THEOREM CountersFit ==
  ASSUME ClockStepsBack = FALSE
  PROVE  Spec => []FiveDigits
<1>1. IInv /\ [Next]_vars => IInv'
  BY Inductive
<1>2. IInv => FiveDigits
  BY DEF IInv
<1>3. QED
  BY <1>1, <1>2, InitIInv, PTL DEF Spec
=============================================================================

--------------------------- MODULE QueryIdGenerator ---------------------------
(***************************************************************************)
(* The query id generator of the CLI (axiom/cli/QueryIdGenerator.{h,cpp}). *)
(*                                                                         *)
(* An id is the UTC second of the call, a 5-digit counter and a suffix     *)
(* fixed per generator.  The suffix never changes, so an id is modelled as *)
(* the pair <<second, counter>>; the second is kept as a number because    *)
(* its text form is injective.  The mutex makes calls run one at a time:   *)
(* 'pc' is the position of the call that holds it, and a call that waits   *)
(* for the next second holds the mutex while it sleeps.  The wall clock    *)
(* moves on its own between any two reads.                                 *)
(***************************************************************************)
EXTENDS Naturals, Sequences

CONSTANTS
  MaxCounter,      \* 99'999 in the code: the largest five-digit counter
  SecondsPerDay,   \* 86'400 in the code
  MaxClock,        \* bound: the last second the modelled clock reaches
  ClockStepsBack   \* whether the wall clock may be set back (NTP, an operator)

ASSUME MaxCounterAssumption == MaxCounter \in Nat
ASSUME SecondsPerDayAssumption == SecondsPerDay \in Nat \ {0}
ASSUME MaxClockAssumption == MaxClock \in Nat \ {0}
ASSUME ClockStepsBackAssumption == ClockStepsBack \in BOOLEAN

VARIABLES
  clock,       \* the wall clock, in seconds since the epoch
  lastSecond,  \* lastTimeInSeconds_ (and lastTimestamp_, its text)
  lastDay,     \* lastTimeInDays_
  counter,     \* counter_
  pc,          \* where the call that holds mutex_ is; "idle" when it is free
  issued       \* history: the ids returned so far, in the order of the calls

vars == <<clock, lastSecond, lastDay, counter, pc, issued>>

(***************************************************************************)
(* The epoch fields start at 0, and the program starts long after the      *)
(* epoch: any clock reading above 0 is a possible first one.               *)
(***************************************************************************)
Init ==
  /\ clock \in 1..MaxClock
  /\ lastSecond = 0
  /\ lastDay = 0
  /\ counter = 0
  /\ pc = "idle"
  /\ issued = <<>>

Day(second) == second \div SecondsPerDay

\* Variant: the overflow test is off by one.
OverflowOffByOne ==
  /\ pc = "idle"
  /\ pc' = IF counter > MaxCounter + 1 THEN "wait" ELSE "stamp"
  /\ UNCHANGED <<clock, lastSecond, lastDay, counter, issued>>

\* createNextQueryId() takes the mutex and tests the counter.
Enter ==
  /\ pc = "idle"
  /\ pc' = IF counter > MaxCounter THEN "wait" ELSE "stamp"
  /\ UNCHANGED <<clock, lastSecond, lastDay, counter, issued>>

\* Variant: the counter is reset without waiting for the next second.
ResetWithoutWaiting ==
  /\ pc = "wait"
  /\ counter' = 0
  /\ pc' = "stamp"
  /\ UNCHANGED <<clock, lastSecond, lastDay, issued>>

\* The wait loop ends once the clock shows another second than the last id's.
NextSecond ==
  /\ pc = "wait"
  /\ clock # lastSecond
  /\ counter' = 0
  /\ pc' = "stamp"
  /\ UNCHANGED <<clock, lastSecond, lastDay, issued>>

\* The counter the id gets: 0 again when the second changed and the day did.
RolledCounter ==
  IF clock # lastSecond /\ Day(clock) # lastDay THEN 0 ELSE counter

\* Variant: the id is formatted before the timestamp is refreshed.
StaleTimestamp ==
  /\ pc = "stamp"
  /\ lastSecond' = clock
  /\ lastDay' = IF clock # lastSecond THEN Day(clock) ELSE lastDay
  /\ counter' = RolledCounter + 1
  /\ issued' = Append(issued, <<lastSecond, RolledCounter>>)
  /\ pc' = "idle"
  /\ UNCHANGED clock

\* One reading of the clock refreshes the timestamp and the day; the id is
\* formatted, the counter incremented and the mutex released.
Stamp ==
  /\ pc = "stamp"
  /\ lastSecond' = clock
  /\ lastDay' = IF clock # lastSecond THEN Day(clock) ELSE lastDay
  /\ counter' = RolledCounter + 1
  /\ issued' = Append(issued, <<clock, RolledCounter>>)
  /\ pc' = "idle"
  /\ UNCHANGED clock

\* The wall clock moves, up to the bound; backwards only if allowed.
MoveClock ==
  \E now \in 1..MaxClock :
    /\ now # clock
    /\ ClockStepsBack \/ now > clock
    /\ clock' = now
    /\ UNCHANGED <<lastSecond, lastDay, counter, pc, issued>>

Next == Enter \/ NextSecond \/ Stamp \/ MoveClock

Spec == Init /\ [][Next]_vars

-----------------------------------------------------------------------------

TypeOK ==
  /\ clock \in Nat \ {0}
  /\ lastSecond \in Nat
  /\ lastDay \in Nat
  /\ counter \in 0..(MaxCounter + 1)
  /\ pc \in {"idle", "wait", "stamp"}
  /\ issued \in Seq(Nat \X Nat)

\* "Generates unique query IDs" (QueryIdGenerator.h): no two calls return the
\* same id, across day rollovers and counter overflows.
UniqueIds == \A i, j \in DOMAIN issued : i # j => issued[i] # issued[j]

\* The counter of every id fits its five digits ("{:05d}"), so every id has
\* the same length.
FiveDigits == \A i \in DOMAIN issued : issued[i][2] <= MaxCounter

Before(id1, id2) ==
  id1[1] < id2[1] \/ (id1[1] = id2[1] /\ id1[2] < id2[2])

\* Ids sort in the order they were generated: the seconds never go back and
\* within a second the counter grows, in spite of its resets.
IdsInOrder == \A i, j \in DOMAIN issued : i < j => Before(issued[i], issued[j])
=============================================================================

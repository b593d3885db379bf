---------------------------- MODULE RunnerContract ----------------------------
(***************************************************************************)
(* What Runner::execute promises its caller (axiom/runner/Runner.h): the   *)
(* consumer's view of one execution, without stages, tasks or threads.     *)
(***************************************************************************)
VARIABLES
  phase,       \* "fresh", "pulling", "between", "closing", "dropped" or "over"
  stopReason,  \* the first stop request: "kNone", "kCaller" or "kDeadline"
  write,       \* how the write was resolved; "none" for a read
  outcome      \* how the execution ended for the consumer

vars == <<phase, stopReason, write, outcome>>

Init ==
  /\ phase = "fresh"
  /\ stopReason = "kNone"
  /\ write \in {"none", "pending"}
  /\ outcome = "none"

\* A pull begins, the first one or a later one.
Pull ==
  /\ phase \in {"fresh", "between"}
  /\ phase' = "pulling"
  /\ UNCHANGED <<stopReason, write, outcome>>

\* A pull returns a batch; that of a write reports a commit.
Deliver ==
  /\ phase = "pulling"
  /\ write \in {"none", "committed"}
  /\ phase' = "between"
  /\ UNCHANGED <<stopReason, write, outcome>>

\* The first stop request is the one that counts; the caller's comes through
\* the token of a pending pull, the deadline's at any time after the first pull.
RequestStop(reason) ==
  /\ stopReason = "kNone"
  /\ phase = "pulling" \/ (reason = "kDeadline" /\ phase = "between")
  /\ stopReason' = reason
  /\ UNCHANGED <<phase, write, outcome>>

\* A write is resolved once, inside a pull.
Resolve(result) ==
  /\ phase = "pulling"
  /\ write = "pending"
  /\ write' = result
  /\ UNCHANGED <<phase, stopReason, outcome>>

\* The terminal pull stops the stream and cleans up.
EndStream ==
  /\ phase = "pulling"
  /\ write # "pending"
  /\ phase' = "closing"
  /\ UNCHANGED <<stopReason, write, outcome>>

\* The consumer drops the stream between two pulls.
Drop ==
  /\ phase = "between"
  /\ phase' = "dropped"
  /\ UNCHANGED <<stopReason, write, outcome>>

\* What the terminal pull may report.
Reportable(result) ==
  /\ result = "drained" => write \in {"none", "committed"}
  /\ result = "cancelled" => stopReason # "kNone"
  /\ result = "deadline" => stopReason = "kDeadline"

\* The cleanup is complete and the outcome reported, once.
Finish(result) ==
  /\ \/ phase = "closing" /\ Reportable(result) /\ result # "abandoned"
     \/ phase \in {"fresh", "dropped"} /\ result = "abandoned"
  /\ phase' = "over"
  /\ outcome' = result
  /\ UNCHANGED <<stopReason, write>>

Next ==
  \/ Pull \/ Deliver \/ EndStream \/ Drop
  \/ \E reason \in {"kCaller", "kDeadline"} : RequestStop(reason)
  \/ \E result \in {"committed", "commitFailed", "aborted"} : Resolve(result)
  \/ \E result \in {"drained", "error", "cancelled", "deadline", "internal",
                    "abandoned"} : Finish(result)

Spec == Init /\ [][Next]_vars
=============================================================================

-------------------------- MODULE LocalRunnerProofs --------------------------
(***************************************************************************)
(* Proofs about LocalRunner, for every number of fragments, tasks and      *)
(* batches, for reads and writes, with and without a deadline, and with    *)
(* any set of failures.                                                    *)
(***************************************************************************)
EXTENDS LocalRunner, TLAPS

\* Where the driver is before execute() has anything to clean up.
Starting == {"enter", "pull", "build", "wire", "adopt", "noCursor"}
Reaping == {"reap", "join", "wait", "tear"}

\* The driver's place, who called the reap, what was thrown, and whether a pull
\* is pending or the deadline can still fire.
ControlInv ==
  /\ reaper = "cleanup" => pc \in Reaping \cup {"close", "done"}
  /\ pc \in Reaping => reaper \in {"write", "cleanup"}
  /\ pc = "abort" => reaper = "write"
  /\ pc = "close" => reaper = "cleanup"
  /\ reaper = "write" => thrown # "none" /\ IsWrite
  /\ NumFragments = 0 => IsWrite
  /\ thrown # "none" => pc \in Reaping \cup {"abort", "ended", "left", "cleanup",
                                             "close", "done"}
  /\ finalState # "none" => pc = "cleanup" \/ reaper = "cleanup"
  /\ pending = "yes" <=>
       pc \notin {"new", "yielded", "cleanup", "done"} /\ reaper # "cleanup"
  /\ deadline = "armed" => pc \notin {"new", "cleanup", "done"} /\ reaper # "cleanup"
  /\ pc \in Starting \ {"enter"} => NumFragments > 0
  /\ closed = "yes" => pc = "done" /\ reaper = "cleanup"
  /\ outcome # "none" <=> pc = "done"
  /\ pc = "done" => outcome = Outcome

\* Where a write stands, place by place: it is pending until the commit or, after
\* a failed drain, until the abort; only a durable commit is ever finished.
WriteInv ==
  /\ ~IsWrite => pc \notin {"commit", "committed", "commitFailed", "abort"}
  /\ IsWrite =>
       /\ pc # "finish"
       /\ pc \in Starting \cup {"new", "commit", "abort"} => write = "pending"
       /\ pc \in Reaping /\ reaper = "write" => write = "pending"
       /\ write = "pending" =>
            \/ pc \in Starting \cup {"new", "commit", "abort"}
            \/ pc \in Reaping /\ reaper = "write"
            \/ pc = "done" /\ closed = "no"
       /\ pc \in {"committed", "yielding", "yielded"} => write = "committed"
       /\ state = "kFinished" \/ finalState = "kFinished" => write = "committed"

\* The output was read to its end wherever the end of the stream, or a finished
\* state, is recorded.
EndInv ==
  NumFragments > 0 =>
    /\ pc \in {"finish", "commit", "committed", "commitFailed"} => task[Last] = "finished"
    /\ IsWrite /\ pc \in {"yielding", "yielded"} => task[Last] = "finished"
    /\ state = "kFinished" \/ finalState = "kFinished" => task[Last] = "finished"

\* Until the cleanup stops what is left, every trace of a cancellation goes back
\* to a stop request.
StopInv ==
  /\ stopper # "idle" => stopReason # "kNone"
  /\ thrown = "cancelled" => stopReason # "kNone"
  /\ finalState = "kCancelled" => stopReason # "kNone"
  /\ pc = "noCursor" /\ error = "none" => state = "kCancelled"
  /\ reaper # "cleanup" =>
       /\ state = "kCancelled" => stopReason # "kNone"
       /\ \A x \in Threads :
            /\ cancelOp[x] = "cancel" => stopReason # "kNone"
            /\ cancelOp[x] = "lock" /\ error = "none" => stopReason # "kNone"
       /\ NumFragments > 0 /\ thrown = "none" /\ task[Last] = "cancelled" =>
            stopReason # "kNone"

\* The cursor's task and the threads are what the constants make them.
LEMMA FragmentFacts ==
  /\ NumFragments \in Nat
  /\ NumFragments > 0 => Last \in Tasks
  /\ DriverThread \in Threads /\ StopThread \in Threads
  /\ Tasks \subseteq Threads
<1>1. NumFragments > 0 => Last \in Tasks
  BY FragmentsAssumption DEF Last, Tasks, Stages
<1>2. QED
  BY <1>1, FragmentsAssumption DEF Threads

\* A task told to stop, the cursor's too, keeps a task's type.
LEMMA StoppedType ==
  ASSUME TypeOK
  PROVE  CursorDropped \in
           [Tasks -> {"none", "running", "finished", "failed", "cancelled"}]
<1>1. \A t \in Tasks :
        CursorDropped[t] = IF t = Last THEN Stopped(Last, "cancelled") ELSE task[t]
  BY DEF CursorDropped, TypeOK
<1>2. \A t \in Tasks :
        CursorDropped[t] \in {"none", "running", "finished", "failed", "cancelled"}
  BY <1>1 DEF TypeOK, Stopped
<1>3. CursorDropped = [t \in Tasks |-> CursorDropped[t]]
  BY DEF CursorDropped, TypeOK
<1>4. QED
  BY <1>2, <1>3

\* Every step keeps the types.
LEMMA TypeStep == TypeOK /\ [Next]_vars => TypeOK'
<1> SUFFICES ASSUME TypeOK, [Next]_vars PROVE TypeOK'
  OBVIOUS
<1> USE FragmentFacts, FragmentsAssumption, MaxBatchesAssumption
<1> USE DEF TypeOK, callVars, driverVars, runnerVars, stageVars, reapVars, stopVars,
            workVars, cancelVars, resultVars, otherVars
<1>1. CASE Driver
  <2>1. CASE EnterImpl
    BY <2>1 DEF EnterImpl
  <2>2. CASE StartRefused
    BY <2>2 DEF StartRefused, Throw, UnwindTo
  <2>3. CASE EmplaceStage
    BY <2>3 DEF EmplaceStage
  <2>4. CASE Start
    <3>1. task' \in [Tasks -> {"none", "running", "finished", "failed", "cancelled"}]
      BY <2>4 DEF Start
    <3>2. QED
      BY <2>4, <3>1 DEF Start
  <2>5. CASE \E t \in Tasks : CreateTask(t)
    BY <2>5 DEF CreateTask
  <2>6. CASE CreateFails
    BY <2>6, StoppedType DEF CreateFails, Throw, UnwindTo
  <2>7. CASE PushLastStage
    BY <2>7 DEF PushLastStage
  <2>8. CASE WireFails \/ WireEnds \/ AdoptCursor
    BY <2>8 DEF WireFails, WireEnds, AdoptCursor
  <2>9. CASE WireFragment
    <3>1. wired' \in 0..NumFragments
      BY <2>9 DEF WireFragment, MoreToWire
    <3>2. scan' \in [Stages -> {"none", "running", "done", "stopped", "failed"}]
      BY <2>9 DEF WireFragment
    <3>3. QED
      BY <2>9, <3>1, <3>2 DEF WireFragment
  <2>10. CASE SurfaceCause
    BY <2>10, StoppedType DEF SurfaceCause, Throw, UnwindTo
  <2>11. CASE PullThrows \/ PullBatch \/ PullEnd \/ Finish
    BY <2>11 DEF PullThrows, PullBatch, PullEnd, Finish, StateAtEnd,
       Throw, UnwindTo, CursorThrows
  <2>12. CASE Commit \/ CommitFails \/ RecordCommit \/ RecordCommitFailure \/ Yield
    BY <2>12 DEF Commit, CommitFails, RecordCommit, RecordCommitFailure, Yield
  <2>13. CASE LeaveImpl \/ ReadFinalState \/ Cleanup
    BY <2>13, SMTT(60) DEF LeaveImpl, ReadFinalState, Cleanup
  <2>14. CASE ReapBegin \/ ReapJoin \/ ReapWait \/ ReapTimeout
    BY <2>14 DEF ReapBegin, ReapJoin, ReapWait, ReapTimeout, AfterReap
  <2>15. CASE ReapTear
    BY <2>15, StoppedType DEF ReapTear, AfterReap
  <2>16. CASE AbortWrite \/ Close
    BY <2>16, SMTT(60) DEF AbortWrite, Close, Outcome, Rethrown, StopOutcome
  <2>17. QED
    BY <1>1, <2>1, <2>2, <2>3, <2>4, <2>5, <2>6, <2>7, <2>8,
       <2>9, <2>10, <2>11, <2>12, <2>13, <2>14, <2>15, <2>16
    DEF Driver
<1>2. CASE Consumer
  BY <1>2 DEF Consumer, FirstPull, PullAgain, Abandon, DropUnpulled
<1>3. CASE Stop
  BY <1>3 DEF Stop, RequestStop, MayStop, TripToken
<1>4. CASE Work
  BY <1>4 DEF Work, TaskFinishes, TaskFails, ScanEnds
<1>5. CASE Cancel
  <2>1. PICK x \in Threads : CancelStep(x)
    BY <1>5 DEF Cancel
  <2>2. CASE ReportError(x)
    BY <2>2 DEF ReportError
  <2>3. CASE CancelLock(x)
    BY <2>3 DEF CancelLock, StateAfterCancel, TasksToCancel
  <2>4. CASE CancelApply(x)
    <3>1. task' \in [Tasks -> {"none", "running", "finished", "failed", "cancelled"}]
      BY <2>4 DEF CancelApply, Stopped
    <3>2. QED
      BY <2>4, <3>1 DEF CancelApply
  <2>5. QED
    BY <2>1, <2>2, <2>3, <2>4 DEF CancelStep
<1>6. CASE UNCHANGED vars
  BY <1>6 DEF vars
<1>7. QED
  BY <1>1, <1>2, <1>3, <1>4, <1>5, <1>6 DEF Next

\* The driver keeps to its order: drain, reap, abort, read the state, clean up,
\* close.
LEMMA ControlStep == TypeOK /\ ControlInv /\ [Next]_vars => ControlInv'
<1> SUFFICES ASSUME TypeOK, ControlInv, [Next]_vars PROVE ControlInv'
  OBVIOUS
<1> USE FragmentFacts, FlagsAssumption
<1> USE DEF TypeOK, ControlInv, IsWrite, Starting, Reaping, At, Outcome, Rethrown, StopOutcome,
            callVars, driverVars, runnerVars, stageVars, reapVars, stopVars, workVars,
            cancelVars, resultVars, otherVars
<1>1. CASE Driver
  <2>1. CASE EnterImpl \/ StartRefused \/ Start \/ EmplaceStage
             \/ (\E t \in Tasks : CreateTask(t)) \/ CreateFails \/ PushLastStage
    BY <2>1 DEF EnterImpl, StartRefused, Start, EmplaceStage, CreateTask, CreateFails,
       PushLastStage, Throw, UnwindTo
  <2>2. CASE WireFragment \/ WireFails \/ WireEnds \/ AdoptCursor \/ SurfaceCause
             \/ PullThrows \/ PullBatch \/ PullEnd \/ Finish
    BY <2>2 DEF WireFragment, WireFails, WireEnds, AdoptCursor, SurfaceCause, PullThrows,
       PullBatch, PullEnd, Finish, Throw, UnwindTo
  <2>3. CASE Commit \/ CommitFails \/ RecordCommit \/ RecordCommitFailure \/ Yield
             \/ LeaveImpl \/ ReadFinalState \/ Cleanup
    BY <2>3 DEF Commit, CommitFails, RecordCommit, RecordCommitFailure, Yield, LeaveImpl,
       ReadFinalState, Cleanup
  <2>4. CASE ReapBegin \/ ReapJoin \/ ReapWait \/ ReapTimeout \/ ReapTear \/ AbortWrite
             \/ Close
    BY <2>4 DEF ReapBegin, ReapJoin, ReapWait, ReapTimeout, ReapTear, AbortWrite, Close,
       AfterReap
  <2>5. QED
    BY <1>1, <2>1, <2>2, <2>3, <2>4 DEF Driver
<1>2. CASE Consumer
  BY <1>2 DEF Consumer, FirstPull, PullAgain, Abandon, DropUnpulled
<1>3. CASE Stop
  BY <1>3 DEF Stop, RequestStop, MayStop, TripToken
<1>4. CASE Work
  BY <1>4 DEF Work, TaskFinishes, TaskFails, ScanEnds
<1>5. CASE Cancel
  BY <1>5 DEF Cancel, CancelStep, ReportError, CancelLock, CancelApply
<1>6. CASE UNCHANGED vars
  BY <1>6 DEF vars
<1>7. QED
  BY <1>1, <1>2, <1>3, <1>4, <1>5, <1>6 DEF Next

\* A write is resolved at its commit or its abort and nowhere else.
LEMMA WriteStep == TypeOK /\ ControlInv /\ WriteInv /\ [Next]_vars => WriteInv'
<1> SUFFICES ASSUME TypeOK, ControlInv, WriteInv, [Next]_vars PROVE WriteInv'
  OBVIOUS
<1> USE FragmentFacts, FlagsAssumption
<1> USE DEF TypeOK, ControlInv, IsWrite, WriteInv, Starting, Reaping, At,
            callVars, driverVars, runnerVars, stageVars, reapVars, stopVars, workVars,
            cancelVars, resultVars, otherVars
<1>1. CASE Driver
  BY <1>1 DEF Driver, EnterImpl, StartRefused, Start, EmplaceStage, CreateTask,
     CreateFails, PushLastStage, WireFragment, WireFails, WireEnds, AdoptCursor,
     SurfaceCause, PullThrows, PullBatch, PullEnd, Finish, Commit, CommitFails,
     RecordCommit, RecordCommitFailure, Yield, LeaveImpl, ReadFinalState, Cleanup,
     ReapBegin, ReapJoin, ReapWait, ReapTimeout, ReapTear, AbortWrite, Close,
     Throw, UnwindTo, AfterReap, StateAtEnd
<1>2. CASE Consumer
  BY <1>2 DEF Consumer, FirstPull, PullAgain, Abandon, DropUnpulled
<1>3. CASE Stop
  BY <1>3 DEF Stop, RequestStop, MayStop, TripToken
<1>4. CASE Work
  BY <1>4 DEF Work, TaskFinishes, TaskFails, ScanEnds
<1>5. CASE Cancel
  BY <1>5 DEF Cancel, CancelStep, ReportError, CancelLock, CancelApply, StateAfterCancel
<1>6. CASE UNCHANGED vars
  BY <1>6 DEF vars
<1>7. QED
  BY <1>1, <1>2, <1>3, <1>4, <1>5, <1>6 DEF Next

\* The task of a cursor that read its output to the end never runs again: a
\* cancel, an error or a dropped cursor leaves a finished task alone.
LEMMA FinishedTaskStays ==
  ASSUME TypeOK, NumFragments > 0, task[Last] = "finished", [Next]_vars, ~Start
  PROVE  task'[Last] = "finished"
<1> USE FragmentFacts
<1> USE DEF TypeOK, callVars, driverVars, runnerVars, stageVars, reapVars, stopVars,
            workVars, cancelVars, resultVars, otherVars
<1>1. CASE Driver
  <2>1. CursorDropped[Last] = "finished"
    BY DEF CursorDropped, Stopped
  <2>2. CASE \E t \in Tasks : CreateTask(t)
    BY <2>2 DEF CreateTask, NextTask
  <2>3. CASE CreateFails \/ SurfaceCause \/ ReapTear
    BY <2>1, <2>3 DEF CreateFails, SurfaceCause, ReapTear
  <2>4. QED
    BY <1>1, <2>2, <2>3 DEF Driver, EnterImpl, StartRefused, EmplaceStage,
       PushLastStage, WireFragment, WireFails, WireEnds, AdoptCursor, PullThrows,
       PullBatch, PullEnd, Finish, Commit, CommitFails, RecordCommit,
       RecordCommitFailure, Yield, LeaveImpl, ReadFinalState, Cleanup, ReapBegin,
       ReapJoin, ReapWait, ReapTimeout, AbortWrite, Close
<1>2. CASE Consumer
  BY <1>2 DEF Consumer, FirstPull, PullAgain, Abandon, DropUnpulled
<1>3. CASE Stop
  BY <1>3 DEF Stop, RequestStop, TripToken
<1>4. CASE Work
  BY <1>4 DEF Work, TaskFinishes, TaskFails, ScanEnds, AtWork
<1>5. CASE Cancel
  <2>1. PICK x \in Threads : CancelStep(x)
    BY <1>5 DEF Cancel
  <2>2. CASE CancelApply(x)
    BY <2>2 DEF CancelApply, Stopped
  <2>3. QED
    BY <2>1, <2>2 DEF CancelStep, ReportError, CancelLock
<1>6. CASE UNCHANGED vars
  BY <1>6 DEF vars
<1>7. QED
  BY <1>1, <1>2, <1>3, <1>4, <1>5, <1>6 DEF Next

\* A finished state is recorded only after the cursor's task has finished.
LEMMA EndStep == TypeOK /\ ControlInv /\ WriteInv /\ EndInv /\ [Next]_vars => EndInv'
<1> SUFFICES ASSUME TypeOK, ControlInv, WriteInv, EndInv, [Next]_vars, NumFragments > 0
             PROVE  EndInv'
  BY DEF EndInv
<1> USE DEF TypeOK, ControlInv, IsWrite, EndInv, Starting, Reaping, At,
            callVars, driverVars, runnerVars, stageVars, reapVars, stopVars, workVars,
            cancelVars, resultVars, otherVars
<1>1. CASE Start
  BY <1>1 DEF Start
<1>2. CASE ~Start
  <2>1. task[Last] = "finished" => task'[Last] = "finished"
    BY <1>2, FinishedTaskStays
  <2>2. CASE Driver
    BY <1>2, <2>1, <2>2 DEF Driver, EnterImpl, StartRefused, EmplaceStage, CreateTask,
       CreateFails, PushLastStage, WireFragment, WireFails, WireEnds, AdoptCursor,
       SurfaceCause, PullThrows, PullBatch, PullEnd, Finish, Commit, CommitFails,
       RecordCommit, RecordCommitFailure, Yield, LeaveImpl, ReadFinalState, Cleanup,
       ReapBegin, ReapJoin, ReapWait, ReapTimeout, ReapTear, AbortWrite, Close,
       Throw, UnwindTo, AfterReap, StateAtEnd, EndOfOutput
  <2>3. CASE Consumer
    BY <2>1, <2>3 DEF Consumer, FirstPull, PullAgain, Abandon, DropUnpulled
  <2>4. CASE Stop
    BY <2>1, <2>4 DEF Stop, RequestStop, TripToken
  <2>5. CASE Work
    BY <2>1, <2>5 DEF Work, TaskFinishes, TaskFails, ScanEnds
  <2>6. CASE Cancel
    BY <2>1, <2>6 DEF Cancel, CancelStep, ReportError, CancelLock, CancelApply,
       StateAfterCancel
  <2>7. CASE UNCHANGED vars
    BY <2>7 DEF vars
  <2>8. QED
    BY <2>2, <2>3, <2>4, <2>5, <2>6, <2>7 DEF Next
<1>3. QED
  BY <1>1, <1>2

\* An error is never taken for a cancellation: a thread in cancelTasks() without
\* a recorded error got there through a stop request.
LEMMA StopStep == TypeOK /\ ControlInv /\ StopInv /\ [Next]_vars => StopInv'
<1> SUFFICES ASSUME TypeOK, ControlInv, StopInv, [Next]_vars PROVE StopInv'
  OBVIOUS
<1> USE FragmentFacts, FlagsAssumption
<1> USE DEF TypeOK, ControlInv, IsWrite, StopInv, Starting, Reaping, At,
            callVars, driverVars, runnerVars, stageVars, reapVars, stopVars, workVars,
            cancelVars, resultVars, otherVars
<1>1. CASE Driver
  BY <1>1 DEF Driver, EnterImpl, StartRefused, Start, EmplaceStage, CreateTask,
     CreateFails, PushLastStage, WireFragment, WireFails, WireEnds, AdoptCursor,
     SurfaceCause, PullThrows, PullBatch, PullEnd, Finish, Commit, CommitFails,
     RecordCommit, RecordCommitFailure, Yield, LeaveImpl, ReadFinalState, Cleanup,
     ReapBegin, ReapJoin, ReapWait, ReapTimeout, ReapTear, AbortWrite, Close,
     Throw, UnwindTo, AfterReap, StateAtEnd, MayAdopt, CursorThrows
<1>2. CASE Consumer
  BY <1>2 DEF Consumer, FirstPull, PullAgain, Abandon, DropUnpulled
<1>3. CASE Stop
  BY <1>3 DEF Stop, RequestStop, MayStop, TripToken
<1>4. CASE Work
  BY <1>4 DEF Work, TaskFinishes, TaskFails, ScanEnds
<1>5. CASE Cancel
  BY <1>5 DEF Cancel, CancelStep, ReportError, CancelLock, CancelApply,
     StateAfterCancel, Stopped
<1>6. CASE UNCHANGED vars
  BY <1>6 DEF vars
<1>7. QED
  BY <1>1, <1>2, <1>3, <1>4, <1>5, <1>6 DEF Next

\* The inductive invariant.
IInv == TypeOK /\ ControlInv /\ WriteInv /\ EndInv /\ StopInv

\* The inductive invariant holds before the first pull ...
LEMMA InitIInv == Init => IInv
<1> SUFFICES ASSUME Init PROVE IInv
  OBVIOUS
<1>1. TypeOK
  BY FragmentsAssumption, MaxBatchesAssumption, FlagsAssumption DEF Init, TypeOK
<1>2. ControlInv /\ WriteInv /\ EndInv
  BY FlagsAssumption DEF Init, ControlInv, WriteInv, EndInv, Starting, Reaping, IsWrite
<1>3. StopInv
  BY FragmentFacts DEF Init, StopInv
<1>4. QED
  BY <1>1, <1>2, <1>3 DEF IInv

\* ... and every step keeps it.
LEMMA Inductive == IInv /\ [Next]_vars => IInv'
  BY TypeStep, ControlStep, WriteStep, EndStep, StopStep DEF IInv

\* The variables of the runner always have their types.
THEOREM TypeCorrect == Spec => []TypeOK
<1>1. IInv => TypeOK
  BY DEF IInv
<1>2. QED
  BY <1>1, InitIInv, Inductive, PTL DEF Spec

\* A stream that ends without an exception was read to the end of a task that
\* finished by itself, whatever fails or is cancelled meanwhile.
THEOREM DrainedIsComplete == Spec => []NoSilentTruncation
<1>1. IInv => NoSilentTruncation
  BY DEF IInv, ControlInv, EndInv, NoSilentTruncation, Outcome, Rethrown, StopOutcome,
         TypeOK
<1>2. QED
  BY <1>1, InitIInv, Inductive, PTL DEF Spec

\* A cancellation is reported only to a caller that asked for one or whose
\* deadline passed; failures are never turned into cancellations.
THEOREM CancellationsAreAskedFor == Spec => []NoSpontaneousCancel
<1>1. IInv => NoSpontaneousCancel
  BY DEF IInv, ControlInv, StopInv, NoSpontaneousCancel, Outcome, Rethrown, StopOutcome,
         TypeOK
<1>2. QED
  BY <1>1, InitIInv, Inductive, PTL DEF Spec

\* Every write that was started is committed, failed in its commit or aborted
\* when the execution is over, and reported as done only when committed.
THEOREM WritesAreResolved == Spec => []WriteIsResolved
<1>1. IInv => WriteIsResolved
  BY DEF IInv, ControlInv, WriteInv, WriteIsResolved, Outcome, Rethrown, StopOutcome,
         TypeOK, Starting, Reaping, IsWrite
<1>2. QED
  BY <1>1, InitIInv, Inductive, PTL DEF Spec

\* A fresh execution is a fresh one to the consumer.
LEMMA ContractInit == Init => Contract!Init
  BY FlagsAssumption DEF Init, Contract!Init, Phase

\* Seven kinds of step are visible to the consumer; the others change nothing of
\* what it sees.
LEMMA ContractStep == IInv /\ [Next]_vars => [Contract!Next]_(Contract!vars)
<1> SUFFICES ASSUME IInv, [Next]_vars
             PROVE  Contract!Next \/ UNCHANGED Contract!vars
  OBVIOUS
<1> USE FlagsAssumption
<1> USE DEF IInv, TypeOK, ControlInv, IsWrite, WriteInv, Starting, Reaping, At, Phase,
            callVars, driverVars, runnerVars, stageVars, reapVars, stopVars, workVars,
            cancelVars, resultVars, otherVars
<1>1. CASE FirstPull \/ PullAgain
  BY <1>1 DEF FirstPull, PullAgain, Contract!Next, Contract!Pull
<1>2. CASE Yield
  BY <1>2 DEF Yield, Contract!Next, Contract!Deliver
<1>3. CASE Abandon
  BY <1>3 DEF Abandon, Contract!Next, Contract!Drop
<1>4. CASE DropUnpulled
  BY <1>4 DEF DropUnpulled, Contract!Next, Contract!Finish
<1>5. CASE ReadFinalState
  BY <1>5 DEF ReadFinalState, Contract!Next, Contract!EndStream
<1>6. CASE Commit \/ CommitFails \/ AbortWrite
  BY <1>6 DEF Commit, CommitFails, AbortWrite, Contract!Next, Contract!Resolve
<1>7. CASE Close
  <2>1. Contract!Finish(Outcome)
    BY <1>7 DEF Close, Contract!Finish, Contract!Reportable, Outcome, Rethrown,
       StopOutcome, StopInv
  <2>2. QED
    BY <2>1 DEF Contract!Next, Outcome, Rethrown, StopOutcome
<1>8. CASE \E reason \in {"kCaller", "kDeadline"} : RequestStop(reason)
  BY <1>8 DEF RequestStop, MayStop, Contract!Next, Contract!RequestStop
<1>9. CASE Driver /\ ~(Yield \/ ReadFinalState \/ Commit \/ CommitFails \/ AbortWrite
                      \/ Close)
  BY <1>9 DEF Driver, Contract!vars, EnterImpl, StartRefused, Start, EmplaceStage,
     CreateTask, CreateFails, PushLastStage, WireFragment, WireFails, WireEnds,
     AdoptCursor, SurfaceCause, PullThrows, PullBatch, PullEnd, Finish, RecordCommit,
     RecordCommitFailure, LeaveImpl, Cleanup, ReapBegin, ReapJoin, ReapWait,
     ReapTimeout, ReapTear, Throw, UnwindTo, AfterReap
<1>10. CASE TripToken \/ Work \/ Cancel \/ UNCHANGED vars
  BY <1>10 DEF TripToken, Work, TaskFinishes, TaskFails, ScanEnds, Cancel, CancelStep,
     ReportError, CancelLock, CancelApply, vars, Contract!vars
<1>11. QED
  BY <1>1, <1>2, <1>3, <1>4, <1>5, <1>6, <1>7, <1>8, <1>9, <1>10
  DEF Next, Consumer, Stop

\* Runner::execute() keeps its contract: every step of the runner is a step the
\* consumer's view allows, or invisible to it.
THEOREM RunnerImplementsContract == Spec => ImplementsContract
<1>1. QED
  BY ContractInit, ContractStep, InitIInv, Inductive, PTL
  DEF Spec, ImplementsContract, Contract!Spec

(***************************************************************************)
(* Results that depend on which failures may happen: what a cancel or an   *)
(* error reaches, what the reap leaves, and which outcome is reported.     *)
(* Each result names the failures that it excludes; where one is excluded, *)
(* a violation of the property is known.                                   *)
(***************************************************************************)

-----------------------------------------------------------------------------
(* Threads inside onError() and cancelTasks().                             *)

\* A thread other than the driver enters onError() or cancelTasks() once, when
\* its task or its split coroutine has failed or its stop request was tripped:
\* no call is overwritten by another one of the same thread.
ThreadInv ==
  /\ \A t \in Tasks : cancelOp[t] # "none" => task[t] = "failed" /\ t # Last
  /\ \A f \in Stages : cancelOp[ScanThread(f)] # "none" => scan[f] = "failed"
  /\ \A f \in Stages : scan[f] # "none" => f <= wired
  /\ cancelOp[StopThread] # "none" => stopper = "tripped"

\* All the tasks held by stages_ have stopped, or somebody is about to stop
\* those that have not.
Reached ==
  \/ \A t \in staged : task[t] # "running"
  \/ \E x \in Threads :
       \/ cancelOp[x] = "lock"
       \/ /\ cancelOp[x] \in {"fail", "cancel"}
          /\ \A t \in staged \ snap[x] : task[t] # "running"

\* Why a cancel reaches every task: from the end of the start on, a recorded
\* cancel or error has a thread at work on all of them, or has stopped them.
ReachInv ==
  state \in {"kCancelled", "kError"} /\ write # "commitFailed"
  /\ pc \notin {"build", "wire", "adopt"} => Reached

\* The driver records the failure of a commit right after it.
CommitInv == pc = "commitFailed" => write = "commitFailed"

-----------------------------------------------------------------------------
(* The stages and the reap.                                                *)

\* stages_ holds every task that was created but the cursor's, which joins them
\* at the end of makeStages() and stops when the start fails before that.
StagedInv ==
  /\ pc \in {"new", "enter"} => cursor = "none"
  /\ pc \in {"finish", "yielding", "yielded"} /\ ~IsWrite => cursor = "set"
  /\ pc \in {"new", "enter"} \/ (pc = "pull" /\ cursor = "none") => numStages = 0
  /\ pc \in Starting \cup {"new", "yielding", "yielded", "finish", "commit", "committed"} =>
       finalStats = "none"
  /\ pc \in Reaping /\ reaper = "write" => finalStats = "none"
  /\ pc = "build" => numStages < NumFragments
  /\ finalStats = "none" =>
       /\ \A t \in Tasks : task[t] # "none" => t \in staged \/ t = Last
       /\ \A t \in Tasks : task[t] = "running" => t \in staged \/ pc = "build"

\* Unless the creation of a task fails, no stage but the one being built is empty.
StageInv ==
  finalStats = "none" =>
    \A f \in 1..numStages : <<f, 1>> \in staged \/ (pc = "build" /\ f = numStages)

\* Without a failed split coroutine the join does not throw, ...
ScanInv == \A f \in Stages : scan[f] # "failed"

\* ... so that a reap ends with its teardown.
StatsInv == reaper = "cleanup" /\ pc \in {"close", "done"} => finalStats = "set"

\* The reap of a failed write ends with all tasks stopped.
QuietInv ==
  pc \in {"tear", "abort"} /\ reaper = "write" => \A t \in Tasks : task[t] # "running"

-----------------------------------------------------------------------------
(* The outcome.                                                            *)

\* Without errors from tasks and split coroutines an error is that of the start
\* or of the commit, and is thrown.
ErrorInv ==
  /\ \A x \in Threads : cancelOp[x] = "report" => x = DriverThread /\ pc = "adopt"
  /\ state = "kError" => error = "set"
  /\ error = "set" => pc \in {"adopt", "noCursor"} \/ thrown = "error"
  /\ state = "kInitialized" =>
       /\ cursor = "none" /\ error = "none"
       /\ \A x \in Threads : cancelOp[x] \notin {"fail", "cancel"}

\* So the end of the stream finds the state finished or cancelled, and a
\* committed write finds it finished.
FinishInv ==
  /\ state = "kFinished" => pc \notin Starting \cup {"new", "finish", "commit", "commitFailed"}
  /\ pc \in {"finish", "yielding", "yielded"} /\ ~IsWrite =>
       cursor = "set" /\ state # "kFinished"
  /\ thrown = "none" =>
       /\ pc \in {"ended", "left"} => state \in {"kFinished", "kCancelled"}
       /\ finalState # "none" => finalState \in {"kFinished", "kCancelled"}
  /\ write = "committed" =>
       /\ thrown = "none"
       /\ pc # "committed" => state = "kFinished"
       /\ finalState # "none" => finalState = "kFinished"

\* An OperationCancelled that is thrown comes with the state kCancelled.
CancelledInv ==
  /\ thrown = "cancelled" /\ finalState # "none" => finalState = "kCancelled"
  /\ reaper # "cleanup" =>
       /\ thrown = "cancelled" => state = "kCancelled"
       /\ NumFragments > 0 =>
            /\ task[Last] = "cancelled" /\ thrown = "none" =>
                 state = "kCancelled" \/ error = "set"
            /\ \A x \in Threads : cancelOp[x] = "cancel" =>
                 state = "kCancelled" \/ error = "set" \/ task[Last] = "finished"

-----------------------------------------------------------------------------
(* Lemmas.                                                                 *)

\* The threads of the driver, the stop request, the tasks and the split
\* coroutines are told apart.
LEMMA ThreadFacts ==
  /\ DriverThread \in Threads /\ StopThread \in Threads /\ DriverThread # StopThread
  /\ \A t \in Tasks : t \in Threads /\ t # DriverThread /\ t # StopThread
  /\ \A f \in Stages : /\ ScanThread(f) \in Threads /\ ScanThread(f) \notin Tasks
                       /\ ScanThread(f) # DriverThread /\ ScanThread(f) # StopThread
                       /\ \A g \in Stages : ScanThread(f) = ScanThread(g) => f = g
<1>1. \A t \in Tasks : \E f \in Stages : \E i \in 1..NumTasks[f] : t = <<f, i>>
  BY DEF Tasks
<1>2. \A f \in Stages : f \in Nat \ {0} /\ NumTasks[f] \in Nat \ {0}
  BY FragmentsAssumption DEF Stages
<1>3. \A t \in Tasks : t # DriverThread /\ t # StopThread
  BY <1>1, <1>2 DEF DriverThread, StopThread
<1>4. \A f \in Stages : ScanThread(f) \notin Tasks
  BY <1>1, <1>2 DEF ScanThread
<1>5. \A f \in Stages : /\ ScanThread(f) # DriverThread /\ ScanThread(f) # StopThread
                        /\ \A g \in Stages : ScanThread(f) = ScanThread(g) => f = g
  BY <1>2 DEF ScanThread, DriverThread, StopThread
<1>6. DriverThread # StopThread
  BY DEF DriverThread, StopThread
<1>7. QED
  BY <1>3, <1>4, <1>5, <1>6 DEF Threads

\* The first task of every stage exists, and only the last stage's is the cursor's.
LEMMA FirstTask ==
  /\ \A f \in Stages : <<f, 1>> \in Tasks /\ (<<f, 1>> = Last <=> f = NumFragments)
  /\ \A t \in Tasks : t[1] \in Stages /\ (t[1] = NumFragments => t = Last)
<1>1. \A f \in Stages : f \in Nat \ {0} /\ NumTasks[f] \in Nat \ {0}
  BY FragmentsAssumption DEF Stages
<1>2. \A t \in Tasks : \E f \in Stages : \E i \in 1..NumTasks[f] : t = <<f, i>>
  BY DEF Tasks
<1>3. \A f \in Stages : <<f, 1>> \in Tasks /\ (<<f, 1>> = Last <=> f = NumFragments)
  BY <1>1 DEF Tasks, Last
<1>4. \A t \in Tasks : t[1] \in Stages /\ (t[1] = NumFragments => t = Last)
  BY <1>1, <1>2, FragmentsAssumption DEF Last, Stages
<1>5. QED
  BY <1>3, <1>4

\* What a step may do to a task: one that has ended stays as it is, and only
\* Start and CreateTask set one running.
LEMMA TaskStep ==
  ASSUME TypeOK, [Next]_vars, NEW t \in Tasks
  PROVE  /\ task'[t] = "running" /\ task[t] # "running" =>
              \/ Start /\ t = Last
              \/ CreateTask(t) /\ task[t] = "none"
         /\ task[t] = "failed" /\ task'[t] # "failed" => Start /\ t = Last
<1> USE FragmentFacts
<1> USE DEF TypeOK, callVars, driverVars, runnerVars, stageVars, reapVars, stopVars,
            workVars, cancelVars, resultVars, otherVars
<1>1. CASE Driver
  <2>1. CursorDropped[t] = IF t = Last /\ task[t] = "running" THEN "cancelled" ELSE task[t]
    BY DEF CursorDropped, Stopped
  <2>2. CASE Start
    BY <2>2 DEF Start
  <2>3. CASE \E u \in Tasks : CreateTask(u)
    <3>1. PICK u \in Tasks : CreateTask(u)
      BY <2>3
    <3>2. task[u] = "none" /\ task' = [task EXCEPT ![u] = "running"]
      BY <3>1 DEF CreateTask, NextTask
    <3>3. CASE u = t
      BY <3>1, <3>2, <3>3
    <3>4. CASE u # t
      BY <3>2, <3>4
    <3>5. QED
      BY <3>3, <3>4
  <2>4. CASE CreateFails \/ SurfaceCause \/ ReapTear
    BY <2>1, <2>4 DEF CreateFails, SurfaceCause, ReapTear
  <2>5. QED
    BY <1>1, <2>2, <2>3, <2>4 DEF Driver, EnterImpl, StartRefused, EmplaceStage,
       PushLastStage, WireFragment, WireFails, WireEnds, AdoptCursor, PullThrows,
       PullBatch, PullEnd, Finish, Commit, CommitFails, RecordCommit,
       RecordCommitFailure, Yield, LeaveImpl, ReadFinalState, Cleanup, ReapBegin,
       ReapJoin, ReapWait, ReapTimeout, AbortWrite, Close
<1>2. CASE Consumer
  BY <1>2 DEF Consumer, FirstPull, PullAgain, Abandon, DropUnpulled
<1>3. CASE Stop
  BY <1>3 DEF Stop, RequestStop, TripToken
<1>4. CASE Work
  BY <1>4 DEF Work, TaskFinishes, TaskFails, ScanEnds, AtWork
<1>5. CASE Cancel
  <2>1. PICK x \in Threads : CancelStep(x)
    BY <1>5 DEF Cancel
  <2>2. CASE CancelApply(x)
    BY <2>2 DEF CancelApply, Stopped
  <2>3. QED
    BY <2>1, <2>2 DEF CancelStep, ReportError, CancelLock
<1>6. CASE UNCHANGED vars
  BY <1>6 DEF vars
<1>7. QED
  BY <1>1, <1>2, <1>3, <1>4, <1>5, <1>6 DEF Next

\* A thread enters onError() and cancelTasks() only as ThreadInv says.
LEMMA ThreadStep == TypeOK /\ StopInv /\ ThreadInv /\ [Next]_vars => ThreadInv'
<1> SUFFICES ASSUME TypeOK, StopInv, ThreadInv, [Next]_vars PROVE ThreadInv'
  OBVIOUS
<1> USE FragmentFacts, ThreadFacts
<1> USE DEF TypeOK, callVars, driverVars, runnerVars, stageVars, reapVars, stopVars,
            workVars, cancelVars, resultVars, otherVars
<1>1. \A t \in Tasks : cancelOp'[t] # "none" => task'[t] = "failed" /\ t # Last
  <2> SUFFICES ASSUME NEW t \in Tasks, cancelOp'[t] # "none"
               PROVE  task'[t] = "failed" /\ t # Last
    OBVIOUS
  <2>1. CASE cancelOp[t] # "none"
    BY <2>1, TaskStep DEF ThreadInv
  <2>2. CASE cancelOp[t] = "none"
    <3>1. TaskFails(t) /\ t # Last
      <4>1. CASE Driver
        BY <2>2, <4>1 DEF Driver, EnterImpl, StartRefused, Start, EmplaceStage,
           CreateTask, CreateFails, PushLastStage, WireFragment, WireFails, WireEnds,
           AdoptCursor, SurfaceCause, PullThrows, PullBatch, PullEnd, Finish, Commit,
           CommitFails, RecordCommit, RecordCommitFailure, Yield, LeaveImpl,
           ReadFinalState, Cleanup, ReapBegin, ReapJoin, ReapWait, ReapTimeout,
           ReapTear, AbortWrite, Close
      <4>2. CASE Consumer \/ Stop \/ UNCHANGED vars
        BY <2>2, <4>2 DEF Consumer, FirstPull, PullAgain, Abandon, DropUnpulled, Stop,
           RequestStop, TripToken, vars
      <4>3. CASE Work
        BY <2>2, <4>3 DEF Work, TaskFinishes, TaskFails, ScanEnds
      <4>4. CASE Cancel
        BY <2>2, <4>4 DEF Cancel, CancelStep, ReportError, CancelLock, CancelApply
      <4>5. QED
        BY <4>1, <4>2, <4>3, <4>4 DEF Next
    <3>2. QED
      BY <3>1 DEF TaskFails
  <2>3. QED
    BY <2>1, <2>2
<1>2. /\ \A f \in Stages : cancelOp'[ScanThread(f)] # "none" => scan'[f] = "failed"
      /\ \A f \in Stages : scan'[f] # "none" => f <= wired'
      /\ cancelOp'[StopThread] # "none" => stopper' = "tripped"
  <2> USE DEF ThreadInv
  <2>1. CASE WireFragment
    BY <2>1, FragmentsAssumption DEF WireFragment, Stages
  <2>2. CASE Driver /\ ~WireFragment
    BY <2>2 DEF Driver, EnterImpl, StartRefused, Start, EmplaceStage, CreateTask,
       CreateFails, PushLastStage, WireFails, WireEnds, AdoptCursor, SurfaceCause,
       PullThrows, PullBatch, PullEnd, Finish, Commit, CommitFails, RecordCommit,
       RecordCommitFailure, Yield, LeaveImpl, ReadFinalState, Cleanup, ReapBegin,
       ReapJoin, ReapWait, ReapTimeout, ReapTear, AbortWrite, Close
  <2>3. CASE Consumer \/ Stop \/ UNCHANGED vars
    <3>1. CASE TripToken
      <4>1. \A f \in Stages : cancelOp'[ScanThread(f)] = cancelOp[ScanThread(f)]
        BY <3>1 DEF TripToken
      <4>2. QED
        BY <3>1, <4>1 DEF TripToken
    <3>2. CASE Consumer
      BY <3>2 DEF Consumer, FirstPull, PullAgain, Abandon, DropUnpulled
    <3>3. CASE \E reason \in {"kCaller", "kDeadline"} : RequestStop(reason)
      <4>1. cancelOp[StopThread] = "none"
        BY <3>3 DEF RequestStop, StopInv
      <4>2. QED
        BY <3>3, <4>1 DEF RequestStop
    <3>4. CASE UNCHANGED vars
      BY <3>4 DEF vars
    <3>5. QED
      BY <2>3, <3>1, <3>2, <3>3, <3>4 DEF Stop
  <2>4. CASE Work
    BY <2>4 DEF Work, TaskFinishes, TaskFails, ScanEnds
  <2>5. CASE Cancel
    BY <2>5 DEF Cancel, CancelStep, ReportError, CancelLock, CancelApply
  <2>6. QED
    BY <2>1, <2>2, <2>3, <2>4, <2>5 DEF Next
<1>3. QED
  BY <1>1, <1>2 DEF ThreadInv

\* Only a failed commit leads to where its failure is recorded.
LEMMA CommitStep == TypeOK /\ CommitInv /\ [Next]_vars => CommitInv'
<1> SUFFICES ASSUME TypeOK, CommitInv, [Next]_vars, pc' = "commitFailed"
             PROVE  write' = "commitFailed"
  BY DEF CommitInv
<1> USE DEF TypeOK, CommitInv, callVars, driverVars, runnerVars, stageVars, reapVars,
            stopVars, workVars, cancelVars, resultVars, otherVars
<1>1. CASE Driver
  BY <1>1 DEF Driver, EnterImpl, StartRefused, Start, EmplaceStage,
     CreateTask, CreateFails, PushLastStage, WireFragment, WireFails, WireEnds,
     AdoptCursor, SurfaceCause, PullThrows, PullBatch, PullEnd, Finish, Commit,
     CommitFails, RecordCommit, RecordCommitFailure, Yield, LeaveImpl, ReadFinalState,
     Cleanup, ReapBegin, ReapJoin, ReapWait, ReapTimeout, ReapTear, AbortWrite, Close,
     Throw, UnwindTo, AfterReap, At
<1>2. CASE Consumer \/ Stop \/ Work \/ Cancel \/ UNCHANGED vars
  BY <1>2 DEF Consumer, FirstPull, PullAgain, Abandon, DropUnpulled, Stop, RequestStop,
     TripToken, Work, TaskFinishes, TaskFails, ScanEnds, Cancel, CancelStep,
     ReportError, CancelLock, CancelApply, vars
<1>3. QED
  BY <1>1, <1>2 DEF Next

-----------------------------------------------------------------------------
(* A cancel or an error reaches every task.                                *)

\* Nobody stops being responsible for the tasks before they have stopped.
LEMMA ReachStep ==
  ASSUME "create" \notin Faults
  PROVE  IInv /\ ThreadInv /\ CommitInv /\ ReachInv /\ [Next]_vars => ReachInv'
<1> SUFFICES ASSUME IInv, ThreadInv, CommitInv, ReachInv, [Next]_vars,
                    state' \in {"kCancelled", "kError"}, write' # "commitFailed",
                    pc' \notin {"build", "wire", "adopt"}
             PROVE  Reached'
  BY DEF ReachInv
<1> USE FragmentFacts, ThreadFacts
<1> USE DEF IInv, TypeOK, callVars, driverVars, runnerVars, stageVars, reapVars, stopVars,
            workVars, cancelVars, resultVars, otherVars
\* A step that adds no task, starts none and interrupts nobody keeps Reached.
<1>1. ASSUME staged' \subseteq staged, ~Start, ~\E t \in Tasks : CreateTask(t),
             \A x \in Threads : cancelOp[x] # "none" =>
               cancelOp'[x] = cancelOp[x] /\ snap'[x] = snap[x],
             Reached
      PROVE  Reached'
  <2>1. \A t \in staged' : t \in staged /\ (task[t] # "running" => task'[t] # "running")
    BY <1>1, TaskStep
  <2>2. QED
    BY <1>1, <2>1 DEF Reached
<1>2. CASE Driver
  <2>1. CASE AdoptCursor
    BY <2>1 DEF AdoptCursor, Reached, MayAdopt, At
  <2>2. CASE Driver /\ ~AdoptCursor /\ ~RecordCommitFailure
    <3>1. Reached
      BY <2>2 DEF ReachInv, Driver, EnterImpl, StartRefused, Start, EmplaceStage,
         CreateTask, CreateFails, PushLastStage, WireFragment, WireFails, WireEnds,
         SurfaceCause, PullThrows, PullBatch, PullEnd, Finish, StateAtEnd, Commit,
         CommitFails, RecordCommit, Yield, LeaveImpl, ReadFinalState, Cleanup,
         ReapBegin, ReapJoin, ReapWait, ReapTimeout, ReapTear, AbortWrite, Close,
         Throw, AfterReap, At, WriteInv
    <3>2. /\ staged' \subseteq staged /\ ~Start /\ ~\E t \in Tasks : CreateTask(t)
          /\ \A x \in Threads : cancelOp[x] # "none" =>
               cancelOp'[x] = cancelOp[x] /\ snap'[x] = snap[x]
      BY <2>2 DEF Driver, EnterImpl, StartRefused, Start, EmplaceStage,
         CreateTask, CreateFails, PushLastStage, WireFragment, WireFails, WireEnds,
         SurfaceCause, PullThrows, PullBatch, PullEnd, Finish, StateAtEnd, Commit,
         CommitFails, RecordCommit, Yield, LeaveImpl, ReadFinalState, Cleanup,
         ReapBegin, ReapJoin, ReapWait, ReapTimeout, ReapTear, AbortWrite, Close,
         Throw, AfterReap, At
    <3>3. QED
      BY <1>1, <3>1, <3>2
  <2>3. CASE RecordCommitFailure
    BY <2>3 DEF RecordCommitFailure, At, CommitInv
  <2>4. QED
    BY <1>2, <2>1, <2>2, <2>3
<1>3. CASE Consumer \/ Stop \/ Work \/ UNCHANGED vars
  <2>1. Reached
    BY <1>3 DEF ReachInv, Consumer, FirstPull, PullAgain, Abandon, DropUnpulled, Stop,
       RequestStop, TripToken, Work, TaskFinishes, TaskFails, ScanEnds, vars, At
  <2>2. staged' = staged /\ snap' = snap /\ ~Start /\ ~\E t \in Tasks : CreateTask(t)
    BY <1>3 DEF Consumer, FirstPull, PullAgain, Abandon, DropUnpulled, Stop,
       RequestStop, TripToken, Work, TaskFinishes, TaskFails, ScanEnds, vars, At, Start,
       CreateTask, AtWork
  <2>3. \A x \in Threads : cancelOp[x] # "none" => cancelOp'[x] = cancelOp[x]
    <3>1. CASE TripToken
      BY <3>1 DEF ThreadInv, TripToken
    <3>2. CASE \E t \in Tasks : TaskFails(t)
      BY <3>2 DEF ThreadInv, TaskFails, AtWork
    <3>3. CASE \E f \in Stages : ScanEnds(f)
      BY <3>3 DEF ThreadInv, ScanEnds
    <3>4. QED
      BY <1>3, <3>1, <3>2, <3>3 DEF Consumer, FirstPull, PullAgain, Abandon,
         DropUnpulled, Stop, RequestStop, Work, TaskFinishes, vars
  <2>4. QED
    BY <1>1, <2>1, <2>2, <2>3
<1>4. CASE Cancel
  <2>1. PICK x \in Threads : CancelStep(x)
    BY <1>4 DEF Cancel
  <2>2. CASE ReportError(x)
    BY <2>2 DEF ReportError, ReachInv, Reached
  <2>3. CASE CancelLock(x)
    <3>1. CASE StaysFinished
      BY <2>3, <3>1 DEF CancelLock, StaysFinished
    <3>2. CASE ~StaysFinished
      <4>1. cancelOp'[x] \in {"fail", "cancel"} /\ snap'[x] = staged /\ staged' = staged
        BY <2>3, <3>2 DEF CancelLock, TasksToCancel
      <4>2. QED
        BY <4>1 DEF Reached
    <3>3. QED
      BY <3>1, <3>2
  <2>4. CASE CancelApply(x)
    <3>1. Reached
      BY <2>4 DEF ReachInv, CancelApply
    <3>2. \A t \in Tasks : task[t] # "running" \/ t \in snap[x] => task'[t] # "running"
      BY <2>4 DEF CancelApply, Stopped
    <3>3. \A y \in Threads : y # x => cancelOp'[y] = cancelOp[y] /\ snap'[y] = snap[y]
      BY <2>4 DEF CancelApply
    <3>4. staged' = staged /\ cancelOp[x] # "lock"
      BY <2>4 DEF CancelApply
    <3>5. QED
      BY <3>1, <3>2, <3>3, <3>4 DEF Reached
  <2>5. QED
    BY <2>1, <2>2, <2>3, <2>4 DEF CancelStep
<1>5. QED
  BY <1>2, <1>3, <1>4 DEF Next

\* A cancel or an error that lands at any point of an execution, also while the
\* stages are being built, stops every task that stages_ holds, unless the
\* creation of a task throws.
THEOREM CancelsReachEveryTask ==
  ASSUME "create" \notin Faults
  PROVE  Spec => []CancelReachesEveryTask
<1> DEFINE Inv == IInv /\ ThreadInv /\ CommitInv /\ ReachInv
<1>1. Init => Inv
  <2>1. Init => ThreadInv
    BY ThreadFacts DEF Init, ThreadInv
  <2>2. Init => CommitInv /\ ReachInv
    BY DEF Init, CommitInv, ReachInv
  <2>3. QED
    BY <2>1, <2>2, InitIInv
<1>2. Inv /\ [Next]_vars => Inv'
  BY Inductive, ThreadStep, CommitStep, ReachStep DEF IInv
<1>3. Inv => CancelReachesEveryTask
  BY DEF ReachInv, Reached, CancelReachesEveryTask, NoCancelInFlight
<1>4. QED
  BY <1>1, <1>2, <1>3, PTL DEF Spec

-----------------------------------------------------------------------------
(* The stages and the reap.                                                *)

\* Nothing but the teardown of the reap takes a task out of its stage, and a
\* cursor that goes away before it joins them cancels its task.
LEMMA StagedStep == IInv /\ StagedInv /\ [Next]_vars => StagedInv'
<1> SUFFICES ASSUME IInv, StagedInv, [Next]_vars PROVE StagedInv'
  OBVIOUS
<1> USE FragmentFacts
<1> USE DEF IInv, TypeOK, IsWrite, Starting, Reaping, At, callVars, driverVars, runnerVars,
            stageVars, reapVars, stopVars, workVars, cancelVars, resultVars, otherVars
<1>1. CASE Start
  <2>1. /\ pc' = "build" /\ numStages' = 0 /\ staged' = staged /\ finalStats' = finalStats
        /\ \A t \in Tasks : t # Last => task'[t] = task[t]
    BY <1>1 DEF Start, StagedInv
  <2>2. NumFragments > 0
    BY <1>1 DEF Start, ControlInv
  <2>3. QED
    BY <1>1, <2>1, <2>2 DEF StagedInv, Start
<1>2. CASE EmplaceStage \/ PushLastStage
  BY <1>2 DEF EmplaceStage, PushLastStage, StagedInv
<1>3. CASE \E t \in Tasks : CreateTask(t)
  <2>1. PICK t \in Tasks : CreateTask(t)
    BY <1>3
  <2>2. /\ pc = "build" /\ pc' = pc /\ UNCHANGED <<numStages, finalStats, cursor, reaper, write>>
        /\ staged' = staged \cup {t} /\ \A u \in Tasks : u # t => task'[u] = task[u]
    BY <2>1 DEF CreateTask
  <2>3. QED
    BY <2>2 DEF StagedInv
<1>4. CASE CreateFails \/ ReapTear \/ SurfaceCause
  <2>1. \A t \in Tasks : CursorDropped[t] # "none" => task[t] # "none"
    BY DEF CursorDropped, Stopped
  <2>2. \A t \in Tasks : CursorDropped[t] = "running" => task[t] = "running" /\ t # Last
    BY DEF CursorDropped, Stopped
  <2>3. CASE CreateFails
    BY <2>1, <2>2, <2>3 DEF CreateFails, StagedInv, Throw, UnwindTo, ControlInv
  <2>4. CASE ReapTear
    BY <2>1, <2>2, <2>4 DEF ReapTear, StagedInv, AfterReap, ControlInv
  <2>5. CASE SurfaceCause
    BY <2>1, <2>2, <2>5 DEF SurfaceCause, StagedInv, Throw, UnwindTo
  <2>6. QED
    BY <1>4, <2>3, <2>4, <2>5
<1>5. CASE Driver /\ ~(Start \/ EmplaceStage \/ (\E t \in Tasks : CreateTask(t))
                      \/ PushLastStage \/ CreateFails \/ ReapTear \/ SurfaceCause)
  BY <1>5 DEF StagedInv, ControlInv, WriteInv, Driver, EnterImpl, StartRefused,
     WireFragment, WireFails, WireEnds, AdoptCursor, PullThrows, PullBatch, PullEnd,
     Finish, Commit, CommitFails, RecordCommit, RecordCommitFailure, Yield, LeaveImpl,
     ReadFinalState, Cleanup, ReapBegin, ReapJoin, ReapWait, ReapTimeout, AbortWrite,
     Close, Throw, UnwindTo, AfterReap
<1>6. CASE Consumer
  BY <1>6 DEF StagedInv, Consumer, FirstPull, PullAgain, Abandon, DropUnpulled
<1>7. CASE Stop \/ UNCHANGED vars
  BY <1>7 DEF StagedInv, Stop, RequestStop, TripToken, vars
<1>8. CASE Work \/ Cancel
  <2>1. /\ UNCHANGED <<pc, cursor, numStages, staged, finalStats, reaper, write>>
        /\ \A t \in Tasks : /\ task'[t] # "none" => task[t] # "none"
                            /\ task'[t] = "running" => task[t] = "running"
    <3>1. CASE Work
      BY <3>1 DEF Work, TaskFinishes, TaskFails, ScanEnds, AtWork
    <3>2. CASE Cancel
      BY <3>2 DEF Cancel, CancelStep, ReportError, CancelLock, CancelApply, Stopped
    <3>3. QED
      BY <1>8, <3>1, <3>2
  <2>2. QED
    BY <2>1 DEF StagedInv
<1>9. QED
  BY <1>1, <1>2, <1>3, <1>4, <1>5, <1>6, <1>7, <1>8 DEF Next

\* Before the first pull there is no stage.
LEMMA StageInit == Init => StagedInv /\ StageInv
  BY FragmentsAssumption, FlagsAssumption DEF Init, StagedInv, StageInv, Starting, Reaping

\* makeStages() fills one stage after the other.
LEMMA StageStep ==
  ASSUME "create" \notin Faults
  PROVE  IInv /\ StagedInv /\ StageInv /\ [Next]_vars => StageInv'
<1> SUFFICES ASSUME IInv, StagedInv, StageInv, [Next]_vars PROVE StageInv'
  OBVIOUS
<1> USE FragmentFacts
<1> USE DEF IInv, TypeOK, Starting, Reaping, At, callVars, driverVars, runnerVars,
            stageVars, reapVars, stopVars, workVars, cancelVars, resultVars, otherVars
<1>1. CASE Start
  <2>1. numStages' = 0
    BY <1>1 DEF Start, StagedInv
  <2>2. \A f \in 1..numStages' : FALSE
    BY <2>1
  <2>3. QED
    BY <2>2 DEF StageInv
<1>2. CASE EmplaceStage \/ PushLastStage
  <2>1. finalStats = "none" /\ pc = "build"
    BY <1>2 DEF EmplaceStage, PushLastStage, StagedInv
  <2>2. numStages > 0 => <<numStages, 1>> \in staged
    <3> SUFFICES ASSUME numStages > 0 PROVE <<numStages, 1>> \in staged
      OBVIOUS
    <3>1. StageFull(numStages) /\ numStages \in Stages /\ numStages # NumFragments
      BY <1>2 DEF EmplaceStage, PushLastStage, Stages
    <3>2. <<numStages, 1>> \in Tasks /\ <<numStages, 1>> # Last
      BY <3>1, FirstTask
    <3>3. NumTasks[numStages] \in Nat \ {0}
      BY <3>1, FragmentsAssumption DEF Stages
    <3>4. 1 \in 1..NumTasks[numStages]
      BY <3>3
    <3>5. task[<<numStages, 1>>] # "none"
      BY <3>1, <3>4 DEF StageFull
    <3>6. QED
      BY <2>1, <3>2, <3>5 DEF StagedInv
  <2>3. \A f \in 1..numStages : <<f, 1>> \in staged
    <3> SUFFICES ASSUME NEW f \in 1..numStages PROVE <<f, 1>> \in staged
      OBVIOUS
    <3>1. <<f, 1>> \in staged \/ f = numStages
      BY <2>1 DEF StageInv
    <3>2. f = numStages => numStages > 0
      OBVIOUS
    <3>3. QED
      BY <2>2, <3>1, <3>2
  <2>4. CASE EmplaceStage
    <3>1. pc' = "build" /\ numStages' = numStages + 1 /\ staged' = staged
      BY <2>1, <2>4 DEF EmplaceStage
    <3>2. \A f \in 1..numStages' : f \in 1..numStages \/ f = numStages'
      BY <3>1
    <3>3. QED
      BY <2>3, <3>1, <3>2 DEF StageInv
  <2>5. CASE PushLastStage
    <3>1. /\ numStages' = NumFragments /\ numStages + 1 = NumFragments
          /\ staged' = staged \cup {Last}
      BY <2>5 DEF PushLastStage
    <3>2. \A f \in 1..numStages' : f \in 1..numStages \/ f = NumFragments
      BY <3>1
    <3>3. QED
      BY <2>3, <3>1, <3>2 DEF StageInv, Last
  <2>6. QED
    BY <1>2, <2>4, <2>5
<1>3. CASE Driver /\ ~(Start \/ EmplaceStage \/ PushLastStage)
  <2>1. /\ numStages' = numStages
        /\ finalStats' = "none" => finalStats = "none" /\ staged \subseteq staged'
        /\ pc = "build" => pc' = "build"
    BY <1>3 DEF Driver, EnterImpl, StartRefused, CreateTask, CreateFails, WireFragment,
       WireFails, WireEnds, AdoptCursor, SurfaceCause, PullThrows, PullBatch, PullEnd,
       Finish, Commit, CommitFails, RecordCommit, RecordCommitFailure, Yield, LeaveImpl,
       ReadFinalState, Cleanup, ReapBegin, ReapJoin, ReapWait, ReapTimeout, ReapTear,
       AbortWrite, Close, Throw, UnwindTo, AfterReap
  <2>2. QED
    BY <2>1 DEF StageInv
<1>4. CASE Consumer \/ Stop \/ Work \/ Cancel \/ UNCHANGED vars
  <2>1. UNCHANGED <<numStages, staged, finalStats>> /\ (pc = "build" => pc' = "build")
    BY <1>4 DEF Consumer, FirstPull, PullAgain, Abandon, DropUnpulled, Stop, RequestStop,
       TripToken, Work, TaskFinishes, TaskFails, ScanEnds, Cancel, CancelStep,
       ReportError, CancelLock, CancelApply, vars
  <2>2. QED
    BY <2>1 DEF StageInv
<1>5. QED
  BY <1>1, <1>2, <1>3, <1>4 DEF Next

\* The failure of a split coroutine is the only way for one to fail.
LEMMA ScanStep ==
  ASSUME "split" \notin Faults
  PROVE  TypeOK /\ ScanInv /\ [Next]_vars => ScanInv'
<1> SUFFICES ASSUME TypeOK, ScanInv, [Next]_vars PROVE ScanInv'
  OBVIOUS
<1> USE DEF TypeOK, ScanInv, callVars, driverVars, runnerVars, stageVars, reapVars, stopVars,
            workVars, cancelVars, resultVars, otherVars
<1>1. CASE Driver
  BY <1>1 DEF Driver, EnterImpl, StartRefused, Start, EmplaceStage, CreateTask,
     CreateFails, PushLastStage, WireFragment, WireFails, WireEnds, AdoptCursor,
     SurfaceCause, PullThrows, PullBatch, PullEnd, Finish, Commit, CommitFails,
     RecordCommit, RecordCommitFailure, Yield, LeaveImpl, ReadFinalState, Cleanup,
     ReapBegin, ReapJoin, ReapWait, ReapTimeout, ReapTear, AbortWrite, Close
<1>2. CASE Consumer \/ Stop \/ Work \/ Cancel \/ UNCHANGED vars
  BY <1>2 DEF Consumer, FirstPull, PullAgain, Abandon, DropUnpulled, Stop, RequestStop,
     TripToken, Work, TaskFinishes, TaskFails, ScanEnds, Cancel, CancelStep, ReportError,
     CancelLock, CancelApply, vars
<1>3. QED
  BY <1>1, <1>2 DEF Next

\* A reap whose join does not throw gets to the teardown, which finds a task in
\* every stage.
LEMMA StatsStep ==
  ASSUME "create" \notin Faults, "split" \notin Faults
  PROVE  IInv /\ StageInv /\ ScanInv /\ StatsInv /\ [Next]_vars => StatsInv'
<1> SUFFICES ASSUME IInv, StageInv, ScanInv, StatsInv, [Next]_vars PROVE StatsInv'
  OBVIOUS
<1> USE FragmentFacts
<1> USE DEF IInv, TypeOK, ScanInv, StatsInv, Starting, Reaping, At, callVars, driverVars,
            runnerVars, stageVars, reapVars, stopVars, workVars, cancelVars, resultVars,
            otherVars
<1>1. CASE ReapTear
  <2>1. finalStats = "none" => ~EmptyStage
    <3> SUFFICES ASSUME finalStats = "none", NEW f \in 1..numStages
                 PROVE  \E t \in staged : t[1] = f
      BY DEF EmptyStage
    <3>1. <<f, 1>> \in staged
      BY <1>1 DEF ReapTear, StageInv
    <3>2. QED
      BY <3>1
  <2>2. QED
    BY <1>1, <2>1 DEF ReapTear
<1>2. CASE Driver /\ ~ReapTear
  BY <1>2 DEF ControlInv, Driver, EnterImpl, StartRefused, Start, EmplaceStage,
     CreateTask, CreateFails, PushLastStage, WireFragment, WireFails, WireEnds,
     AdoptCursor, SurfaceCause, PullThrows, PullBatch, PullEnd, Finish, Commit,
     CommitFails, RecordCommit, RecordCommitFailure, Yield, LeaveImpl, ReadFinalState,
     Cleanup, ReapBegin, ReapJoin, ReapWait, ReapTimeout, AbortWrite, Close,
     Throw, UnwindTo, AfterReap
<1>3. CASE Consumer \/ Stop \/ Work \/ Cancel \/ UNCHANGED vars
  BY <1>3 DEF ControlInv, Consumer, FirstPull, PullAgain, Abandon, DropUnpulled, Stop,
     RequestStop, TripToken, Work, TaskFinishes, TaskFails, ScanEnds, Cancel, CancelStep,
     ReportError, CancelLock, CancelApply, vars
<1>4. QED
  BY <1>1, <1>2, <1>3 DEF Next

\* An execution that was closed has its final stats, whatever fails other than
\* the creation of a task and a split coroutine.
THEOREM FinalStatsAreCaptured ==
  ASSUME "create" \notin Faults, "split" \notin Faults
  PROVE  Spec => []FinalStatsCaptured
<1> DEFINE Inv == IInv /\ StagedInv /\ StageInv /\ ScanInv /\ StatsInv
<1>1. Init => Inv
  <2>1. Init => ScanInv /\ StatsInv
    BY DEF Init, ScanInv, StatsInv
  <2>2. QED
    BY <2>1, InitIInv, StageInit
<1>2. Inv /\ [Next]_vars => Inv'
  BY Inductive, StagedStep, StageStep, ScanStep, StatsStep DEF IInv
<1>3. Inv => FinalStatsCaptured
  BY DEF IInv, ControlInv, StatsInv, FinalStatsCaptured
<1>4. QED
  BY <1>1, <1>2, <1>3, PTL DEF Spec

\* A reap whose join does not throw and that does not time out waits for every
\* task that runs.
LEMMA QuietStep ==
  ASSUME "split" \notin Faults, "slow" \notin Faults
  PROVE  IInv /\ StagedInv /\ ScanInv /\ QuietInv /\ [Next]_vars => QuietInv'
<1> SUFFICES ASSUME IInv, StagedInv, ScanInv, QuietInv, [Next]_vars,
                    pc' \in {"tear", "abort"}, reaper' = "write",
                    NEW t \in Tasks, task'[t] = "running"
             PROVE  FALSE
  BY DEF QuietInv
<1> USE DEF IInv, TypeOK, Starting, Reaping, At, callVars, driverVars, runnerVars,
            stageVars, reapVars, stopVars, workVars, cancelVars, resultVars, otherVars
<1>1. task[t] = "running"
  BY TaskStep DEF Start, CreateTask
<1>2. CASE Driver
  BY <1>1, <1>2 DEF QuietInv, StagedInv, ScanInv, ControlInv, Driver, EnterImpl,
     StartRefused, Start, EmplaceStage, CreateTask, CreateFails, PushLastStage,
     WireFragment, WireFails, WireEnds, AdoptCursor, SurfaceCause, PullThrows, PullBatch,
     PullEnd, Finish, Commit, CommitFails, RecordCommit, RecordCommitFailure, Yield,
     LeaveImpl, ReadFinalState, Cleanup, ReapBegin, ReapJoin, ReapWait, TasksStopped,
     ReapTimeout, ReapTear, AbortWrite, Close, Throw, UnwindTo, AfterReap
<1>3. CASE Consumer \/ Stop \/ Work \/ Cancel \/ UNCHANGED vars
  BY <1>1, <1>3 DEF QuietInv, Consumer, FirstPull, PullAgain, Abandon, DropUnpulled, Stop,
     RequestStop, TripToken, Work, TaskFinishes, TaskFails, ScanEnds, Cancel, CancelStep,
     ReportError, CancelLock, CancelApply, vars
<1>4. QED
  BY <1>2, <1>3 DEF Next

\* A failed write is aborted only after every task has stopped, also when the
\* creation of a task failed, unless the join of the split scope threw or the reap
\* ran into its timeout.
THEOREM AbortsAreQuiet ==
  ASSUME "split" \notin Faults, "slow" \notin Faults
  PROVE  Spec => AbortIsQuiet
<1> DEFINE Inv == IInv /\ StagedInv /\ ScanInv /\ QuietInv
<1>1. Init => Inv
  <2>1. Init => ScanInv /\ QuietInv
    BY DEF Init, ScanInv, QuietInv
  <2>2. QED
    BY <2>1, InitIInv, StageInit
<1>2. Inv /\ [Next]_vars => Inv'
  BY Inductive, StagedStep, ScanStep, QuietStep DEF IInv
<1>3. Inv /\ [Next]_vars =>
        [write' = "aborted" => write = "aborted" \/ \A t \in Tasks : task[t] # "running"]_vars
  <2> SUFFICES ASSUME Inv, Next, write' = "aborted", write # "aborted"
               PROVE  \A t \in Tasks : task[t] # "running"
    OBVIOUS
  <2> USE DEF callVars, driverVars, runnerVars, stageVars, reapVars, stopVars, workVars,
              cancelVars, resultVars, otherVars
  <2>1. AbortWrite
    <3>1. CASE Driver
      BY <3>1 DEF Driver, EnterImpl, StartRefused, Start, EmplaceStage, CreateTask,
         CreateFails, PushLastStage, WireFragment, WireFails, WireEnds, AdoptCursor,
         SurfaceCause, PullThrows, PullBatch, PullEnd, Finish, Commit, CommitFails,
         RecordCommit, RecordCommitFailure, Yield, LeaveImpl, ReadFinalState, Cleanup,
         ReapBegin, ReapJoin, ReapWait, ReapTimeout, ReapTear, Close
    <3>2. CASE Consumer \/ Stop \/ Work \/ Cancel
      BY <3>2 DEF Consumer, FirstPull, PullAgain, Abandon, DropUnpulled, Stop, RequestStop,
         TripToken, Work, TaskFinishes, TaskFails, ScanEnds, Cancel, CancelStep,
         ReportError, CancelLock, CancelApply
    <3>3. QED
      BY <3>1, <3>2 DEF Next
  <2>2. QED
    BY <2>1 DEF AbortWrite, At, IInv, ControlInv, QuietInv
<1>4. QED
  BY <1>1, <1>2, <1>3, PTL DEF Spec, AbortIsQuiet

-----------------------------------------------------------------------------
(* The outcome.                                                            *)

\* Without failures of tasks and split coroutines only the driver reports an
\* error, and throws it.
LEMMA ErrorStep ==
  ASSUME "task" \notin Faults, "split" \notin Faults
  PROVE  IInv /\ ErrorInv /\ [Next]_vars => ErrorInv'
<1> SUFFICES ASSUME IInv, ErrorInv, [Next]_vars PROVE ErrorInv'
  OBVIOUS
<1> USE FragmentFacts, ThreadFacts
<1> USE DEF IInv, TypeOK, ControlInv, ErrorInv, Starting, Reaping, At, callVars, driverVars,
            runnerVars, stageVars, reapVars, stopVars, workVars, cancelVars, resultVars,
            otherVars
<1>1. CASE Driver
  BY <1>1 DEF Driver, EnterImpl, StartRefused, Start, EmplaceStage, CreateTask,
     CreateFails, PushLastStage, WireFragment, WireFails, WireEnds, AdoptCursor,
     SurfaceCause, PullThrows, PullBatch, PullEnd, Finish, Commit, CommitFails,
     RecordCommit, RecordCommitFailure, Yield, LeaveImpl, ReadFinalState, Cleanup,
     ReapBegin, ReapJoin, ReapWait, ReapTimeout, ReapTear, AbortWrite, Close,
     Throw, UnwindTo, AfterReap, StateAtEnd, MayAdopt
<1>2. CASE Consumer \/ Stop \/ UNCHANGED vars
  BY <1>2 DEF Consumer, FirstPull, PullAgain, Abandon, DropUnpulled, Stop, RequestStop,
     TripToken, vars
<1>3. CASE Work
  <2>1. UNCHANGED cancelOp
    BY <1>3 DEF Work, TaskFinishes, TaskFails, ScanEnds
  <2>2. QED
    BY <1>3, <2>1 DEF Work, TaskFinishes, TaskFails, ScanEnds
<1>4. CASE Cancel
  <2>1. PICK x \in Threads : CancelStep(x)
    BY <1>4 DEF Cancel
  <2>2. CASE ReportError(x)
    BY <2>2 DEF ReportError
  <2>3. CASE CancelLock(x)
    <3>1. state' # "kInitialized"
      BY <2>3 DEF CancelLock, StateAfterCancel, StaysFinished
    <3>2. QED
      BY <2>3, <3>1 DEF CancelLock, StateAfterCancel
  <2>4. CASE CancelApply(x)
    BY <2>4 DEF CancelApply
  <2>5. QED
    BY <2>1, <2>2, <2>3, <2>4 DEF CancelStep
<1>5. QED
  BY <1>1, <1>2, <1>3, <1>4 DEF Next

\* Then nothing leaves the finished state: a late cancel is turned away and no
\* late error comes.
LEMMA FinishStep ==
  ASSUME "task" \notin Faults, "split" \notin Faults
  PROVE  IInv /\ CommitInv /\ ErrorInv /\ FinishInv /\ [Next]_vars =>
           FinishInv' /\ (state = "kFinished" => state' = "kFinished")
<1> SUFFICES ASSUME IInv, CommitInv, ErrorInv, FinishInv, [Next]_vars
             PROVE  FinishInv' /\ (state = "kFinished" => state' = "kFinished")
  OBVIOUS
<1> USE FragmentFacts, ThreadFacts, FlagsAssumption
<1> USE DEF IInv, TypeOK, ControlInv, WriteInv, CommitInv, ErrorInv, FinishInv, IsWrite,
            Starting, Reaping, At, callVars, driverVars, runnerVars, stageVars, reapVars,
            stopVars, workVars, cancelVars, resultVars, otherVars
<1>1. CASE Driver
  <2>1. CASE EnterImpl \/ StartRefused \/ Start \/ EmplaceStage
             \/ (\E t \in Tasks : CreateTask(t)) \/ CreateFails \/ PushLastStage
             \/ WireFragment \/ WireFails \/ WireEnds \/ AdoptCursor \/ SurfaceCause
    BY <2>1 DEF EnterImpl, StartRefused, Start, EmplaceStage, CreateTask, CreateFails,
       PushLastStage, WireFragment, WireFails, WireEnds, AdoptCursor, SurfaceCause, Throw,
       UnwindTo
  <2>2. CASE PullThrows \/ PullBatch \/ PullEnd \/ Finish
    BY <2>2 DEF PullThrows, PullBatch, PullEnd, Finish, Throw, UnwindTo, StateAtEnd
  <2>3. CASE Commit \/ CommitFails \/ RecordCommit \/ RecordCommitFailure \/ Yield
             \/ LeaveImpl \/ ReadFinalState \/ Cleanup
    BY <2>3 DEF Commit, CommitFails, RecordCommit, RecordCommitFailure, Yield, LeaveImpl,
       ReadFinalState, Cleanup
  <2>4. CASE ReapBegin \/ ReapJoin \/ ReapWait \/ ReapTimeout \/ ReapTear \/ AbortWrite
             \/ Close
    BY <2>4 DEF ReapBegin, ReapJoin, ReapWait, ReapTimeout, ReapTear, AbortWrite, Close,
       AfterReap
  <2>5. QED
    BY <1>1, <2>1, <2>2, <2>3, <2>4 DEF Driver
<1>2. CASE Consumer \/ Stop \/ Work \/ UNCHANGED vars
  BY <1>2 DEF Consumer, FirstPull, PullAgain, Abandon, DropUnpulled, Stop, RequestStop,
     TripToken, Work, TaskFinishes, TaskFails, ScanEnds, vars
<1>3. CASE Cancel
  BY <1>3 DEF Cancel, CancelStep, ReportError, CancelLock, CancelApply, StateAfterCancel,
     StaysFinished
<1>4. QED
  BY <1>1, <1>2, <1>3 DEF Next

\* A task that the cursor finds cancelled was cancelled by a thread that had
\* recorded kCancelled.
LEMMA CancelledStep ==
  ASSUME "task" \notin Faults, "split" \notin Faults
  PROVE  IInv /\ ErrorInv /\ FinishInv /\ CancelledInv /\ [Next]_vars => CancelledInv'
<1> SUFFICES ASSUME IInv, ErrorInv, FinishInv, CancelledInv, [Next]_vars
             PROVE  CancelledInv'
  OBVIOUS
<1> USE FragmentFacts, ThreadFacts
<1> USE DEF IInv, TypeOK, ControlInv, ErrorInv, FinishInv, CancelledInv, Starting, Reaping,
            At, callVars, driverVars, runnerVars, stageVars, reapVars, stopVars, workVars,
            cancelVars, resultVars, otherVars
<1>1. CASE Driver
  <2>1. NumFragments > 0 /\ task[Last] = "finished" /\ ~Start => task'[Last] = "finished"
    BY FinishedTaskStays
  <2>2. CASE EnterImpl \/ StartRefused \/ Start \/ EmplaceStage
             \/ (\E t \in Tasks : CreateTask(t)) \/ CreateFails \/ PushLastStage
             \/ WireFragment \/ WireFails \/ WireEnds \/ AdoptCursor \/ SurfaceCause
    BY <2>1, <2>2 DEF EnterImpl, StartRefused, Start, EmplaceStage, CreateTask, CreateFails,
       PushLastStage, WireFragment, WireFails, WireEnds, AdoptCursor, MayAdopt,
       SurfaceCause, Throw, UnwindTo, StopInv
  <2>3. CASE PullThrows \/ PullBatch \/ PullEnd \/ Finish \/ Commit \/ CommitFails
             \/ RecordCommit \/ RecordCommitFailure \/ Yield \/ LeaveImpl
             \/ ReadFinalState \/ Cleanup
    BY <2>1, <2>3 DEF PullThrows, PullBatch, PullEnd, Finish, Commit, CommitFails,
       RecordCommit, RecordCommitFailure, Yield, LeaveImpl, ReadFinalState, Cleanup,
       Throw, UnwindTo, CursorThrows, StateAtEnd, EndInv
  <2>4. CASE ReapBegin \/ ReapJoin \/ ReapWait \/ ReapTimeout \/ ReapTear \/ AbortWrite
             \/ Close
    BY <2>1, <2>4 DEF ReapBegin, ReapJoin, ReapWait, ReapTimeout, ReapTear, AbortWrite,
       Close, AfterReap, Start
  <2>5. QED
    BY <1>1, <2>2, <2>3, <2>4 DEF Driver
<1>2. CASE Consumer \/ Stop \/ UNCHANGED vars
  BY <1>2 DEF Consumer, FirstPull, PullAgain, Abandon, DropUnpulled, Stop, RequestStop,
     TripToken, vars
<1>3. CASE Work
  <2>1. NumFragments > 0 => /\ task[Last] = "finished" => task'[Last] = "finished"
                            /\ task'[Last] = "cancelled" => task[Last] = "cancelled"
    BY <1>3 DEF Work, TaskFinishes, TaskFails, ScanEnds, AtWork
  <2>2. UNCHANGED cancelOp
    BY <1>3 DEF Work, TaskFinishes, TaskFails, ScanEnds
  <2>3. QED
    BY <1>3, <2>1, <2>2 DEF Work, TaskFinishes, TaskFails, ScanEnds
<1>4. CASE Cancel
  <2>1. PICK x \in Threads : CancelStep(x)
    BY <1>4 DEF Cancel
  <2>2. CASE ReportError(x) \/ CancelLock(x)
    BY <2>2 DEF ReportError, CancelLock, StateAfterCancel, StaysFinished
  <2>3. CASE CancelApply(x)
    <3>1. NumFragments > 0 =>
            /\ task[Last] = "finished" => task'[Last] = "finished"
            /\ task'[Last] = "cancelled" =>
                 task[Last] = "cancelled" \/ (cancelOp[x] = "cancel" /\ task[Last] = "running")
      BY <2>3 DEF CancelApply, Stopped
    <3>2. QED
      BY <2>3, <3>1 DEF CancelApply
  <2>4. QED
    BY <2>1, <2>2, <2>3 DEF CancelStep
<1>5. QED
  BY <1>1, <1>2, <1>3, <1>4 DEF Next

\* The invariant behind the outcome.
OutcomeInv == IInv /\ CommitInv /\ ErrorInv /\ FinishInv /\ CancelledInv

\* It holds before the first pull, and every step keeps it.
LEMMA OutcomeInductive ==
  ASSUME "task" \notin Faults, "split" \notin Faults
  PROVE  /\ Init => OutcomeInv
         /\ OutcomeInv /\ [Next]_vars =>
              OutcomeInv' /\ (state = "kFinished" => state' = "kFinished")
<1>1. Init => OutcomeInv
  <2>1. Init => CommitInv /\ ErrorInv /\ FinishInv
    BY FlagsAssumption DEF Init, CommitInv, ErrorInv, FinishInv
  <2>2. Init => CancelledInv
    BY FragmentFacts DEF Init, CancelledInv
  <2>3. QED
    BY <2>1, <2>2, InitIInv DEF OutcomeInv
<1>2. OutcomeInv /\ [Next]_vars =>
        OutcomeInv' /\ (state = "kFinished" => state' = "kFinished")
  BY Inductive, CommitStep, ErrorStep, FinishStep, CancelledStep DEF OutcomeInv, IInv
<1>3. QED
  BY <1>1, <1>2

\* execute() never has to make up an error: the state that it reads at the end of
\* the stream always goes with an exception or with the end of the output.
THEOREM NoErrorIsMadeUp ==
  ASSUME "task" \notin Faults, "split" \notin Faults
  PROVE  Spec => []NoInternalError
<1>1. OutcomeInv => NoInternalError
  BY DEF OutcomeInv, IInv, TypeOK, ControlInv, FinishInv, NoInternalError, Outcome,
     Rethrown, StopOutcome
<1>2. QED
  BY <1>1, OutcomeInductive, PTL DEF Spec

\* A cancellation is reported as the caller's or as the deadline's according to
\* who asked first.
THEOREM StopsAreAttributed ==
  ASSUME "task" \notin Faults, "split" \notin Faults
  PROVE  Spec => []StopIsAttributed
<1>1. OutcomeInv => StopIsAttributed
  BY DEF OutcomeInv, IInv, TypeOK, ControlInv, StopInv, CancelledInv, StopIsAttributed,
     Outcome, Rethrown, StopOutcome
<1>2. QED
  BY <1>1, OutcomeInductive, PTL DEF Spec

\* A durable commit is reported as a success to a consumer that waits for it.
THEOREM CommitsAreReported ==
  ASSUME "task" \notin Faults, "split" \notin Faults
  PROVE  Spec => []CommitIsReported
<1>1. OutcomeInv => CommitIsReported
  BY DEF OutcomeInv, IInv, TypeOK, ControlInv, FinishInv, CommitIsReported, Outcome,
     Rethrown, StopOutcome
<1>2. QED
  BY <1>1, OutcomeInductive, PTL DEF Spec

\* A finished query stays finished, whatever cancel comes late.
THEOREM FinishedStaysFinished ==
  ASSUME "task" \notin Faults, "split" \notin Faults
  PROVE  Spec => FinishedIsFinal
<1>1. OutcomeInv /\ [Next]_vars => [state = "kFinished" => state' = "kFinished"]_state
  BY OutcomeInductive
<1>2. QED
  BY <1>1, OutcomeInductive, PTL DEF Spec, FinishedIsFinal
=============================================================================

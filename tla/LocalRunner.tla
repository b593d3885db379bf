----------------------------- MODULE LocalRunner -----------------------------
(***************************************************************************)
(* One execution of a query by the in-process runner: Runner::execute      *)
(* (axiom/runner/Runner.cpp) driving LocalRunner (LocalRunner.{h,cpp}).    *)
(*                                                                         *)
(* Actors that interleave:                                                 *)
(*  - the driver: the coroutine of execute(), executeImpl(), start(),      *)
(*    co_runWrite() and the cleanup, resumed by the consumer's pulls;      *)
(*  - the thread that stops the execution: the caller's token or the       *)
(*    deadline, first come first served, running the cancellation callback *)
(*    on its own stack;                                                    *)
(*  - the tasks of each stage and the split coroutine of each scanned      *)
(*    fragment, which may fail and then run onError() and cancelTasks() on *)
(*    their own threads.                                                   *)
(* A critical section of mutex_ is one step.  Velox tasks, cursors and     *)
(* split sources are external: only what the runner observes of them is    *)
(* kept.  A task is a pair <<fragment, index>>; the cursor's task is       *)
(* <<NumFragments, 1>>.                                                    *)
(***************************************************************************)
EXTENDS Naturals, FiniteSets

CONSTANTS
  NumFragments,   \* fragments_.size(), in topological order; 0: a write the
                  \* connector carries out by itself
  NumTasks,       \* tasks of each fragment
  ScanFragments,  \* the fragments that contain a table scan
  Kinds,          \* the executions considered: "none" (a read), "pending" (a
                  \* write, finishWrite_ is set)
  HasDeadline,    \* whether timeoutMicros > 0
  Faults,         \* the failures that may happen, see FaultKinds
  MaxBatches      \* bound: result batches the cursor produces

\* "create": creating a cursor or a task throws;  "wire": creating a split
\* source throws;  "task": a task of an earlier stage fails;  "last": the
\* cursor's task fails;  "split": a split coroutine fails;  "commit": the commit
\* of a write fails;  "slow": a task outlives the wait of the reap.
FaultKinds == {"create", "wire", "task", "last", "split", "commit", "slow"}

ASSUME FragmentsAssumption ==
  /\ NumFragments \in Nat
  /\ NumTasks \in [1..NumFragments -> Nat \ {0}]
  /\ NumFragments > 0 => NumTasks[NumFragments] = 1
  /\ ScanFragments \subseteq 1..NumFragments
ASSUME FlagsAssumption ==
  /\ Kinds \subseteq {"none", "pending"}
  /\ HasDeadline \in BOOLEAN
  /\ NumFragments = 0 => "none" \notin Kinds
ASSUME FaultsAssumption == Faults \subseteq FaultKinds
ASSUME MaxBatchesAssumption == MaxBatches \in Nat

Stages == 1..NumFragments
Tasks == UNION {{f} \X (1..NumTasks[f]) : f \in Stages}
Last == <<NumFragments, 1>>

\* The threads on which cancelTasks() may run.
DriverThread == <<0, 0>>
StopThread == <<0, 1>>
ScanThread(f) == <<f, 0>>
Threads == {DriverThread, StopThread} \cup {ScanThread(f) : f \in Stages} \cup Tasks

VARIABLES
  pc,           \* where the driver is
  pending,      \* "yes" while a pull's token is registered (co_pullNext)
  thrown,       \* the exception in flight in the driver: "error", "cancelled"
  reaper,       \* who called co_reap(): "write" (co_runWrite) or "cleanup"
  state,        \* state_
  error,        \* error_: "none" or "set"
  cursor,       \* cursor_: "none" or "set"
  cursorError,  \* "set" once cursor_->setError() was called
  numStages,    \* stages_.size()
  staged,       \* the tasks held by stages_
  finalStats,   \* finalStats_: "none" or "set"
  joined,       \* splitScopeJoined_; the split coroutines are cancelled with it
  closed,       \* closed_
  wired,        \* fragments whose splits makeStages() has set up
  deadline,     \* the deadline future: "off", "armed" or "over"
  stopReason,   \* ExecutionControl::stopReason
  stopper,      \* requestStop(): "idle", "trip" after the CAS, then "tripped"
  callback,     \* cancelCallback of executeImpl(): "off", "on", "gone"
  task,         \* per task: "none", "running", "finished", "failed", "cancelled"
  scan,         \* per fragment: "none", "running", "done", "stopped", "failed"
  cancelOp,     \* per thread, its place in onError() and cancelTasks()
  snap,         \* per thread, the tasks cancelTasks() copied under the lock
  delivered,    \* batches taken from the cursor
  write,        \* "none", "pending", "committed", "commitFailed" or "aborted"
  finalState,   \* finalState of execute(), "none" before it is read
  outcome       \* how the execution ended for the consumer

callVars == <<pending, thrown, reaper, finalState>>
driverVars == <<pc, callVars>>
runnerVars == <<state, error, cursor, cursorError>>
stageVars == <<numStages, staged, wired>>
reapVars == <<finalStats, joined, closed>>
stopVars == <<deadline, stopReason, stopper, callback>>
workVars == <<task, scan>>
cancelVars == <<cancelOp, snap>>
resultVars == <<delivered, write, outcome>>
otherVars == <<runnerVars, stageVars, reapVars, stopVars, workVars, cancelVars,
               resultVars>>
vars == <<driverVars, otherVars>>

Init ==
  /\ pc = "new" /\ pending = "no" /\ thrown = "none" /\ reaper = "none"
  /\ state = "kInitialized" /\ error = "none"
  /\ cursor = "none" /\ cursorError = "none"
  /\ numStages = 0 /\ staged = {} /\ wired = 0
  /\ finalStats = "none" /\ joined = "no" /\ closed = "no"
  /\ deadline = "off" /\ stopReason = "kNone" /\ stopper = "idle" /\ callback = "off"
  /\ task = [t \in Tasks |-> "none"]
  /\ scan = [f \in Stages |-> "none"]
  /\ cancelOp = [x \in Threads |-> "none"]
  /\ snap = [x \in Threads |-> {}]
  /\ delivered = 0
  /\ write \in Kinds
  /\ finalState = "none"
  /\ outcome = "none"

\* Whether finishWrite_ was set when the execution began.
IsWrite == write # "none"

-----------------------------------------------------------------------------
(* onError() and cancelTasks(), on any thread.                             *)

\* onError(): the first error is recorded, whatever the state, and the thread
\* goes on to cancelTasks().
ReportError(x) ==
  /\ cancelOp[x] = "report"
  /\ IF error = "set"
       THEN /\ cancelOp' = [cancelOp EXCEPT ![x] = "none"]
            /\ UNCHANGED runnerVars
       ELSE /\ state' = "kError"
            /\ error' = "set"
            /\ cancelOp' = [cancelOp EXCEPT ![x] = "lock"]
            /\ UNCHANGED <<cursor, cursorError>>
  /\ UNCHANGED <<driverVars, stageVars, reapVars, stopVars, workVars, snap,
                 resultVars>>

\* Variant: a cancel overwrites the state of a failed query too.
CancelClobbers == "kCancelled"

\* A pure cancel records kCancelled; a recorded error keeps its state.
StateAfterCancel == IF error = "none" THEN "kCancelled" ELSE state

\* Variant: a late cancel is not told apart.
NothingStaysFinished == FALSE

StaysFinished == state = "kFinished"

\* Variant: the copy leaves out the cursor's task.
AllButLastStage == staged \ {Last}

TasksToCancel == staged

\* The critical section of cancelTasks(): a finished query stays finished, a
\* pure cancel records no error, the tasks are copied, an error reaches the
\* cursor.
CancelLock(x) ==
  /\ cancelOp[x] = "lock"
  /\ IF StaysFinished
       THEN /\ cancelOp' = [cancelOp EXCEPT ![x] = "none"]
            /\ UNCHANGED <<state, cursorError, snap>>
       ELSE /\ state' = StateAfterCancel
            /\ snap' = [snap EXCEPT ![x] = TasksToCancel]
            /\ cursorError' = IF cursor = "set" /\ error = "set"
                                THEN "set" ELSE cursorError
            /\ cancelOp' = [cancelOp EXCEPT
                              ![x] = IF error = "set" THEN "fail" ELSE "cancel"]
  /\ UNCHANGED <<driverVars, error, cursor, stageVars, reapVars, stopVars,
                 workVars, resultVars>>

\* A task that is told to stop (external): a finished one stays as it is.
Stopped(t, how) == IF task[t] = "running" THEN how ELSE task[t]

\* A cursor that goes away cancels its task (external).
CursorDropped == [task EXCEPT ![Last] = Stopped(Last, "cancelled")]

\* The rest of cancelTasks(): setError() or requestCancel() on the copied
\* tasks.  A task's own onError() call finds error_ set and returns.
CancelApply(x) ==
  /\ cancelOp[x] \in {"fail", "cancel"}
  /\ task' = [t \in Tasks |->
                IF t \in snap[x]
                  THEN Stopped(t, IF cancelOp[x] = "fail" THEN "failed" ELSE "cancelled")
                  ELSE task[t]]
  /\ cancelOp' = [cancelOp EXCEPT ![x] = "none"]
  /\ snap' = [snap EXCEPT ![x] = {}]
  /\ UNCHANGED <<driverVars, runnerVars, stageVars, reapVars, stopVars, scan,
                 resultVars>>

CancelStep(x) == ReportError(x) \/ CancelLock(x) \/ CancelApply(x)

-----------------------------------------------------------------------------
(* The driver: execute() up to the first batch.                            *)

\* The driver is at p; cancelTasks() and onError() on its own thread are calls
\* it waits for.
At(p) == pc = p /\ cancelOp[DriverThread] = "none"

\* The first pull runs execute() up to executeImpl(): the deadline is armed and
\* the pull's token can stop the execution from here on.
FirstPull ==
  /\ At("new")
  /\ pc' = "enter"
  /\ pending' = "yes"
  /\ deadline' = IF HasDeadline THEN "armed" ELSE "off"
  /\ UNCHANGED <<thrown, reaper, finalState, runnerVars, stageVars, reapVars,
                 stopReason, stopper, callback, workVars, cancelVars, resultVars>>

\* executeImpl() registers cancelTasks() on the execution's token; on a token
\* that is tripped already the callback runs here and now.
EnterImpl ==
  /\ At("enter")
  /\ pc' = IF NumFragments = 0 THEN "commit" ELSE "pull"
  /\ callback' = "on"
  /\ cancelOp' = IF stopper = "tripped"
                   THEN [cancelOp EXCEPT ![DriverThread] = "lock"] ELSE cancelOp
  /\ UNCHANGED <<callVars, runnerVars, stageVars, reapVars, deadline,
                 stopReason, stopper, workVars, snap, resultVars>>

\* The exception handler the driver unwinds to: that of co_runWrite(), which
\* reaps and aborts, or that of execute().
UnwindTo == IF IsWrite THEN "reap" ELSE "ended"

Throw(what) ==
  /\ thrown' = what
  /\ pc' = UnwindTo
  /\ reaper' = IF IsWrite THEN "write" ELSE reaper
  /\ UNCHANGED <<pending, finalState>>

\* start(), called by co_pull() without a cursor: an error or a cancel that
\* came first is surfaced; otherwise the cursor and its task are created.
StartRefused ==
  /\ At("pull") /\ cursor = "none"
  /\ error = "set" \/ state = "kCancelled"
  /\ Throw(IF error = "set" THEN "error" ELSE "cancelled")
  /\ UNCHANGED otherVars

Start ==
  /\ At("pull") /\ cursor = "none"
  /\ error = "none" /\ state = "kInitialized"
  /\ pc' = "build"
  /\ task' = [task EXCEPT ![Last] = "running"]
  /\ UNCHANGED <<callVars, runnerVars, stageVars, reapVars, stopVars, scan,
                 cancelVars, resultVars>>

StageFull(f) == \A i \in 1..NumTasks[f] : task[<<f, i>>] # "none"

\* makeStages(), first loop: an empty stage for the next fragment ...
EmplaceStage ==
  /\ At("build")
  /\ numStages + 1 < NumFragments
  /\ numStages > 0 => StageFull(numStages)
  /\ numStages' = numStages + 1
  /\ UNCHANGED <<driverVars, runnerVars, staged, wired, reapVars, stopVars,
                 workVars, cancelVars, resultVars>>

NextTask(t) ==
  /\ t[1] = numStages
  /\ task[t] = "none"
  /\ t[2] > 1 => task[<<t[1], t[2] - 1>>] # "none"

\* ... and its tasks, each pushed under the lock and then started.
CreateTask(t) ==
  /\ At("build")
  /\ NextTask(t)
  /\ task' = [task EXCEPT ![t] = "running"]
  /\ staged' = staged \cup {t}
  /\ UNCHANGED <<driverVars, runnerVars, numStages, wired, reapVars, stopVars,
                 scan, cancelVars, resultVars>>

\* TaskCursor::create() or Task::create() throws out of start(): no handler
\* records the error, and the unwinding cursor cancels only its own task.
CreateFails ==
  /\ "create" \in Faults
  /\ At("build")
  /\ numStages = 0 \/ \E t \in Tasks : NextTask(t)
  /\ task' = CursorDropped
  /\ Throw("error")
  /\ UNCHANGED <<runnerVars, stageVars, reapVars, stopVars, scan, cancelVars,
                 resultVars>>

PushLastStage ==
  /\ At("build")
  /\ numStages + 1 = NumFragments
  /\ numStages > 0 => StageFull(numStages)
  /\ numStages' = NumFragments
  /\ staged' = staged \cup {Last}
  /\ pc' = "wire"
  /\ UNCHANGED <<callVars, runnerVars, wired, reapVars, stopVars, workVars,
                 cancelVars, resultVars>>

\* Variant: the loop runs one fragment too far.
WiresPastTheEnd == wired <= NumFragments

MoreToWire == wired < NumFragments

\* makeStages(), second loop: the split coroutine of a scanned fragment is
\* launched and the fragment's remote splits are added.
WireFragment ==
  /\ At("wire")
  /\ MoreToWire
  /\ wired' = wired + 1
  /\ scan' = IF wired + 1 \in ScanFragments
               THEN [scan EXCEPT ![wired + 1] = "running"] ELSE scan
  /\ UNCHANGED <<driverVars, runnerVars, numStages, staged, reapVars, stopVars,
                 task, cancelVars, resultVars>>

\* The loop's exception handler calls onError() on the driver's own thread.
WireFails ==
  /\ "wire" \in Faults
  /\ At("wire")
  /\ wired + 1 \in ScanFragments
  /\ pc' = "adopt"
  /\ cancelOp' = [cancelOp EXCEPT ![DriverThread] = "report"]
  /\ UNCHANGED <<callVars, runnerVars, stageVars, reapVars, stopVars, workVars,
                 snap, resultVars>>

WireEnds ==
  /\ At("wire")
  /\ wired = NumFragments
  /\ pc' = "adopt"
  /\ UNCHANGED <<callVars, otherVars>>

\* Variant: a concurrent cancel is overlooked.
MayAdoptOverCancel == error = "none"

MayAdopt == error = "none" /\ state # "kCancelled"

\* The end of start(): the cursor is adopted unless a cancel or an error landed
\* meanwhile; then all tasks built so far are cancelled.
AdoptCursor ==
  /\ At("adopt")
  /\ IF MayAdopt
       THEN /\ cursor' = "set"
            /\ state' = "kRunning"
            /\ pc' = "pull"
            /\ UNCHANGED cancelOp
       ELSE /\ cancelOp' = [cancelOp EXCEPT ![DriverThread] = "lock"]
            /\ pc' = "noCursor"
            /\ UNCHANGED <<cursor, state>>
  /\ UNCHANGED <<callVars, error, cursorError, stageVars, reapVars, stopVars,
                 workVars, snap, resultVars>>

\* co_pull() without a cursor surfaces the error, or else the cancellation; the
\* cursor that was not adopted cancels its task as it goes.
SurfaceCause ==
  /\ At("noCursor")
  /\ Throw(IF error = "set" THEN "error" ELSE "cancelled")
  /\ task' = CursorDropped
  /\ UNCHANGED <<runnerVars, stageVars, reapVars, stopVars, scan, cancelVars,
                 resultVars>>

-----------------------------------------------------------------------------
(* The driver: batches, the end of the output, the commit of a write.      *)

\* What moveNext() reports of the cursor's task (external).
CursorThrows ==
  IF cursorError = "set" \/ task[Last] = "failed" THEN "error"
  ELSE IF task[Last] = "cancelled" THEN "cancelled" ELSE "none"

PullThrows ==
  /\ At("pull") /\ cursor = "set"
  /\ CursorThrows # "none"
  /\ Throw(CursorThrows)
  /\ UNCHANGED otherVars

\* A batch: co_runWrite() keeps it and pulls on, executeImpl() yields it.
PullBatch ==
  /\ At("pull") /\ cursor = "set"
  /\ CursorThrows = "none"
  /\ delivered < MaxBatches
  /\ delivered' = delivered + 1
  /\ pc' = IF IsWrite THEN "pull" ELSE "yielding"
  /\ UNCHANGED <<callVars, runnerVars, stageVars, reapVars, stopVars, workVars,
                 cancelVars, write, outcome>>

\* Variant: a failed task is taken for the end of the output.
FailureEndsOutput == task[Last] \in {"finished", "failed"}

EndOfOutput == CursorThrows = "none" /\ task[Last] = "finished"

PullEnd ==
  /\ At("pull") /\ cursor = "set"
  /\ EndOfOutput
  /\ pc' = IF IsWrite THEN "commit" ELSE "finish"
  /\ UNCHANGED <<callVars, otherVars>>

\* Variant: the end of the output is not recorded.
EndNotRecorded == state

StateAtEnd == IF state = "kRunning" THEN "kFinished" ELSE state

\* The end of executeImpl() on the read path, under the lock.
Finish ==
  /\ At("finish")
  /\ state' = StateAtEnd
  /\ pc' = "ended"
  /\ UNCHANGED <<callVars, error, cursor, cursorError, stageVars, reapVars,
                 stopVars, workVars, cancelVars, resultVars>>

\* finishWrite.commit() runs to its end, unlocked and not cancellable.
Commit ==
  /\ At("commit")
  /\ write' = "committed"
  /\ pc' = "committed"
  /\ UNCHANGED <<callVars, runnerVars, stageVars, reapVars, stopVars, workVars,
                 cancelVars, delivered, outcome>>

CommitFails ==
  /\ "commit" \in Faults
  /\ At("commit")
  /\ write' = "commitFailed"
  /\ pc' = "commitFailed"
  /\ UNCHANGED <<callVars, runnerVars, stageVars, reapVars, stopVars, workVars,
                 cancelVars, delivered, outcome>>

\* Variant: a cancel that raced with the commit keeps its state.
CommitKeepsCancel ==
  /\ At("committed")
  /\ state' = StateAtEnd
  /\ pc' = "yielding"
  /\ UNCHANGED <<callVars, error, cursor, cursorError, stageVars, reapVars,
                 stopVars, workVars, cancelVars, resultVars>>

\* After the commit the state is written under the lock, whatever it was.
RecordCommit ==
  /\ At("committed")
  /\ state' = "kFinished"
  /\ pc' = "yielding"
  /\ UNCHANGED <<callVars, error, cursor, cursorError, stageVars, reapVars,
                 stopVars, workVars, cancelVars, resultVars>>

RecordCommitFailure ==
  /\ At("commitFailed")
  /\ state' = "kError"
  /\ error' = "set"
  /\ thrown' = "error"
  /\ pc' = "ended"
  /\ UNCHANGED <<pending, reaper, finalState, cursor, cursorError, stageVars,
                 reapVars, stopVars, workVars, cancelVars, resultVars>>

\* A pull ends only once the callback on its token is done.
PullSettled ==
  stopReason = "kCaller" => stopper = "tripped" /\ cancelOp[StopThread] = "none"

Yield ==
  /\ At("yielding")
  /\ PullSettled
  /\ pc' = "yielded"
  /\ pending' = "no"
  /\ UNCHANGED <<thrown, reaper, finalState, otherVars>>

\* The consumer pulls again; executeImpl() of a write has nothing more to give.
PullAgain ==
  /\ At("yielded")
  /\ pc' = IF IsWrite THEN "ended" ELSE "pull"
  /\ pending' = "yes"
  /\ UNCHANGED <<thrown, reaper, finalState, otherVars>>

\* The consumer drops the generator between pulls and awaits its cleanup.
Abandon ==
  /\ At("yielded")
  /\ pc' = "cleanup"
  /\ deadline' = "over"
  /\ UNCHANGED <<callVars, runnerVars, stageVars, reapVars, stopReason, stopper,
                 callback, workVars, cancelVars, resultVars>>

\* The consumer drops the generator without a pull: nothing has started.
DropUnpulled ==
  /\ At("new")
  /\ pc' = "done"
  /\ outcome' = "abandoned"
  /\ UNCHANGED <<callVars, runnerVars, stageVars, reapVars, stopVars, workVars,
                 cancelVars, delivered, write>>

-----------------------------------------------------------------------------
(* The driver: the end of execute().                                       *)

\* executeImpl() is left: its callback is deregistered, after waiting for a run
\* of it on another thread.
LeaveImpl ==
  /\ At("ended")
  /\ cancelOp[StopThread] = "none"
  /\ callback' = "gone"
  /\ pc' = "left"
  /\ UNCHANGED <<callVars, runnerVars, stageVars, reapVars, deadline,
                 stopReason, stopper, workVars, cancelVars, resultVars>>

\* execute() reads the state once and cancels the deadline.
ReadFinalState ==
  /\ At("left")
  /\ PullSettled
  /\ finalState' = state
  /\ deadline' = "over"
  /\ pending' = "no"
  /\ pc' = "cleanup"
  /\ UNCHANGED <<thrown, reaper, runnerVars, stageVars, reapVars, stopReason,
                 stopper, callback, workVars, cancelVars, resultVars>>

\* Variant: an execution in a terminal state is not reaped.
CleansOnlyRunning ==
  /\ At("cleanup")
  /\ cancelOp' = IF state = "kRunning"
                   THEN [cancelOp EXCEPT ![DriverThread] = "lock"] ELSE cancelOp
  /\ reaper' = "cleanup"
  /\ pc' = IF state = "kRunning" THEN "reap" ELSE "close"
  /\ UNCHANGED <<pending, thrown, finalState, runnerVars, stageVars, reapVars,
                 stopVars, workVars, snap, resultVars>>

\* co_cleanupImpl(): a run that is still going is cancelled, then reaped.
Cleanup ==
  /\ At("cleanup")
  /\ cancelOp' = IF state = "kRunning"
                   THEN [cancelOp EXCEPT ![DriverThread] = "lock"] ELSE cancelOp
  /\ reaper' = "cleanup"
  /\ pc' = "reap"
  /\ UNCHANGED <<pending, thrown, finalState, runnerVars, stageVars, reapVars,
                 stopVars, workVars, snap, resultVars>>

AfterReap == IF reaper = "write" THEN "abort" ELSE "close"

\* Variant: the split scope is joined without being cancelled.
JoinsWithoutCancel ==
  /\ At("reap")
  /\ pc' = IF joined = "no" THEN "join" ELSE "wait"
  /\ UNCHANGED <<callVars, otherVars>>

\* co_reap(): the split scope is cancelled, once ...
ReapBegin ==
  /\ At("reap")
  /\ pc' = IF joined = "no" THEN "join" ELSE "wait"
  /\ joined' = "yes"
  /\ UNCHANGED <<callVars, runnerVars, stageVars, finalStats, closed, stopVars,
                 workVars, cancelVars, resultVars>>

\* ... and joined.  The scope is built with throwOnJoin: the error of a split
\* coroutine is thrown out of co_reap() here.
ReapJoin ==
  /\ At("join")
  /\ \A f \in Stages : scan[f] # "running" /\ cancelOp[ScanThread(f)] = "none"
  /\ pc' = IF \E f \in Stages : scan[f] = "failed" THEN AfterReap ELSE "wait"
  /\ UNCHANGED <<callVars, otherVars>>

\* Variant: only the cursor's task is waited for.
CursorTaskStopped == task[Last] # "running"

TasksStopped == \A t \in staged : task[t] # "running"

ReapWait ==
  /\ At("wait")
  /\ TasksStopped
  /\ pc' = "tear"
  /\ UNCHANGED <<callVars, otherVars>>

\* A task did not stop within kReapTimeoutMicros.
ReapTimeout ==
  /\ "slow" \in Faults
  /\ At("wait")
  /\ ~TasksStopped
  /\ pc' = "tear"
  /\ UNCHANGED <<callVars, otherVars>>

EmptyStage == \E f \in 1..numStages : \A t \in staged : t[1] # f

\* Under the lock: the final stats are captured, the cursor and the tasks are
\* dropped.  aggregatedStats() throws on a stage without a task, and nothing
\* is dropped then.
ReapTear ==
  /\ At("tear")
  /\ IF finalStats = "none" /\ EmptyStage
       THEN UNCHANGED <<finalStats, cursor, staged, task>>
       ELSE /\ finalStats' = "set"
            /\ cursor' = "none"
            /\ staged' = {}
            /\ task' = IF cursor = "set" THEN CursorDropped ELSE task
  /\ pc' = AfterReap
  /\ UNCHANGED <<callVars, state, error, cursorError, numStages, wired, joined,
                 closed, stopVars, scan, cancelVars, resultVars>>

\* Variant: a failed write is not aborted.
AbortForgotten ==
  /\ At("abort")
  /\ pc' = "ended"
  /\ UNCHANGED <<callVars, otherVars>>

\* co_runWrite() after a failed drain: abort, then rethrow.  An abort that fails
\* is logged and changes nothing here: "aborted" says that it was called.
AbortWrite ==
  /\ At("abort")
  /\ write' = "aborted"
  /\ pc' = "ended"
  /\ UNCHANGED <<callVars, runnerVars, stageVars, reapVars, stopVars, workVars,
                 cancelVars, delivered, outcome>>

Rethrown == IF thrown = "none" THEN "internal" ELSE thrown

\* Variant: every stop is reported as the caller's.
DeadlineNotTold == "cancelled"

StopOutcome == IF stopReason = "kDeadline" THEN "deadline" ELSE "cancelled"

\* The switch at the end of execute(); "internal" is its VELOX_FAIL.
Outcome ==
  IF finalState = "none" THEN "abandoned"
  ELSE IF finalState = "kFinished" /\ thrown = "none" THEN "drained"
  ELSE IF finalState = "kCancelled" THEN StopOutcome
  ELSE Rethrown

Close ==
  /\ At("close")
  /\ cancelOp[StopThread] = "none"
  /\ closed' = "yes"
  /\ callback' = "gone"
  /\ outcome' = Outcome
  /\ pc' = "done"
  /\ UNCHANGED <<callVars, runnerVars, stageVars, finalStats, joined, deadline,
                 stopReason, stopper, workVars, cancelVars, delivered, write>>

-----------------------------------------------------------------------------
(* The stop requests, the tasks and the split coroutines.                  *)

\* Variant: the token of a pull stays in force after the pull.
TokenOutlivesPull(reason) == reason = "kDeadline" => deadline = "armed"

\* The caller's token counts only while its pull is pending.
MayStop(reason) ==
  /\ reason = "kCaller" => pending = "yes"
  /\ reason = "kDeadline" => deadline = "armed"

\* requestStop(): the first reason wins the compare-and-swap ...
RequestStop(reason) ==
  /\ stopReason = "kNone"
  /\ MayStop(reason)
  /\ stopReason' = reason
  /\ stopper' = "trip"
  /\ UNCHANGED <<driverVars, runnerVars, stageVars, reapVars, deadline,
                 callback, workVars, cancelVars, resultVars>>

\* ... and trips the execution's token, which runs the callback if there is one.
TripToken ==
  /\ stopper = "trip"
  /\ stopper' = "tripped"
  /\ cancelOp' = IF callback = "on"
                   THEN [cancelOp EXCEPT ![StopThread] = "lock"] ELSE cancelOp
  /\ UNCHANGED <<driverVars, runnerVars, stageVars, reapVars, deadline,
                 stopReason, callback, workVars, snap, resultVars>>

\* A task at work; the cursor starts its own at the first moveNext().
AtWork(t) == task[t] = "running" /\ (t = Last => cursor = "set")

\* A task ends by itself (external).  The cursor's task may end before the
\* others (LIMIT); an earlier one needs all its splits, unless its consumer is
\* gone.
TaskFinishes(t) ==
  /\ AtWork(t)
  /\ t # Last /\ t[1] \in ScanFragments =>
       scan[t[1]] = "done" \/ task[Last] # "running"
  /\ task' = [task EXCEPT ![t] = "finished"]
  /\ UNCHANGED <<driverVars, runnerVars, stageVars, reapVars, stopVars, scan,
                 cancelVars, resultVars>>

\* A task fails (external): an earlier one calls onError(), the cursor's own
\* reports through the cursor.
TaskFails(t) ==
  /\ (IF t = Last THEN "last" ELSE "task") \in Faults
  /\ AtWork(t)
  /\ task' = [task EXCEPT ![t] = "failed"]
  /\ cancelOp' = IF t = Last THEN cancelOp ELSE [cancelOp EXCEPT ![t] = "report"]
  /\ UNCHANGED <<driverVars, runnerVars, stageVars, reapVars, stopVars, scan, snap,
                 resultVars>>

\* co_generateAndDistributeSplits() ends: with noMoreSplits at the end of the
\* source or between two calls after a cancel, by OperationCancelled inside a
\* cancelled call, or by an error.  co_close(), which follows, is noexcept.
ScanEnds(f) ==
  /\ scan[f] = "running"
  /\ \/ scan' = [scan EXCEPT ![f] = "done"] /\ UNCHANGED cancelOp
     \/ joined = "yes" /\ scan' = [scan EXCEPT ![f] = "stopped"] /\ UNCHANGED cancelOp
     \/ /\ "split" \in Faults
        /\ scan' = [scan EXCEPT ![f] = "failed"]
        /\ cancelOp' = [cancelOp EXCEPT ![ScanThread(f)] = "report"]
  /\ UNCHANGED <<driverVars, runnerVars, stageVars, reapVars, stopVars, task,
                 snap, resultVars>>

-----------------------------------------------------------------------------

\* Steps the driver takes by itself once the consumer has pulled.
Driver ==
  \/ EnterImpl \/ StartRefused \/ Start \/ EmplaceStage
  \/ (\E t \in Tasks : CreateTask(t)) \/ CreateFails \/ PushLastStage
  \/ WireFragment \/ WireFails \/ WireEnds \/ AdoptCursor \/ SurfaceCause
  \/ PullThrows \/ PullBatch \/ PullEnd \/ Finish
  \/ Commit \/ CommitFails \/ RecordCommit \/ RecordCommitFailure \/ Yield
  \/ LeaveImpl \/ ReadFinalState \/ Cleanup
  \/ ReapBegin \/ ReapJoin \/ ReapWait \/ ReapTimeout \/ ReapTear
  \/ AbortWrite \/ Close

Consumer == FirstPull \/ PullAgain \/ Abandon \/ DropUnpulled

Stop == (\E reason \in {"kCaller", "kDeadline"} : RequestStop(reason)) \/ TripToken

Work ==
  \/ \E t \in Tasks : TaskFinishes(t) \/ TaskFails(t)
  \/ \E f \in Stages : ScanEnds(f)

Cancel == \E x \in Threads : CancelStep(x)

Next == Driver \/ Consumer \/ Stop \/ Work \/ Cancel

Spec == Init /\ [][Next]_vars

\* The executor runs the driver, the callbacks and onError() calls that were
\* entered; a split coroutine whose scope is cancelled gets to its end.  No
\* task is assumed to make progress, and no consumer to pull.
Fairness ==
  /\ WF_vars(Driver)
  /\ WF_vars(TripToken)
  /\ \A x \in Threads : WF_vars(CancelStep(x))
  /\ \A f \in Stages : WF_vars(joined = "yes" /\ ScanEnds(f))

FairSpec == Spec /\ Fairness

-----------------------------------------------------------------------------

TypeOK ==
  /\ pc \in {"new", "enter", "pull", "build", "wire", "adopt", "noCursor",
             "yielding", "yielded", "finish", "commit", "committed",
             "commitFailed", "ended", "left", "cleanup", "reap", "join", "wait",
             "tear", "abort", "close", "done"}
  /\ pending \in {"no", "yes"}
  /\ thrown \in {"none", "error", "cancelled"}
  /\ reaper \in {"none", "write", "cleanup"}
  /\ state \in {"kInitialized", "kRunning", "kFinished", "kError", "kCancelled"}
  /\ error \in {"none", "set"}
  /\ cursor \in {"none", "set"}
  /\ cursorError \in {"none", "set"}
  /\ numStages \in 0..NumFragments
  /\ staged \subseteq Tasks
  /\ wired \in 0..NumFragments
  /\ finalStats \in {"none", "set"}
  /\ joined \in {"no", "yes"}
  /\ closed \in {"no", "yes"}
  /\ deadline \in {"off", "armed", "over"}
  /\ stopReason \in {"kNone", "kCaller", "kDeadline"}
  /\ stopper \in {"idle", "trip", "tripped"}
  /\ callback \in {"off", "on", "gone"}
  /\ task \in [Tasks -> {"none", "running", "finished", "failed", "cancelled"}]
  /\ scan \in [Stages -> {"none", "running", "done", "stopped", "failed"}]
  /\ cancelOp \in [Threads -> {"none", "report", "lock", "fail", "cancel"}]
  /\ snap \in [Threads -> SUBSET Tasks]
  /\ delivered \in 0..MaxBatches
  /\ write \in {"none", "pending", "committed", "commitFailed", "aborted"}
  /\ finalState \in {"none", "kInitialized", "kRunning", "kFinished", "kError",
                     "kCancelled"}
  /\ outcome \in {"none", "drained", "error", "cancelled", "deadline", "internal",
                  "abandoned"}

\* A result is reported complete only when it is: a stream that ends without an
\* exception was read to the end of a task that finished by itself, never cut
\* short by a cancel, a deadline or an error of any actor.
NoSilentTruncation ==
  outcome = "drained" /\ NumFragments > 0 => task[Last] = "finished"

\* Nobody is told of a cancellation nobody asked for: a genuine failure is not
\* turned into one by the cancelTasks() calls it causes.
NoSpontaneousCancel ==
  /\ outcome \in {"cancelled", "deadline"} => stopReason # "kNone"
  /\ outcome = "deadline" => stopReason = "kDeadline"

\* A write that was started is resolved exactly one way by the time the
\* execution is over, and success is reported only for a durable commit.
WriteIsResolved ==
  /\ closed = "yes" => write # "pending"
  /\ IsWrite /\ outcome = "drained" => write = "committed"

NoCancelInFlight == \A x \in Threads : cancelOp[x] = "none"

\* A cancel or an error reaches every task, also the ones makeStages() was still
\* building when it landed: once nobody is inside onError() or cancelTasks(),
\* no task held by stages_ runs on.  (A failed commit stops nothing: its tasks
\* have delivered all their output.)
CancelReachesEveryTask ==
  /\ state \in {"kCancelled", "kError"} /\ write # "commitFailed"
  /\ pc \notin {"build", "wire", "adopt"}
  /\ NoCancelInFlight
  => \A t \in staged : task[t] # "running"

\* "A terminal pull finishes execution cleanup before returning end-of-stream or
\* throwing, so stats() then returns final task stats" (Runner.h).
FinalStatsCaptured == closed = "yes" => finalStats = "set"

\* execute() never has to make up an error of its own ("Runner entered the error
\* state without an exception", "Runner result stream ended in state ...").
NoInternalError == outcome # "internal"

\* A cancellation is attributed to who asked first: OperationCancelled to the
\* caller, the time limit to the deadline ("Deadline expires: ... throws
\* VeloxUserError", Runner.h).
StopIsAttributed ==
  /\ outcome = "cancelled" => stopReason = "kCaller"
  /\ outcome = "deadline" => stopReason = "kDeadline"

\* "A completed query stays finished" (cancelTasks), and a commit is "the point
\* of no return" (co_runWrite): no late cancel or error leaves kFinished.
FinishedIsFinal == [][state = "kFinished" => state' = "kFinished"]_state

\* A durable commit is never reported as a failure.
CommitIsReported ==
  write = "committed" /\ outcome # "none" => outcome \in {"drained", "abandoned"}

\* A failed write is aborted only when no task can still be writing: the reap
\* before it has waited for them.
AbortIsQuiet ==
  [][write' = "aborted" => write = "aborted" \/ \A t \in Tasks : task[t] # "running"]_vars

\* A stop request ends the pending pull, however the start, the tasks and other
\* failures interleave with it.
StopEndsPull == (pending = "yes" /\ stopReason # "kNone") ~> (pending = "no")

\* The cleanup of an execution always ends ("the reap does not hang").
CleanupEnds == (pc = "cleanup") ~> (pc = "done")

\* The contract of Runner::execute (Runner.h), see RunnerContract.
Phase ==
  IF pc = "new" THEN "fresh"
  ELSE IF pc = "done" THEN "over"
  ELSE IF pending = "yes" THEN "pulling"
  ELSE IF pc = "yielded" THEN "between"
  ELSE IF finalState = "none" THEN "dropped" ELSE "closing"

Contract == INSTANCE RunnerContract WITH phase <- Phase

\* Every execution keeps the contract.
ImplementsContract == Contract!Spec
=============================================================================

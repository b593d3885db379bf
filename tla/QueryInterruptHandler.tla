------------------------ MODULE QueryInterruptHandler ------------------------
(***************************************************************************)
(* Ctrl+C handling of the CLI (axiom/cli/QueryInterruptHandler.{h,cpp}).   *)
(*                                                                         *)
(* Three kinds of actor share the state: the thread that owns the handler  *)
(* object (constructs it, arms and disarms it around queries, destroys     *)
(* it), the SIGINT handler running on whatever thread the kernel picks,    *)
(* and the drain thread that reads the self-pipe and cancels.  Every       *)
(* atomic access, system call and critical section is one step.  Objects   *)
(* may be constructed again after one is destroyed; a SIGINT handler that  *)
(* is still running then finds its file descriptor closed, or reused by    *)
(* the pipe of the next object.                                            *)
(***************************************************************************)
EXTENDS Naturals

CONSTANTS
  Threads,       \* the threads on which the SIGINT handler may run
  PipeCapacity,  \* bytes the pipe holds before write() returns EAGAIN
  BufferSize,    \* bytes one read() takes, 64 in the code
  MaxSignals     \* bound: no SIGINT arrives once this many were counted

ASSUME PipeCapacityAssumption == PipeCapacity \in Nat \ {0}
ASSUME BufferSizeAssumption == BufferSize \in Nat \ {0}

VARIABLES
  owner,          \* where the owning thread is in the object's life
  disposition,    \* of SIGINT: "saved", "handler" or "ignore"
  writeFd,        \* gInterruptPipeWriteFd: "none" or "pipe"
  signalSeq,      \* gInterruptSignalSeq
  bytes,          \* bytes waiting in the pipe
  writeEnd,       \* pipeFds_[1]: "open" or "closed"
  readEnd,        \* pipeFds_[0]: "open" or "closed"
  stop,           \* stop_: "no" or "yes"
  source,         \* source_: "none", "armed" or "cancelled"
  armSeq,         \* armSignalSeq_
  lastProcessed,  \* lastProcessedSignalSeq_
  drain,          \* where the drain thread is
  observed,       \* observedSeq of the drain thread
  handler,        \* per thread, where its run of the SIGINT handler is
  sinceArm        \* history: SIGINTs counted since the last arm()

objectVars == <<stop, source, armSeq, lastProcessed>>
pipeVars == <<bytes, writeEnd, readEnd>>
drainVars == <<drain, observed>>
signalVars == <<signalSeq, handler>>
vars == <<owner, disposition, writeFd, objectVars, pipeVars, drainVars,
          signalVars, sinceArm>>

Init ==
  /\ owner = "absent"
  /\ disposition = "saved"
  /\ writeFd = "none"
  /\ signalSeq = 0
  /\ bytes = 0 /\ writeEnd = "closed" /\ readEnd = "closed"
  /\ stop = "no" /\ source = "none" /\ armSeq = 0 /\ lastProcessed = 0
  /\ drain = "none" /\ observed = 0
  /\ handler = [t \in Threads |-> "idle"]
  /\ sinceArm = 0

-----------------------------------------------------------------------------
(* The owner: constructor, arm, disarm, destructor.                        *)

\* The constructor of a fresh object: no other is live, pipe() succeeds.
CreatePipe ==
  /\ owner = "absent"
  /\ writeFd = "none"
  /\ owner' = "piped"
  /\ bytes' = 0 /\ writeEnd' = "open" /\ readEnd' = "open"
  /\ stop' = "no" /\ source' = "none" /\ armSeq' = 0 /\ lastProcessed' = 0
  /\ UNCHANGED <<disposition, writeFd, drainVars, signalVars, sinceArm>>

InstallHandler ==
  /\ owner = "piped"
  /\ owner' = "installed"
  /\ disposition' = "handler"
  /\ UNCHANGED <<writeFd, objectVars, pipeVars, drainVars, signalVars, sinceArm>>

StartThread ==
  /\ owner = "installed"
  /\ owner' = "started"
  /\ drain' = "read"
  /\ UNCHANGED <<disposition, writeFd, objectVars, pipeVars, observed,
                 signalVars, sinceArm>>

\* A later step of the constructor throws: SCOPE_FAIL restores the disposition
\* and closes the pipe.
ConstructorFails ==
  /\ owner \in {"piped", "installed"}
  /\ owner' = "absent"
  /\ disposition' = "saved"
  /\ writeEnd' = "closed" /\ readEnd' = "closed"
  /\ UNCHANGED <<writeFd, objectVars, bytes, drainVars, signalVars, sinceArm>>

PublishFd ==
  /\ owner = "started"
  /\ owner' = "live"
  /\ writeFd' = "pipe"
  /\ UNCHANGED <<disposition, objectVars, pipeVars, drainVars, signalVars, sinceArm>>

\* Variant: arm() takes over a signal that has been counted already.
SnapshotOffByOne ==
  /\ owner = "live"
  /\ armSeq' = signalSeq - 1
  /\ source' = "armed"
  /\ sinceArm' = 0
  /\ UNCHANGED <<owner, disposition, writeFd, stop, lastProcessed, pipeVars,
                 drainVars, signalVars>>

\* Variant: arm() keeps the count of an earlier query.
NoSnapshotInArm ==
  /\ owner = "live"
  /\ source' = "armed"
  /\ sinceArm' = 0
  /\ UNCHANGED <<owner, disposition, writeFd, armSeq, stop, lastProcessed,
                 pipeVars, drainVars, signalVars>>

\* arm(): a fresh source, and the count only later signals exceed.
Arm ==
  /\ owner = "live"
  /\ armSeq' = signalSeq
  /\ source' = "armed"
  /\ sinceArm' = 0
  /\ UNCHANGED <<owner, disposition, writeFd, stop, lastProcessed, pipeVars,
                 drainVars, signalVars>>

Disarm ==
  /\ owner = "live"
  /\ source' = "none"
  /\ UNCHANGED <<owner, disposition, writeFd, stop, armSeq, lastProcessed,
                 pipeVars, drainVars, signalVars, sinceArm>>

\* The destructor, one action per statement.
IgnoreSignals ==
  /\ owner = "live"
  /\ owner' = "ignoring"
  /\ disposition' = "ignore"
  /\ UNCHANGED <<writeFd, objectVars, pipeVars, drainVars, signalVars, sinceArm>>

UnpublishFd ==
  /\ owner = "ignoring"
  /\ owner' = "unpublished"
  /\ writeFd' = "none"
  /\ UNCHANGED <<disposition, objectVars, pipeVars, drainVars, signalVars, sinceArm>>

SetStop ==
  /\ owner = "unpublished"
  /\ owner' = "stopped"
  /\ stop' = "yes"
  /\ UNCHANGED <<disposition, writeFd, source, armSeq, lastProcessed, pipeVars,
                 drainVars, signalVars, sinceArm>>

\* Variant: a destructor that relies on stop_ alone to end the drain thread.
WriteEndLeftOpen ==
  /\ owner = "stopped"
  /\ owner' = "joining"
  /\ UNCHANGED <<disposition, writeFd, objectVars, pipeVars, drainVars,
                 signalVars, sinceArm>>

CloseWriteEnd ==
  /\ owner = "stopped"
  /\ owner' = "joining"
  /\ writeEnd' = "closed"
  /\ UNCHANGED <<disposition, writeFd, objectVars, bytes, readEnd, drainVars,
                 signalVars, sinceArm>>

\* Variant: a destructor that closes the pipe under the running drain thread.
JoinWithoutWaiting ==
  /\ owner = "joining"
  /\ owner' = "absent"
  /\ readEnd' = "closed"
  /\ disposition' = "saved"
  /\ source' = "none"
  /\ UNCHANGED <<writeFd, stop, armSeq, lastProcessed, bytes, writeEnd,
                 drainVars, signalVars, sinceArm>>

\* join() returns, the read end is closed, the disposition restored and the
\* object gone.
Join ==
  /\ owner = "joining"
  /\ drain = "exited"
  /\ owner' = "absent"
  /\ drain' = "none"
  /\ readEnd' = "closed"
  /\ disposition' = "saved"
  /\ source' = "none"
  /\ UNCHANGED <<writeFd, stop, armSeq, lastProcessed, bytes, writeEnd,
                 observed, signalVars, sinceArm>>

-----------------------------------------------------------------------------
(* The SIGINT handler.                                                     *)

\* A SIGINT is delivered to thread t, whose run of the handler loads the fd.
\* With no fd published the handler returns without a trace.
Deliver(t) ==
  /\ disposition = "handler"
  /\ handler[t] = "idle"
  /\ signalSeq < MaxSignals
  /\ writeFd = "pipe"
  /\ handler' = [handler EXCEPT ![t] = "bump"]
  /\ UNCHANGED <<owner, disposition, writeFd, objectVars, pipeVars, drainVars,
                 signalSeq, sinceArm>>

\* Variant: a handler that nudges the pipe first and counts the signal afterwards.
CountAfterWakeup(t) ==
  \/ /\ handler[t] = "bump"
     /\ handler' = [handler EXCEPT ![t] = "write"]
     /\ bytes' = IF writeEnd = "open" /\ bytes < PipeCapacity THEN bytes + 1 ELSE bytes
     /\ UNCHANGED <<owner, disposition, writeFd, objectVars, writeEnd, readEnd,
                    drainVars, signalSeq, sinceArm>>
  \/ /\ handler[t] = "write"
     /\ handler' = [handler EXCEPT ![t] = "idle"]
     /\ signalSeq' = signalSeq + 1
     /\ sinceArm' = sinceArm + 1
     /\ UNCHANGED <<owner, disposition, writeFd, objectVars, pipeVars, drainVars>>

\* The handler counts the signal ...
BumpSeq(t) ==
  /\ handler[t] = "bump"
  /\ handler' = [handler EXCEPT ![t] = "write"]
  /\ signalSeq' = signalSeq + 1
  /\ sinceArm' = sinceArm + 1
  /\ UNCHANGED <<owner, disposition, writeFd, objectVars, pipeVars, drainVars>>

\* ... and then writes a byte: EAGAIN when the pipe is full, EBADF when the
\* write end is closed.
WriteByte(t) ==
  /\ handler[t] = "write"
  /\ handler' = [handler EXCEPT ![t] = "idle"]
  /\ bytes' = IF writeEnd = "open" /\ bytes < PipeCapacity THEN bytes + 1 ELSE bytes
  /\ UNCHANGED <<owner, disposition, writeFd, objectVars, writeEnd, readEnd,
                 drainVars, signalSeq, sinceArm>>

-----------------------------------------------------------------------------
(* The drain thread.                                                       *)

ReadPipe ==
  /\ drain = "read"
  /\ bytes > 0
  /\ bytes' = IF bytes > BufferSize THEN bytes - BufferSize ELSE 0
  /\ drain' = "checkStop"
  /\ UNCHANGED <<owner, disposition, writeFd, objectVars, writeEnd, readEnd,
                 observed, signalVars, sinceArm>>

\* read() returns 0 once the write end is closed and the pipe is empty.
ReadEof ==
  /\ drain = "read"
  /\ bytes = 0
  /\ writeEnd = "closed"
  /\ drain' = "exited"
  /\ UNCHANGED <<owner, disposition, writeFd, objectVars, pipeVars, observed,
                 signalVars, sinceArm>>

\* Variant: the drain thread ends when it is woken with nothing armed.
QuitsWhenDisarmed ==
  /\ drain = "checkStop"
  /\ drain' = IF stop = "yes" \/ source = "none" THEN "exited" ELSE "load"
  /\ UNCHANGED <<owner, disposition, writeFd, objectVars, pipeVars, observed,
                 signalVars, sinceArm>>

CheckStop ==
  /\ drain = "checkStop"
  /\ drain' = IF stop = "yes" THEN "exited" ELSE "load"
  /\ UNCHANGED <<owner, disposition, writeFd, objectVars, pipeVars, observed,
                 signalVars, sinceArm>>

LoadSeq ==
  /\ drain = "load"
  /\ observed' = signalSeq
  /\ drain' = "decide"
  /\ UNCHANGED <<owner, disposition, writeFd, objectVars, pipeVars, signalVars,
                 sinceArm>>

\* Variant: the fence is published from a second reading of the count.
FenceReadTwice ==
  /\ drain = "decide"
  /\ source' = IF source = "armed" /\ observed > armSeq THEN "cancelled" ELSE source
  /\ lastProcessed' = signalSeq
  /\ drain' = "read"
  /\ UNCHANGED <<owner, disposition, writeFd, stop, armSeq, pipeVars, observed,
                 signalVars, sinceArm>>

\* Under the mutex: cancel what was armed before the signal, publish the fence.
Decide ==
  /\ drain = "decide"
  /\ source' = IF source = "armed" /\ observed > armSeq THEN "cancelled" ELSE source
  /\ lastProcessed' = observed
  /\ drain' = "read"
  /\ UNCHANGED <<owner, disposition, writeFd, stop, armSeq, pipeVars, observed,
                 signalVars, sinceArm>>

-----------------------------------------------------------------------------

Owner ==
  \/ CreatePipe \/ InstallHandler \/ StartThread \/ ConstructorFails
  \/ PublishFd \/ Arm \/ Disarm \/ IgnoreSignals \/ UnpublishFd \/ SetStop
  \/ CloseWriteEnd \/ Join

Signal == \E t \in Threads : Deliver(t) \/ BumpSeq(t) \/ WriteByte(t)

Drain == ReadPipe \/ ReadEof \/ CheckStop \/ LoadSeq \/ Decide

Next == Owner \/ Signal \/ Drain

Spec == Init /\ [][Next]_vars

\* The scheduler runs the drain thread and a started signal handler, and a
\* destructor that was entered runs to its end.  Nothing makes a user arm,
\* disarm or press Ctrl+C.
Fairness ==
  /\ WF_vars(Drain)
  /\ \A t \in Threads : WF_vars(BumpSeq(t) \/ WriteByte(t))
  /\ WF_vars(UnpublishFd \/ SetStop \/ CloseWriteEnd \/ Join)

FairSpec == Spec /\ Fairness

-----------------------------------------------------------------------------

OwnerStates == {"absent", "piped", "installed", "started", "live", "ignoring",
                "unpublished", "stopped", "joining"}

TypeOK ==
  /\ owner \in OwnerStates
  /\ disposition \in {"saved", "handler", "ignore"}
  /\ writeFd \in {"none", "pipe"}
  /\ signalSeq \in Nat
  /\ bytes \in 0..PipeCapacity
  /\ writeEnd \in {"open", "closed"}
  /\ readEnd \in {"open", "closed"}
  /\ stop \in {"no", "yes"}
  /\ source \in {"none", "armed", "cancelled"}
  /\ armSeq \in Nat
  /\ lastProcessed \in Nat
  /\ drain \in {"none", "read", "checkStop", "load", "decide", "exited"}
  /\ observed \in Nat
  /\ handler \in [Threads -> {"idle", "bump", "write"}]
  /\ sinceArm \in Nat

\* A query is cancelled only by a SIGINT counted after it was armed: one that
\* arrived earlier and still sits in the pipe, or is being decided while the
\* query arms, never cancels it ("can't cancel it", QueryInterruptHandler.cpp).
NoStaleCancel == source = "cancelled" => sinceArm > 0

WakeupPending ==
  \/ bytes > 0
  \/ drain \in {"checkStop", "load"}
  \/ drain = "decide" /\ observed > armSeq
  \/ \E t \in Threads : handler[t] = "write"

\* No SIGINT is lost: while one counted since arm() has not cancelled the armed
\* query, something is still on its way that will -- a byte in the pipe, a
\* drain step that has yet to look, or a handler about to write.  A full pipe
\* (EAGAIN) and the 64-byte reads that merge wakeups do not break this.
NoLostInterrupt ==
  owner = "live" /\ source = "armed" /\ sinceArm > 0 => WakeupPending

\* The fence tells the truth: every signal up to lastProcessedSignalSeq_ that
\* should have cancelled the armed query has done so.
FenceIsSound == source = "armed" => lastProcessed <= armSeq

\* The descriptors outlive their users: the published fd is an open pipe and
\* the drain thread never reads a closed one.
PipeOutlivesUsers ==
  /\ writeFd = "pipe" => writeEnd = "open"
  /\ drain \notin {"none", "exited"} => readEnd = "open"

\* Ctrl+C takes effect: a signal counted while a query is armed leads to its
\* cancellation, unless the owner disarms, re-arms or tears down first.
InterruptTakesEffect ==
  (owner = "live" /\ source = "armed" /\ sinceArm > 0)
    ~> (source # "armed" \/ owner # "live" \/ sinceArm = 0)

\* "join() cannot hang": the destructor always ends.
TeardownEnds == (owner = "ignoring") ~> (owner = "absent")
=============================================================================

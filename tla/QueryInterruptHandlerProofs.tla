--------------------- MODULE QueryInterruptHandlerProofs ---------------------
(***************************************************************************)
(* Proofs about QueryInterruptHandler, for every set of threads, every     *)
(* pipe capacity, every read size and any number of signals.               *)
(***************************************************************************)
EXTENDS QueryInterruptHandler, TLAPS

Draining == {"read", "checkStop", "load", "decide"}

\* What the owner's place in the object's life says about the pipe, the drain
\* thread and the published descriptor.
LifeInv ==
  /\ writeFd = "pipe" => owner \in {"live", "ignoring"}
  /\ owner \in {"absent", "piped", "installed"} => drain = "none" /\ source = "none"
  /\ owner = "started" => source = "none"
  /\ owner \in {"started", "live", "ignoring", "unpublished"} => drain \in Draining
  /\ owner \notin {"absent", "stopped", "joining"} => stop = "no"
  /\ owner \notin {"absent", "joining"} => writeEnd = "open"
  /\ owner # "absent" => readEnd = "open"

\* Counts never run ahead of the signals, and the signals since arm() are the
\* ones past the snapshot arm() took.
CountInv ==
  /\ observed <= signalSeq
  /\ lastProcessed <= signalSeq
  /\ source # "none" => signalSeq = armSeq + sinceArm

\* The inductive invariant.
IInv ==
  /\ TypeOK
  /\ LifeInv
  /\ CountInv
  /\ NoStaleCancel
  /\ NoLostInterrupt
  /\ FenceIsSound

\* Before the first object nothing is armed, published or running.
LEMMA InitIInv == Init => IInv
  BY PipeCapacityAssumption
  DEF Init, IInv, TypeOK, LifeInv, CountInv, NoStaleCancel, NoLostInterrupt,
      FenceIsSound, OwnerStates, Draining

\* Every step keeps the types; the pipe never holds more than its capacity.
LEMMA TypeStep == TypeOK /\ [Next]_vars => TypeOK'
<1> SUFFICES ASSUME TypeOK, [Next]_vars PROVE TypeOK'
  OBVIOUS
<1> USE DEF TypeOK, OwnerStates, objectVars, pipeVars, drainVars, signalVars
<1>1. CASE Owner
  BY <1>1, PipeCapacityAssumption
  DEF Owner, CreatePipe, InstallHandler, StartThread, ConstructorFails, PublishFd,
      Arm, Disarm, IgnoreSignals, UnpublishFd, SetStop, CloseWriteEnd, Join
<1>2. CASE Signal
  <2> PICK t \in Threads : Deliver(t) \/ BumpSeq(t) \/ WriteByte(t)
    BY <1>2 DEF Signal
  <2>1. CASE Deliver(t)
    BY <2>1 DEF Deliver
  <2>2. CASE BumpSeq(t)
    BY <2>2 DEF BumpSeq
  <2>3. CASE WriteByte(t)
    BY <2>3, PipeCapacityAssumption DEF WriteByte
  <2>4. QED
    BY <2>1, <2>2, <2>3
<1>3. CASE Drain
  BY <1>3, PipeCapacityAssumption, BufferSizeAssumption
  DEF Drain, ReadPipe, ReadEof, CheckStop, LoadSeq, Decide
<1>4. CASE UNCHANGED vars
  BY <1>4 DEF vars
<1>5. QED
  BY <1>1, <1>2, <1>3, <1>4 DEF Next

\* The order of the statements in the constructor and the destructor keeps the
\* pipe open around its users.
LEMMA LifeStep == TypeOK /\ LifeInv /\ [Next]_vars => LifeInv'
<1> SUFFICES ASSUME TypeOK, LifeInv, [Next]_vars PROVE LifeInv'
  OBVIOUS
<1> USE DEF TypeOK, OwnerStates, LifeInv, Draining, objectVars, pipeVars,
            drainVars, signalVars
<1>1. CASE Owner
  BY <1>1
  DEF Owner, CreatePipe, InstallHandler, StartThread, ConstructorFails, PublishFd,
      Arm, Disarm, IgnoreSignals, UnpublishFd, SetStop, CloseWriteEnd, Join
<1>2. CASE Signal
  BY <1>2 DEF Signal, Deliver, BumpSeq, WriteByte
<1>3. CASE Drain
  BY <1>3 DEF Drain, ReadPipe, ReadEof, CheckStop, LoadSeq, Decide
<1>4. CASE UNCHANGED vars
  BY <1>4 DEF vars
<1>5. QED
  BY <1>1, <1>2, <1>3, <1>4 DEF Next

\* The counts, and the safety properties that follow from them.
LEMMA CountStep ==
  ASSUME TypeOK, LifeInv, CountInv, NoStaleCancel, FenceIsSound, [Next]_vars
  PROVE  CountInv' /\ NoStaleCancel' /\ FenceIsSound'
<1> USE DEF TypeOK, LifeInv, CountInv, NoStaleCancel, FenceIsSound, objectVars,
            pipeVars, drainVars, signalVars
<1>1. CASE Owner
  BY <1>1
  DEF Owner, CreatePipe, InstallHandler, StartThread, ConstructorFails, PublishFd,
      Arm, Disarm, IgnoreSignals, UnpublishFd, SetStop, CloseWriteEnd, Join
<1>2. CASE Signal
  BY <1>2 DEF Signal, Deliver, BumpSeq, WriteByte
<1>3. CASE Drain
  BY <1>3 DEF Drain, ReadPipe, ReadEof, CheckStop, LoadSeq, Decide
<1>4. CASE UNCHANGED vars
  BY <1>4 DEF vars
<1>5. QED
  BY <1>1, <1>2, <1>3, <1>4 DEF Next

\* An interrupt is not lost by any step: the one that consumes the evidence
\* that a wakeup is pending puts the next kind of evidence in its place.
LEMMA WakeupStep ==
  ASSUME TypeOK, LifeInv, CountInv, NoLostInterrupt, [Next]_vars
  PROVE  NoLostInterrupt'
<1> USE DEF TypeOK, NoLostInterrupt, WakeupPending, objectVars, pipeVars,
            drainVars, signalVars
<1>1. CASE Owner
  BY <1>1
  DEF Owner, CreatePipe, InstallHandler, StartThread, ConstructorFails, PublishFd,
      Arm, Disarm, IgnoreSignals, UnpublishFd, SetStop, CloseWriteEnd, Join, LifeInv
<1>2. CASE Signal
  <2> PICK t \in Threads : Deliver(t) \/ BumpSeq(t) \/ WriteByte(t)
    BY <1>2 DEF Signal
  <2>1. CASE Deliver(t)
    BY <2>1 DEF Deliver
  <2>2. CASE BumpSeq(t)
    <3>1. handler'[t] = "write"
      BY <2>2 DEF BumpSeq
    <3>2. QED
      BY <3>1
  <2>3. CASE WriteByte(t)
    <3>1. CASE owner = "live"
      <4>1. bytes' > 0
        BY <2>3, <3>1, PipeCapacityAssumption DEF WriteByte, LifeInv
      <4>2. QED
        BY <4>1
    <3>2. CASE owner # "live"
      BY <2>3, <3>2 DEF WriteByte
    <3>3. QED
      BY <3>1, <3>2
  <2>4. QED
    BY <2>1, <2>2, <2>3
<1>3. CASE ReadPipe
  BY <1>3 DEF ReadPipe
<1>4. CASE ReadEof
  BY <1>4 DEF ReadEof, LifeInv
<1>5. CASE CheckStop
  BY <1>5 DEF CheckStop, LifeInv
<1>6. CASE LoadSeq
  BY <1>6 DEF LoadSeq, CountInv
<1>7. CASE Decide
  BY <1>7 DEF Decide
<1>8. CASE UNCHANGED vars
  BY <1>8 DEF vars
<1>9. QED
  BY <1>1, <1>2, <1>3, <1>4, <1>5, <1>6, <1>7, <1>8 DEF Next, Drain

\* Every step keeps the inductive invariant.
LEMMA Inductive == IInv /\ [Next]_vars => IInv'
  BY TypeStep, LifeStep, CountStep, WakeupStep DEF IInv

\* The variables of QueryInterruptHandler always have their types, and the pipe
\* never holds more than its capacity.
THEOREM TypeCorrect == Spec => []TypeOK
<1>1. IInv => TypeOK
  BY DEF IInv
<1>2. QED
  BY <1>1, InitIInv, Inductive, PTL DEF Spec

\* No query is cancelled by a SIGINT counted before it was armed.
THEOREM StaleSignalsAreAbsorbed == Spec => []NoStaleCancel
<1>1. IInv => NoStaleCancel
  BY DEF IInv
<1>2. QED
  BY <1>1, InitIInv, Inductive, PTL DEF Spec

\* No SIGINT counted while a query is armed is lost, whatever the pipe's
\* capacity and however the reads merge the wakeups.
THEOREM InterruptsAreNotLost == Spec => []NoLostInterrupt
<1>1. IInv => NoLostInterrupt
  BY DEF IInv
<1>2. QED
  BY <1>1, InitIInv, Inductive, PTL DEF Spec

\* The processed-sequence fence never runs ahead of the cancel decisions.
THEOREM FenceIsAlwaysSound == Spec => []FenceIsSound
<1>1. IInv => FenceIsSound
  BY DEF IInv
<1>2. QED
  BY <1>1, InitIInv, Inductive, PTL DEF Spec

\* No thread uses a descriptor of the pipe after it was closed, but for the
\* SIGINT handler that loaded it before the destructor withdrew it.
THEOREM PipeOutlivesItsUsers == Spec => []PipeOutlivesUsers
<1>1. IInv => PipeOutlivesUsers
  BY DEF IInv, TypeOK, LifeInv, PipeOutlivesUsers, OwnerStates, Draining
<1>2. QED
  BY <1>1, InitIInv, Inductive, PTL DEF Spec
=============================================================================

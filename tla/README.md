# TLA+ models of Axiom

Axiom (`src/axiom`) is a library of composable query-engine front ends on top of
Velox: SQL is parsed to a logical plan, optimised into a multi-fragment plan, and
run by a runner; a command-line shell ties these together.  This directory holds
TLA+ models of the parts of it that have *protocol* state, TLC configurations that
check them on small instances, and TLAPS proofs for every size.

The models cover the in-process runner (`Runner`, `LocalRunner`), the join ordering
of optimizer v2 (`HypergraphBuilder`, `JoinHypergraph`, `DPhyp`,
`FallbackJoinPlanner`), the local Hive catalog with the statements that change it
(`LocalHiveConnectorMetadata`, parts of `SqlQueryRunner`), the Ctrl+C handler of the
shell (`QueryInterruptHandler`) and the query-id generator (`QueryIdGenerator`).  The
rest is inventoried below, with what is planned.

Run from this directory:

    tlc -workers 2 -config Runner.cfg MCLocalRunner
    tlc -workers 2 -config JoinOrder.cfg MCDPhyp
    tlc -workers 2 -config Catalog.cfg MCHiveCatalog
    tlapm LocalRunnerProofs.tla
    tlapm HiveCatalogProofs.tla
    tlapm DPhypEnforceProofs.tla
    tlapm DPhypSearchProofs.tla

## 1. Inventory

| Component | State | Operations | Talks to | What is hard |
|---|---|---|---|---|
| `Runner` (`runner/Runner.*`) | `ExecutionControl` (stop reason, cancellation source), the deadline future, the token of the pending pull | `execute()`, `requestStop()`, `co_pullNext()`, `drain()` | derived runner through `executeImpl`, `co_cleanupImpl`, `state` | two sources of stop race with each other and with the end of the stream; the outcome is computed from a state, an exception and a reason written by different threads |
| `LocalRunner` (`runner/LocalRunner.*`) | `state_`, `error_`, `cursor_`, `stages_`, `finalStats_`, `splitScopeJoined_`, `closed_`, `finishWrite_` | `start`, `makeStages`, `co_pull`, `co_runWrite`, `cancelTasks`, `onError`, `co_reap`, `co_cleanupImpl`, `stats` | Velox tasks and cursor, connector split sources, the connector's commit and abort | tasks, split coroutines, the cancelling thread and the driver all change the state; a start can be cancelled half-way; the cleanup consists of steps that may fail one by one |
| `QueryInterruptHandler` (`cli/`) | self-pipe, two process-wide atomics, armed cancellation source, sequence numbers | constructor, `arm`, `disarm`, signal handler, `drainPipe`, destructor | kernel signals, the query's cancellation token | an async-signal-safe counter, a pipe that may be full or closed, a drain thread that lags behind |
| `QueryIdGenerator` (`cli/`) | last second, last day, counter | `createNextQueryId` | the wall clock | counter overflow within one second, resets, several readings of a moving clock |
| `ProgressReporter`, `QueryProgressBuilder` (`runner/`) | registered poll, previous totals | construct, `poll`, destroy | `Runner::stats`, `Runner::state`, a shared scheduler | a poll races with the end of the run and with the destructor |
| `SqlQueryRunner` (`cli/`) | session, prepared statements, default catalog and schema | `run`, statement handlers, create-table-as, completion callback | parser, optimizer, runner, connectors | callback exactly once on every path; partial failure of create-table-as |
| `Console`, `StdinReader` (`cli/`) | input buffer, history | read loop, `runOnce`, commands | `SqlQueryRunner`, `QueryInterruptHandler` | interrupts between statements |
| `SessionConfig`, `ConfigRegistry` (`common/`) | layered properties | register, set, reset, read | every component | defaults against overrides |
| Connector registry, metadata and context (`connectors/`) | registered connectors, write handles | register, resolve, begin, finish and abort a write | hive, TPC-H, file and system connectors | scopes; a write handle used in the wrong order |
| Local Hive catalog (`connectors/hive/LocalHiveConnectorMetadata.*`) | `tables_`; table directories with `.schema`, data and `.stats` files; `.vector_index` records | create, begin, finish and abort a write, delete partitions, drop, add a column, create and drop a vector index | the file system; `LocalRunner` through the write handle; `SqlQueryRunner` | the same table in memory and on disk; statements made of steps with and without the lock; one of several steps fails |
| Join ordering of optimizer v2 (`optimizer/v2/`) | the hypergraph of a cluster, `memo_`, the budget, greedy fragments | `HypergraphBuilder::build`, `DPhyp::enumerate`, `greedy`, `FallbackJoinPlanner::build`, `JoinTreeEmitter` | the cost model, the physical pass | outer joins, Unnests and predicates restrict each other's order; mutual recursion over forbidden sets; restarts when the budget runs out |
| Logical plan, SQL parser, optimizer v1, other passes of v2, PySpark front end, printers | trees built on one thread | translation, search | each other | algorithmic, over unbounded data |

How one query travels: `Console` arms the interrupt handler and calls
`SqlQueryRunner`, which takes an id from `QueryIdGenerator`, optimises the plan,
builds a `LocalRunner`, attaches a `ProgressReporter` and drains
`Runner::execute()`.  Ctrl+C trips the armed source; through the pull's token
it becomes `requestStop(kCaller)`, which runs `cancelTasks()`.

What makes each part correct:

* **Runner.** A result stream is never silently cut short; a cancellation is reported
  only when someone asked for one, and to the right party; a write is
  resolved exactly once, and its outcome is the one reported; a stop reaches all
  tasks, including those being created; a stopped pull and a cleanup end.
* **Interrupt handler.** A SIGINT cancels the query that was armed when it
  arrived, always, and no later one; the pipe outlives its users; teardown ends.
* **Query ids.** Unique, in order, of fixed width.
* **Join ordering.** Whatever order is chosen, the result is that of the query as
  written; every order is tried, once; no cluster makes planning fail.
* **Catalog.** Memory and disk agree; statistics count the data; a statement that
  failed leaves nothing, one that succeeded all it says.

The hazards in `PROJECT.json` list where in the code each of these could go wrong.

## 2. Modules

| Module | Models | Checked by | Proofs |
|---|---|---|---|
| `QueryIdGenerator` | `cli/QueryIdGenerator.{h,cpp}` | `QueryIdGenerator.cfg`, `FindClock.cfg` | `QueryIdGeneratorProofs` |
| `QueryInterruptHandler` | `cli/QueryInterruptHandler.{h,cpp}` | `QueryInterruptHandler.cfg` | `QueryInterruptHandlerProofs` |
| `RunnerContract` | abstract: what `Runner.h` promises the consumer of `execute()` | as a property of `LocalRunner` | |
| `LocalRunner` | `runner/Runner.{h,cpp}`, `runner/LocalRunner.{h,cpp}` | `Runner*.cfg`, `FindCommit.cfg`, `FindStats.cfg`, `FindCreate.cfg` through `MCLocalRunner` | `LocalRunnerProofs` |
| `JoinHypergraph` | `optimizer/v2/JoinHypergraph.*`, `JoinEdge.h`, `RelationSet.h`, `neighborhood()`, `connectedComponents()` | `JoinOrder.cfg`, `FindUnnest.cfg` through `MCDPhyp` | with `DPhyp` |
| `HypergraphBuilder` | `optimizer/v2/HypergraphBuilder.cpp`, `AlgebraicProperties.cpp` | the same | |
| `DPhyp` | `optimizer/v2/DPhyp.cpp`, `FallbackJoinPlanner.cpp`, their caller in `PlanPhysicalPass.cpp` | the same | `DPhypProofs`, `DPhypMemoProofs`, `DPhypEnforceProofs`, `DPhypSearchProofs` |
| `JoinSemantics` | what Velox's join operators and the trees of `JoinTreeEmitter.cpp` compute | the same | |
| `HiveCatalog` | `connectors/hive/LocalHiveConnectorMetadata.cpp`, `LocalTableMetadata.cpp`, `co_createEmptyTable()`, the statements of `cli/SqlQueryRunner.cpp` | `Catalog.cfg`, `FindPartition.cfg`, `FindPlan.cfg`, `FindIndex.cfg`, `FindOverlap.cfg` through `MCHiveCatalog` | `HiveCatalogProofs` |

Definitions under a comment `Variant:` are deliberately wrong versions of the
definition that follows them.  No specification uses them; replacing the
definition by its variant makes one of the properties fail, which
shows that the property depends on that piece of code.

### QueryIdGenerator

`mutex_` serialises the calls, so one `pc` describes the call in progress; `Enter`,
`NextSecond` and `Stamp` are the overflow test, the wait loop and the rest of
`createNextQueryId()`.  The wall clock is an actor of its own and moves between any
two readings.  An id is `<<second, counter>>`: the suffix is constant per generator
and the timestamp's text is injective in the second.

### QueryInterruptHandler

Each statement of the constructor and the destructor, each atomic access, system
call and critical section is one action.  The SIGINT handler may run on several
threads at once, and on one that entered it before the destructor began; its `write`
then meets a closed descriptor, or the pipe of the next object that got the same
descriptor.  `sinceArm` is a history variable: signals counted since `arm()`.

The testing-only wait of the class is represented by the fence it reads
(`lastProcessed`), which `FenceIsSound` is about.

### LocalRunner

One *execution* (a Runner permits one), reads and writes.

| Model | Code |
|---|---|
| `pc`, `pending`, `thrown`, `reaper`, `finalState` | the coroutine stack of `execute()` / `executeImpl()` / `co_runWrite()` / `co_reap()` |
| `state`, `error`, `cursor`, `cursorError` | `state_`, `error_`, `cursor_`, the cursor's error |
| `numStages`, `staged`, `wired` | `stages_` and the two loops of `makeStages()` |
| `finalStats`, `joined`, `closed` | `finalStats_`, `splitScopeJoined_`, `closed_` |
| `deadline`, `stopReason`, `stopper`, `callback` | deadline future, `ExecutionControl`, `cancelCallback` |
| `cancelOp`, `snap` | per thread, its place in `onError()` and `cancelTasks()` and the tasks it copied |
| `task`, `scan` | Velox tasks and split coroutines, as far as the runner observes them |
| `write` | `finishWrite_` and what became of it |

A critical section of `mutex_` is one action; everything between two
critical sections interleaves.  `cancelTasks()` is two actions, because it
copies the tasks under the lock and acts on the copy after releasing it.  A
destructor of `folly::CancellationCallback` waits for a run of it on another thread:
that is the guard of `LeaveImpl` and `PullSettled`.

Failures are switched on by the constant `Faults`: task or cursor creation throws
(`create`), a split source cannot be created (`wire`), a task of an earlier stage
fails (`task`), the cursor's task fails (`last`), split enumeration fails (`split`),
the commit fails (`commit`), a task outlives the reap's timeout (`slow`).

`RunnerContract` is the consumer's view: phases of pulling, one stop request, one
resolution of a write, one outcome.  `Phase` is the refinement mapping; the other
variables map to those of the same name.

Velox tasks, cursors and `folly` primitives are outside of the repository; what is
assumed of them is in the definitions marked external: a finished task ignores
`setError()` and `requestCancel()`, a cursor that is destroyed cancels its task, and
`moveNext()` throws the cursor's or the task's error.

### Join ordering

`HypergraphBuilder` turns a *cluster*, a tree of joins, Unnests and Filters as it is
written, into edges: right forms are exchanged for their left form (`LeftForm`),
`Conflict` and `TesExpansion` are the conflict rules of
`tesExpansion()` over the table of `AlgebraicProperties`, `UnnestBarriers`,
`DerivedEdges` and `PredicateConjuncts` are `addUnnestBarriers()`,
`addTransitiveInnerEdges()` and `addClusterConjuncts()`.  A cross join takes part in the
conflict rules but makes no edge; `Stranded` says when it is not dissolved.

`DPhyp` runs on these edges.

| Model | Code |
|---|---|
| `component`, `solved`, `applied` | the loop of `enumerate(components)`: which connected component is planned, which have a root, and the edges these apply |
| `seeds`, `stack` | the loop of `solveComponent()` and the frames of `emitCsg()`, `enumerateCsgRec()` and `enumerateCmpRec()`; the two loops of a Rec function are two frames |
| `memo` | `memo_`; a plan is its topmost operator with the edges its tree applies |
| `count` | `EnumerationBudget` |
| `emitted` | history: the pairs that the recursion offered to `emitCsgCmp()` |
| `fragments`, `grown` | `greedy()` and `expandThroughUnnests()`; for the fallback, the joined prefix |
| `reordered` | `FallbackJoinPlanner::reordered_` |
| `phase` | which of the three planners runs, and how the call ended |

One step is a pair offered, a frame entered or left, a merge or an Unnest
expanded.  Costs are abstracted: the memo keeps all candidates, any of them may be
the cheapest, and greedy merging may choose any pair.  So a result that holds
for all plans holds for those that the cost model picks.  Only the absence of a
cost is kept: an operator over a relation without statistics is no candidate.

`JoinSemantics` gives a cluster and a plan their meaning over a database, so that
the two can be compared (`RootIsEquivalent`).  Tuples keep the row of every
relation, so sets of tuples tell duplicates apart as bags of rows do.

### HiveCatalog

| Model | Code |
|---|---|
| `disk[n]` | the table's directory: its `.schema`, data files and `.stats` |
| `tables[n]` | `tables_[n]`: schema, files and statistics as `loadTable()` read them |
| `records` | the `.vector_index` files |
| `clients[c]` | one thread in a statement: which step comes next and what it has made |
| `catalog` | history: the tables as the results that were returned tell them |

What `mutex_` protects is one action: `Register` (the second half of
`createTable()`), `FinishWrite`, `AbortWrite`, `RemovePartitions`, `DropTable`,
`AddColumn`, `ReloadTable`.  The test for the directory, its creation, the staging directory, the query
and each table of a vector index are steps of their own.  Data is a set of
`<<partition, write>>`, so a lost, repeated or misplaced file shows.  `Restart` is the
next process, or `reinitialize()`, which has nothing but the directories.

Failures of the query (`QueryFails`), of an INSERT before its write begins and of a
commit that meets an existing partition are always possible.  `Faults` adds those with
which a property fails, and one that is harmless:

| Fault | What happens | What it breaks |
|---|---|---|
| `record` | the index record cannot be written | nothing |
| `mixed` | `move()` renames some partitions, then meets one that exists | `PartitionsHaveStats`, `MemoryMirrorsDisk`, `StatsCountData` |
| `plan` | the optimizer rejects a CTAS whose table exists by now | `ResultsAreTrue` |
| `staging` | no staging directory can be made | `ResultsAreTrue` |
| `overlap` | CREATE or DROP runs beside another statement on the same table | `MemoryMirrorsDisk`, `ResultsAreTrue` |

All but `record` have a configuration that shows the failure (section 6).

## 3. Runs

| Run | Configuration | States | Checks |
|---|---|---|---|
| `query_ids` | counter limit 2, days of 2 s, clock up to 5 | 2 012 | `TypeOK`, `UniqueIds`, `FiveDigits`, `IdsInOrder` |
| `interrupts` | 2 handler threads, pipe of 2 bytes, reads of 1 byte, 3 signals | 46 280 | `TypeOK`, `NoStaleCancel`, `NoLostInterrupt`, `FenceIsSound`, `PipeOutlivesUsers`; `InterruptTakesEffect`, `TeardownEnds` |
| `runner` | 2 + 1 tasks, reads and writes, all faults, deadline, fairness | 366 164 | `TypeOK`, `NoSilentTruncation`, `NoSpontaneousCancel`, `WriteIsResolved`, refinement of `RunnerContract`; `StopEndsPull`, `CleanupEnds` |
| `runner_stop` | 3 fragments, 2 of them scanned; faults `wire`, `task`, `last`, `commit` | about 421 000 | `CancelReachesEveryTask`, `AbortIsQuiet` |
| `runner_outcome` | 2 + 1 tasks; faults `wire`, `last`, `commit`, `slow` | 13 031 | `FinalStatsCaptured`, `NoInternalError`, `StopIsAttributed`, `CommitIsReported`, `FinishedIsFinal` |
| `join_order` | clusters of 3 and 4 relations, connected or not, budgets unlimited and 2, with and without statistics | 125 048 | `TypeOK`, `RootIsEquivalent`, `PairsApart`, `OncePerPair`, `Exhaustive`, `OuterEdgesApplied`, `NeverThrows`, `PlanFound` |
| `catalog` | 2 clients, 2 tables that can also be those of a vector index, 2 partitions, 3 writes, fault `record` | 167 406 | `TypeOK`, `MemoryMirrorsDisk`, `StatsCountData`, `ResultsAreTrue` |
| `find_commit`, `find_stats`, `find_create`, `find_partition` | one fault each | | see Findings |
| `find_unnest` | a budget for Unnests beside joins of several keys | | see Findings |

`runner` includes every fault.  The other two leave out faults with
which some property of the run fails; section 6 says which, and why.

**Bounds and why they are enough.**

* *Fragments and tasks.* `makeStages()` treats all fragments alike except the
  last.  Two tasks in the first fragment show a cancel between two tasks of one stage;
  three fragments show one between two stages, with two split coroutines.  `NumFragments = 0`, a write the connector carries out by itself, is
  covered by the proofs.
* *Batches.* `MaxBatches = 1`: a batch carries no state beyond being delivered, and one
  pull after another is all the protocol tells apart.
* *Signals and pipe.* Reads of one byte from a pipe of two make both merging
  and a full pipe happen; three signals overfill it.
* *Clock.* Five seconds in days of two cover an overflow within a second, across
  seconds and across midnight.
* *Clusters.* Conflict rules compare two joins at a time, and their interplay with a
  third appears with four relations.  Three relations come with all pairs of the
  nine join types (inner, left, right, full, anti, semi and mark joins in both
  forms), keys on any column, several keys, keys over several relations and
  filters (the right semi and mark joins one key each); four with all tree shapes of inner, left, full, semi and anti joins; then
  Filters over outer joins, Unnests of a table, of an Unnest and of a join, and cross
  joins of two or three tables in any operand, most of which leave the graph in
  several components.  A budget of 2 trips inside the recursion for all
  of them except Unnests beside joins of several keys, which `find_unnest` is about.
* *Databases.* Every relation is empty or has up to two rows with two columns, so that
  matching, unmatched and null-padded rows occur on each side; a wrong reshape differs
  on one of these (see the variant of `Associative`).
* *Catalog.* Three writes are an index or a CTAS with an insert and a further one in
  between, by two clients; two partitions make one that clashes and one that does not.
  Clients and partitions are symmetric: nothing orders either.

The join order has no liveness property: it is a terminating call (TLC explores
all of its finite state graph, and every stop is an end of `phase`).  The catalog has
none either: no code retries or waits there except for `mutex_`.

`CHECK_DEADLOCK FALSE` is set for the runner (an execution ends and there is one per
Runner) and for the ids (the modelled clock reaches its bound).

**Fairness.** For the runner: the executor keeps running the driver once it was
pulled, the thread that trips the token gets on with it, threads inside
`onError()` or `cancelTasks()` finish, and a split coroutine whose scope was cancelled
ends (its source observes the token; `LocalRunner.cpp` bounds it to one
`co_getSplits()`).  No task is assumed to make progress and no consumer to pull, so
`StopEndsPull` says that stopping works on a query that hangs.  Under those
assumptions the wait for tasks in the reap ends because of its timeout: the
run includes `slow`.
For the interrupt handler: the drain thread and a signal handler that was entered run
on, and so does a destructor.  Nobody has to arm, disarm or press Ctrl+C.

## 4. Proofs

All proofs are of safety, for every value of the constants.  Where a theorem excludes
a failure, the property does fail with it (section 6): the hypothesis says
when the code keeps the property.  The invariants were model-checked on small
instances before they were proved.

**`LocalRunnerProofs`** assumes only the shape of the plan (`FragmentsAssumption`:
every fragment has at least one task and the last has exactly one; scans are in
existing fragments), `FlagsAssumption` (a runner without fragments is a write),
and that bounds are natural numbers.  Faults are arbitrary.

* `TypeCorrect`, `DrainedIsComplete` (`NoSilentTruncation`),
  `CancellationsAreAskedFor` (`NoSpontaneousCancel`), `WritesAreResolved`
  (`WriteIsResolved`), and `RunnerImplementsContract`: `Spec` implements
  `RunnerContract`.
* None of the properties is inductive: each speaks of the outcome, computed in the
  last step.  The invariant `IInv` carries their causes along:
  `ControlInv` (who called the reap, where an exception may be in flight, when a pull is
  pending), `WriteInv` (where the driver is determines how far a write is), `EndInv`
  (`kFinished` only after the cursor's task finished, and that does not change, lemma
  `FinishedTaskStays`) and `StopInv` (every trace of a cancellation, in `state_`, in a
  thread's place in `cancelTasks()` or in a cancelled cursor task, goes back to
  a stop request as long as the cleanup has not begun).
* The refinement needs `IInv` too: that a write is resolved inside a pull, and that
  the outcome of `Close` is one the contract allows, are facts about reachable states.

The second part of **`LocalRunnerProofs`** is about what depends on the failures.

| Theorem | Property | Excluded | Carried by |
|---|---|---|---|
| `CancelsReachEveryTask` | `CancelReachesEveryTask` | `create` | `ThreadInv` (a thread enters `onError()` or `cancelTasks()` once, so no call overwrites another), `ReachInv` |
| `FinalStatsAreCaptured` | `FinalStatsCaptured` | `create`, `split` | `StagedInv`, `StageInv` (no stage but the one being built is empty), `ScanInv`, `StatsInv` |
| `AbortsAreQuiet` | `AbortIsQuiet` | `split`, `slow` | `StagedInv` (a task that runs is in `stages_`, or is the cursor's during the build), `QuietInv` |
| `NoErrorIsMadeUp` | `NoInternalError` | `task`, `split` | `ErrorInv`, `FinishInv` |
| `StopsAreAttributed` | `StopIsAttributed` | `task`, `split` | `CancelledInv` |
| `CommitsAreReported` | `CommitIsReported` | `task`, `split` | `CommitInv`, `FinishInv` |
| `FinishedStaysFinished` | `FinishedIsFinal` | `task`, `split` | the same |

`ReachInv` is the argument for a cancel that lands while stages are built: once the
start is over, a recorded cancel or error has either stopped every task in `stages_`,
or there is *one* thread that has yet to take its copy, or whose copy holds all
the tasks that still run.  The recheck of `AdoptCursor` supplies that thread for tasks
that joined after an earlier copy.  The last four follow from one invariant,
`OutcomeInv`: with no error reported by another thread, the only `kError` is the
driver's own, and it is thrown.

**`QueryInterruptHandlerProofs`**: `TypeCorrect`, `StaleSignalsAreAbsorbed`,
`InterruptsAreNotLost`, `FenceIsAlwaysSound`, `PipeOutlivesItsUsers`, for
any set of threads, pipe capacity, read size and number of signals.  The
strengthening is `LifeInv` (what the owner's place says of pipe, drain thread and
descriptor) and `CountInv` (`signalSeq = armSeq + sinceArm` while a query is armed).

**`QueryIdGeneratorProofs`**: `TypeCorrect`, `IdsAreOrdered`, `IdsAreUnique`,
`CountersFit`, for any counter limit and day length; all but `TypeCorrect` assume a clock
that is never set back.  The invariant is `IssuedBelow`: every id is older than the
current second or has a smaller counter, except after the wait for the next second,
when the counter is reset and the clock is ahead of every id.

**`HiveCatalogProofs`**, for any number of clients, tables, partitions, indexes and
writes: `TypeCorrect`, `MemoryIsTheDisk` (`MemoryMirrorsDisk`) and `StatsAreExact`
(`StatsCountData`) without `overlap` and `mixed`; `ResultsAreKept` (`ResultsAreTrue`)
also without `plan` and `staging`.

* The statements are made of steps with and without the lock, so the argument is one of
  non-interference.  `Knows` says, for each step of a statement, what it may rely on:
  that the directory it found missing still is, that the one it made is still empty, that
  the table it writes to still has the partitioning it has seen, and that a table it
  created has no data and no added column.
  `ApartInv` gives the reason: two statements of which one creates or drops a table
  are never in progress on that table together.
* `CatalogInv` is `ClientInv` (where a statement is tells which it is) with `ApartInv`,
  `DirInv` (a directory with a schema holds data where the schema says, with exact
  `.stats`), `TablesInv` (a table in memory is what its directory loads to) and
  `KnowsInv`.  `ReportsInv` and `ResultInv` add what the returned results tell.
* `CatalogAssumption` (an index has two tables of its own, bounds are natural numbers) and
  `NoneAssumption` (the model's "no value" is no name, schema, entry or report) are
  the only assumptions on the constants.
* TLC checked the invariants for two clients and up to three tables and
  writes (1 679 395 states).

**`DPhypProofs`**, for every graph and budget: `PairsAreApart` (`PairsApart`) and
`PairsAreOfferedOnce` (`OncePerPair`), both from `EnumInvariant`.

* The recursion has no set of visited pairs; that no pair comes twice rests on the
  forbidden sets.  `EnumInv` states this for the stack as it is at any moment:
  every frame has an *ahead* set, the pairs that it and the calls it has still to make
  can offer, described by which relations they take inside the forbidden set and
  among the neighbours (`EmitAhead`, `GrowAhead`).  The ahead sets of two frames are
  disjoint, as are those of a frame and of the seeds that remain, and no pair offered so
  far lies in any (`StackInv`, `EmittedInv`, `SeedInv`).  Taking one subset out of a loop
  splits the frame's ahead set in the pair offered, what the new frame covers and
  what is left.
* `Least` names the seed a subgraph belongs to, so subgraphs of two seeds differ.
* Of the graph only `GraphsAssumption` is used: finite relations, edges between disjoint
  nonempty sides, and an Unnest edge that adds exactly one relation, as
  `addUnnestEdges()` makes them.
* TLC checked `EnumInv` on 3 145 clusters with budgets unlimited and 2 (68 016 states).

**`DPhypMemoProofs`**: `TypeCorrect` for every graph and budget; `OuterEdgesAreApplied`
(`OuterEdgesApplied`) for graphs that are `Covered`: without a budget, or without Unnests, or
with a single component.  All clusters of the run are.  `OuterInv` says that the greedy
order is entered only after the budget was exceeded, that the fallback reorders only
inner clusters, and that every plan in the memo applies each special edge within its
cover as its own operator.

**`DPhypEnforceProofs`** is about the exceptions that planning could throw
(`checkEdgesEnforced()`, and `emitCsgCmp()` on an ambiguous pair).

* `ChecksOfPlansPass`: if the edges spell out the key classes (`SpelledOut`: each
  key of a class is a plain inner edge between two relations, any two relations with
  columns of a class have an edge with a key of it, and no budget interrupts a cluster with Unnests), a step that throws
  is one of `emitCsgCmp()`: the check of the chosen plan never fails.  The reason is that
  `canonicalKeyEdges()` keeps the first edge of each class between two sides: the
  columns of a class are equal within the cover of every plan (`Linked`), so an edge it
  drops follows from the others.
* `InnerClustersNeverThrow` (`NeverThrows`): such a graph with at most one special join
  never throws at all.
* These hypotheses hold for real clusters: of the 5 770 graphs of the run, 5 374 have
  such classes, every inner cluster among them; 4 914 are `SpelledOut`, and 2 317 of these
  have at most one special join.  TLC checked `EnforceInv` on 208 of them.

**`DPhypSearchProofs`**, for every graph: the enumeration leaves nothing out.

* `EnumerationIsExhaustive` (`Exhaustive`) has no hypothesis: in every cluster, when the
  enumeration of a component ends within its budget, every operator over two disjoint
  covers is in the memo, over every pair of plans that its inputs have.  This is two
  facts in one: no pair is missed, and no plan of a cover is found after the cover
  has been built upon.
* It rests on `SearchInvariant`, which adds to the ahead sets of `EnumInv` what they leave open:
  * *Which sets are met.*  A plan's cover is `Solid`: however it is cut in two, an
    edge has one side in each part (`SolidInv`).  From each part of such a set a
    neighbour lies in the rest (`SolidGrows`), so the recursion
    reaches it by the subsets it takes of the neighbours.
  * *In which order.*  A frame `Reaches` the sets it can still get to.  What a frame reaches has no
    part that a frame below it reaches later (`OrderInv`), because the loops run from
    small subsets to large ones and the seeds downwards.  A set is `Past` once nothing
    that is still to be reached lies inside of it; then it gets no more plans.
  * *That nothing is forgotten.*  Every good pair (solid, apart, joined by an edge)
    has been offered, lies ahead of a frame, belongs to a seed that is left, or has a
    set without a plan that is `Past` (`CompleteInv`): the tests of
    `enumerateCsgRec()` and `enumerateCmpRec()` for a plan skip no pair that gets one later.
    A pair that was offered had two `Past` sets, and its candidates are in the memo (`BuiltInv`).
  * *Components.*  The memo is shared; no plan reaches into a component that is left
    (`ApartInv`), so every component starts from its leaves alone.
* `PlansAreFound` (`PlanFound`): a cluster with statistics that is `Plannable` gets a plan
  and never falls back to the written order.  There are two ways to be plannable:
  * `HasOrder` and the budget is not exceeded: there is a family of sets that contains
    all components, in which every set is a relation or two smaller ones that an operator joins.
    A smallest set of the family without a plan would have got one.  This is
    completeness of the search: if any order exists, one is found.
  * `Knit`, with whatever budget: all joins are inner, and however a component is cut
    into parts, an edge joins two of them.  `greedy()` then never gets stuck
    (`GreedyInv`: its fragments are a partition of the component into sets with
    plans).  A cluster whose edges are all inner joins of two relations is `Knit` (`BinaryIsKnit`).
* These hypotheses hold for real clusters: all inner clusters of the run without a cross join are
  `Knit`, and 628 of its 652 inner clusters are, 171 of them with statistics and a budget;
  of its 2 384 clusters with statistics and an unlimited budget every one that gets a plan
  has the family, namely the covers in its memo.  TLC checked the parts of the invariants
  on the run's clusters before they were proved.

**Only model-checked**, and why:

* the liveness properties: fairness is out of the prover's reach;
* `RootIsEquivalent`: it rests on a recursive function over plans, whose value for all
  inputs needs an induction that is out of reach;
* `PlanFound` where `Plannable` is not assumed: that a cluster without cross joins has an order
  at all depends on which edges `HypergraphBuilder` makes, and outer joins
  and Unnests can lead `greedy()` to fragments that no edge joins;
* `NeverThrows` with several special joins: that no pair is ambiguous follows from the
  conflict rules that made the edges and not from `DPhyp`;
* `OuterEdgesApplied` with several components, Unnests and a budget together.

## 5. Not modelled

* Which task a split goes to, and the topological sort of fragments: pure algorithms,
  planned (section 7).  The *end* of split enumeration, with its error and its
  cancellation, is `ScanEnds`.
* The contents of batches and statistics; plan printing; spill directories.
* `stats()` called by another thread during a run: it only reads.
* A second `execute()` on one Runner, a Runner destroyed without its cleanup: the
  documentation of `Runner` forbids both.
* Join ordering for several workers (exchanges and distributions of the inputs), the
  cost model and the dominance of plan sets, null-aware anti joins and counting semi
  joins, the replacement of a column by an equal one in the emitted tree.
* Of the runner: what a failing `abort()` leaves (it is only logged,
  `LocalRunner.cpp:433`; the model records that it was called).  Closing a split source
  cannot throw (`co_close()` is `noexcept`).  All scans of a fragment are one split
  coroutine, and storing a task and starting it (`LocalRunner.cpp:898-900`) are one step: a
  cancel between the two is a cancel of a task that has done nothing yet, as one right
  after the start may be.
* Of the enumeration: that an input which reads a loop's state is tried in one
  orientation (`DPhyp.cpp:574`), and so is a null-aware join with a filter (`:104`).
  `Orientations` tries both; no cluster of the runs has either.  The fresh columns that an outer join
  makes for its padded side go by the name of their sources; the classes of equal
  columns never hold them.
* Of the catalog: failing reads and writes of files other than those in `Faults`, and the
  checks of `finishWrite()` that the writer has reported its partitions
  (`LocalHiveConnectorMetadata.cpp:1848`): it is taken to do so.
  A partition is one entry of the staging directory, as `move()` renames entries and does
  not descend into them.
* A crash inside a catalog statement: the code has no recovery.  A directory without
  `.schema`, which a crash between `createDir()` and the write of the schema leaves, makes
  `initialize()` throw for the whole catalog.  Splits, samples, bucketing and file formats.
* `ProgressReporter`, the completion callback of `SqlQueryRunner` and the loop of
  `Console`: next in the plan.
* Parser, logical plan, optimizer v1 and the rewriting passes of v2, connectors that only
  read, printers: most of the repository's lines.  They translate trees and text on one
  thread; a model of them would repeat the code, for inputs that are unbounded data.
* Everything else of the inventory, until the plan gets there.

## 6. Findings

Five runs are expected to end in a violation.

* `find_commit`: after a durable commit has stored `kFinished`, a late error of a task
  of an earlier stage makes `onError()` (`LocalRunner.cpp:843`) store `kError`: unlike
  `cancelTasks()` it does not ask whether the query is finished.  The next pull
  throws "Runner entered the error state without an exception" for a write that is
  durable, though a commit is "the point of no return" (`LocalRunner.cpp:457`).
* `find_stats`: the split scope throws on join, so after a split coroutine failed
  `co_reap()` ends before it captures the final statistics and drops the
  tasks; `Runner.h:78` promises that `stats()` then returns final task stats.
* `find_create`: when creating the n-th task throws while a cancel has been recorded, the
  tasks started after the cancel copied its list keep running; the cleanup only
  cancels in `kRunning`.
* `find_partition`: an INSERT into new and existing partitions fails with "Partition
  already exists" (`LocalHiveConnectorMetadata.cpp:1624`), but the new ones that `move()`
  has renamed by then stay, without `.stats`, which "every partition directory is
  required to have" (`:1387`): the next load, and with it every later write to the
  table, throws.
* `find_unnest`: `expandThroughUnnests()` passes no filter edges (`DPhyp.cpp:377`).  When
  several keys compare columns of an Unnest with different relations, one of them may be
  applied nowhere and `checkEdgesEnforced()` throws, where `DPhyp.cpp:112` says that the
  caller "falls back to greedy ordering".

Four more configurations end in a violation when TLC is run on them.  Each lifts one
restriction of a passing run.

* `FindOverlap.cfg` (`MCHiveCatalog`, fault `overlap`, `MemoryMirrorsDisk`):
  `createTable()` tests for the directory before it takes the lock, so the loser of two
  calls deletes the directory that the winner has registered (`:1694`), though for a table
  that exists `ConnectorMetadata.h:1477` has it return nullptr or raise an error.
  `abortWrite()` and `finishWrite()` go by name too: after a DROP they remove, or write
  into, what another client has made.  The lock covers each call and not the statement.
* `FindPlan.cfg` (`MCHiveCatalog`, fault `plan`, `ResultsAreTrue`):
  `SqlQueryRunner.cpp:1240` says that checks run early "so a rejected CTAS leaves nothing
  behind", but the optimizer itself runs after `createTable()`, which registers the table
  at once (`:1709`); when it throws, nothing aborts and the empty table stays, though it
  "is not available via the findTable interface until after finishWrite completes"
  (`ConnectorMetadata.h:1474`).
* `FindIndex.cfg` (`MCHiveCatalog`, fault `staging`, `ResultsAreTrue`): when `beginWrite()`
  throws after `createTable()`, the failed statement leaves the table.  This is so for
  CREATE TABLE, whose trace TLC shows, and for a vector index, where the table is not yet
  among those to roll back (`:2248`), though `co_createVectorIndex()` "Creates all of it or
  none of it" (`ConnectorMetadata.h:1628`).
* `FindClock.cfg` (`QueryIdGenerator`, `UniqueIds`): a clock set back across midnight
  resets the counter (`QueryIdGenerator.cpp:80`) and an id is issued twice;
  `QueryIdGenerator.h:23` promises unique ones.

Related observations that the passing runs are restricted by:

* *Cross joins in one operand*: an edge that reads both sides of a dissolved cross join
  keeps them apart, so neither the enumeration nor `greedy()` can assemble the operand and
  the written order stays, though all statistics are known.  `hasEndpointStrandedRelation()`
  does not see this case; `PlanFound` leaves clusters with cross joins out.
* *Unnest over an outer join whose input is pruned to the array of the padded side*: its
  edge depends on the array's relation alone, and the barrier is waived for joins
  below the Unnest (`HypergraphBuilder.cpp:551`), so the memo may place it below the join.
  The run keeps all columns of such inputs.  There is no run of it: whether the code then
  throws or returns other rows depends on the columns of the emitted tree, which the model
  leaves out.
* `onError()` without a test for `kFinished` also changes the state of a *read* whose
  output was drained (a query with LIMIT): `FinishedIsFinal`, `NoInternalError` and
  `CommitIsReported` hold only without the faults `task` and `split`, whose errors reach
  `onError()` from other threads.
* When a deadline and such an error coincide, `execute()` may rethrow the
  cancellation that the cursor reported instead of the `VeloxUserError` of
  `Runner.h:72` (`Runner.cpp:161`): `StopIsAttributed` excludes them too.
* `AbortIsQuiet` fails when the reap ends early and something else has failed: with
  `slow` together with `create`, `last` or `task` (tasks that nobody cancelled
  outlive the timeout), and with `split` together with `task` (the join throws while
  another thread has copied the tasks and not yet stopped them).  An abort may then run
  beside tasks that still write.  `create` does not break it.
* `aggregatedStats()` throws on a stage without tasks; a `stats()` call while
  `makeStages()` is between the stage and its first task, or a reap after a
  failed creation, meets one: `FinalStatsCaptured` excludes the fault `create`.

## 7. Plan

In this order:

1. Proofs about the edges of `HypergraphBuilder`: that two special edges of one cluster are
   never applicable to the same pair, which extends `InnerClustersNeverThrow` to all
   `SpelledOut` clusters; that derived edges complete the classes, so that `SpelledOut`
   need not be assumed of inner clusters; that a cluster without cross joins has an order
   (`HasOrder`), namely the written one, which would free `PlansAreFound` of its hypothesis
   for unlimited budgets.
2. `SplitDistribution`: round robin, grouped routing and `noMoreSplits` of
   `co_generateAndDistributeSplits()` (each split to one task, every task told of the end).
3. `ProgressReporter`, composed with the runner's state: no poll after the destructor,
   the final report is the last one, a throwing callback is contained.
4. `SqlQueryRunner` with `Console`: completion exactly once on every path, and the loop
   composed with `QueryInterruptHandler`, so that Ctrl+C on one statement never reaches the
   next.

# TLA+ models of FORCE-RISCV

FORCE-RISCV generates random RISC-V tests. A test template (Python, `src/py`)
asks the back end (C++, `src/base`, `src/riscv`) for instructions, pages,
addresses and state; the back end executes what it generates on an instruction
set simulator and writes the finished test. A template may run one Python
thread per hart, and a regression runner (`src/utils/regression`) runs many
tests in parallel.

This directory models the parts of that program whose correctness depends on
the order in which things happen: the scheduling of generator threads, the
semaphores in generated code, the regression runner, speculative code with its
recovery, and the mapping of memory by several address spaces; and the set algebra
of constraints, on which every choice of an address rests. TLC checks the models
on small instances; TLAPS proves the most important properties for every value of
the constants.

## The parts of the system

| part | source | where it is modelled |
|---|---|---|
| scheduling strategy, thread ids, schedule lock | `base/src/SchedulingStrategy.cc`, `Scheduler.cc` | `SchedulingStrategy`, `Scheduler`, `RequestTurns`, `SchedulingRounds` |
| barriers and deadlock detection | `base/src/SynchronizeBarrier.cc` | `SynchronizeBarrier`, `DetectDeadLock` |
| thread dispatcher, call guards, Python threads | `base/src/ThreadDispatcher.cc`, `ThreadContext.cc`, `py/base/GenThreadExecutor.py` | `ThreadDispatcher` |
| semaphores shared by harts | `base/src/SemaphoreManager.cc`, `py/riscv/GenSemaphoreRISCV.py` | `GenSemaphore` |
| linear blocks, re-execution | `py/base/GenThread.py`, `base/src/GenInstructionAgent.cc` | `SemaphoreReExecution` (for the semaphore's blocks) |
| regression runner | `utils/regression/master_run.py`, `classes/`, `common/` | `MasterRun` |
| generator modes | `base/src/GenMode.cc` | `GenMode` |
| request queue, escapes, linear blocks, branch-not-taken (BNT) nodes, recovery of speculative code | `base/src/Generator.cc`, `GenInstructionAgent.cc`, `GenSequenceAgent.cc`, `GenStateAgent.cc`, `BntNode.cc`, `ResourcePeState.cc` | `SpeculativeBnt` |
| constraint sets | `base/src/Constraint.cc` | `Constraint`, `ConstraintAssembler`, `ConstraintSet`, `ConstraintSetTransforms`, `ConstraintSetAlgebra` |
| usable and shared memory of a bank | `base/src/MemoryConstraint.cc` | `LargeConstraintSet`, `VmAddressSpace` |
| physical pages, address spaces | `base/src/PhysicalPage.cc`, `PhysicalPageManager.cc`, `VmAddressSpace.cc`, `VmMapper.cc` | `PhysicalPageManager`, `VmAddressSpace` |
| memory image, named reservations, register reservation, choices, thread groups, loops, state transitions | `base/src` | not modelled, see below |
| instructions, operands, registers, address solving, exceptions, output, RISC-V tables, Python interface, builders | `base/src`, `riscv/src`, `py`, `utils` | not modelled, see below |

`PROJECT.json` has the full inventory ("components"), the lines each definition
translates ("map") and the list of what can go wrong in this code and is hard to
test ("hazards").

How they interact. Each Python thread enters the back end through a call guard:
it gives up Python's global interpreter lock (GIL), calls
`MultiThreadDispatcher::Request`, which blocks until the scheduling strategy's
current thread is the caller, and takes the GIL back. `Finish` asks the strategy
for the next thread and wakes the others. Inside its turn a thread may lock the
schedule, unlock it, or synchronize with other threads at a barrier, which takes
it off the strategy's active threads until all have come. When a thread ends it is
removed from the schedule and from all barriers.

## Modules, state and actions

Variables and operators keep the names of the code (`mNextIndex`,
`mActiveThreadIds`, `AddReachedThread`, ...). The macro `FAIL` ends the process;
it is modelled by the variable `failure`, which then holds the name of the check,
and nothing happens after it. Random choices are choices of the model.

**`SchedulingStrategy`** is `ShuffledRoundRobinSchedulingStrategy`: the state
(Random, Locked, Finishing), the shuffled vector of active threads with the index
of the next one, and the lock with its level. A shuffle is any permutation.
Indices are unsigned 32-bit: a decrement of zero is `MaxUInt32`.
**`SynchronizeBarrier`** has a barrier as a record of its threads, those that
reached it and the count of those that did not, and the deadlock predicate that
`DetectDeadLock` computes. **`Scheduler`** composes the two:
`SynchronizeWithBarrier`, `RemoveThreadId` with its notification of all barriers,
lock and unlock. These three define operations; they have no `Next`.

**`RequestTurns`** is what the dispatcher promises: requests of the current thread
one after the other, each of them whole. Its actions are the set-up of threads,
the start, the opening of a turn, the calls in it, its end with or without
advance, the end of a thread, stop and destruction. It assumes that a thread
makes no other call in the turn in which it synchronized (a template calls
`synchronizeWithBarrier` outside callbacks).

**`SchedulingRounds`** adds to `RequestTurns` which threads have been served in the
current round, to say what "round robin" means.

**`DetectDeadLock`** has the nested loops of the function step by step, with the
restart after each erased barrier, on any barriers and threads. No run checks it:
what it returns, and that every pass makes progress, is proved.

**`ThreadDispatcher`** has the threads: the mutex that counts its locks, the
condition variable with spurious wake-ups, the GIL, the executor's start
barrier, requests nested in requests, registration and unregistration. A step is
what a thread does between two points at which another can notice. It implements
`RequestTurns` under the mapping that reads the phase off the mutex (`Turn`).

**`GenSemaphore`** has the creation of a named semaphore (only the first thread
initializes memory) and the acquire and release blocks one RISC-V instruction at
a time: `LR`, `BEQ`, `ADDI`, `SC`, `BNE`. The reservation is lost when another hart
stores; an `SC` may also fail for no reason (`SCMayFail`). The counter has the
width of its store, `Modulus`. LR and SC are external: they are modelled from how
the blocks use them.

**`SemaphoreReExecution`** runs the same blocks the way the generator does: in the
thread's turn, in requests that stop after a limit of instructions or at the end
of the block. A request does not move the simulator: the address it names is the
generator's PC, and the simulator resumes at its own.

**`MasterRun`** has the main, process, summary and worker threads of a regression
with their queues. A queue is a list and a semaphore that are not changed
together, and a step is what a thread does between two accesses to shared state.
Tasks pass, fail, raise in the worker, or give a result that cannot be committed;
control items may be faulty; `Thread.start` may raise.

**`GenMode`** has a thread's mode as a set of flags, the stack of pushed modes and
the overlay of enabled ones; an operator per method and one for when it FAILs.

**`SpeculativeBnt`** is one thread's generator: the queue of requests with the
frames of the calls that serve it (script, round, linear block), the generator's
and the simulator's PC and cells (whole registers), the code placed so far, the
reserved addresses and the nodes. The scripts generate writes, branches to anywhere
(themselves and existing code included) and linear blocks, with and without having
confirmed the space for them; an action is the handling of one request, with all that
it prepends. The generator has no value of a register until an instruction has
written it, the simulator always has one. The room for escapes ends at `LastAddress`.
A saved register has a field mask in the code, which the model leaves out: the
simulator reports a register with the same mask each time (all ones, or 3 for the
privilege), so that two saved states of one register never differ in it.
When a speculative branch has been stepped, its node runs the path not taken in
speculative mode, then restores what that path changed. An instruction of such a
path may raise an exception. At the end of the test the branch to itself is
generated and the remaining BNT nodes are processed.

**`Constraint`** (one value or range), **`ConstraintAssembler`** (the vector that is
put together from blocks), **`ConstraintSet`** (merge, subtract, apply) and
**`ConstraintSetTransforms`** (transforms, alignment, queries) have the algorithms on
sorted vectors in words of `WordWidth` bits, wrapping where the code wraps. A vector
may hold null objects, as `ReplaceInRange` leaves them.
**`ConstraintSetAlgebra`** is the machine that calls them in any order beside the set
of integers that should result.

**`LargeConstraintSet`** is a constraint set with cached additions and subtractions.
**`PhysicalPageManager`** has the free ranges, the usable page numbers per page size
and the physical pages with the virtual pages they list: new, flat and aliased
allocation, merging, commit. **`VmAddressSpace`** composes them: address spaces are
created, take a block for their page tables, are initialized and activated, map pages
and the physical regions of handlers, and follow the reservations and releases that
other threads make in the memory bank. The FAILs of the way are in it: no room for
page tables, no page, a flat mapping forced twice, and those of `ReplaceInRange` when a
page is taken into a space's constraint, or the null objects it leaves.

The `MC...` modules give sets that a `.cfg` cannot write.

## The runs

States are distinct states. All runs check for deadlock unless their cfg says
that the system may stop there.

| run | instance | states | shows |
|---|---|---|---|
| `request_turns` | 4 threads, all sets of two or more to synchronize, one set with an unknown thread, lock depth 2 | 106728 | a thread off the schedule waits at exactly one barrier; threads are released together; somebody can always run; the current thread can; a locked schedule stays with its thread; no internal check fails; until a thread has waited at a barrier every thread is served once a round, also while threads end |
| `rounds_barrier` | 3 threads, one pair | - | *violation*: with barriers it is not round robin |
| `dispatcher` | 2 threads, 2 requests each, nesting 2 | 9821 | threads serve alone, nested requests never wait, no wake-up is lost, the whole implements `RequestTurns`, and every request is served and the phase ends |
| `master_run` | 3 tasks, 2 workers, limit of 2 fails, starts fail, both modes | 403799 | each task runs once and has one result; no dequeue finds the list empty; "done" means all have run; a regression ends whatever raises |
| `master_run_results` | 1 task | - | *violation*: the summary thread can leave a result in the queue |
| `semaphore` | 3 harts, counters 1, 2 and one that overflows the width, limits 9 and 7 as in the code | 138270 | no update is lost; the critical sections are bounded; one request gets through a block wherever the thread resumes in it; if a hart wants to enter, one does |
| `constraint_sets` | words of 3 bits, any sequence of calls, every set as operand | 511 | every operation computes the set it names, the vector stays sorted, disjoint and joined, and its only FAIL is the documented one; transforms, alignment and queries agree with their definition on integers, with three exceptions that the properties state exactly: when `FilterAlignedElements` never returns, when `ReplaceInRange` leaves null objects, and what a draw from the full set gives |
| `choose_full` | the same | - | *violation*: a draw from the full set can FAIL |
| `vm_memory` | 8 addresses, pages of 1 and 4, 2 spaces (one mapped flat), up to 3 operations (pages, at most 2 updates) | 279396 | free page numbers are exact for every size; a committed page is listed with its physical page unless it overlaps one of the other space there; for the listed pages a space offers exactly the memory that is usable, under any interleaving of mapping and updates within one page; a request that is neither flat nor forced never aliases a closed page; no sanity check fails, and a page clear of other pages and of page tables is taken in without a FAIL |
| `vm_span` | the same with updates that span two pages | - | *violation*: only the first page is told of the update |
| `vm_listed` | as `vm_memory` | - | *violation*: a merge drops a committed page from the list of its physical page |
| `speculation` | 4 scripted instructions, 8 simulated, addresses 0 to 5, speculation 2 deep, 2 instructions a path | 600373 | a speculative path is undone; generator and simulator stay in step; the taken path is kept free; modes are balanced; the checks that end the process fail in no case but the ones named; every round ends |

Every property of a passing run has a mutant in `PROJECT.json`: a plausible
mistake in one mapped definition, with which TLC finds the property violated.

**Bounds.** Four threads are the fewest with which two disjoint barriers are open at
once; three give overlapping barriers, a barrier opened by the end of a thread, and a
thread passed over in a round. Lock depth 2 tells an inner unlock from the last one. In
`ThreadDispatcher` two threads give one that serves and one that waits or has just been
notified, and their second requests meet a schedule that has wrapped around; any number
of threads is in the proofs. Three tasks and two workers give a queue that is not empty
while all slots are taken, and a limit of two fails that is reached while a task is
still queued; a task that passes differs from one that fails below the limit in nothing
but the count, so the first fail stands for it. Words of three bits hold three separate
elements and every case of neighbours, wrapping and a full word. Eight addresses hold
two pages of the large size, so that pages of both sizes compete, alias and merge; a
page table has the smaller size and a block has two tables or more, so that a large page
can lie partly or all over one; three operations map one page in each space and merge
them into a third, or map, update and map again, with activation and deactivation in
between. Four scripted instructions are a branch, a branch on its path, a write on that
one, and one after the return; the limit of eight simulated instructions is reached, and
with six addresses, starting at 1, so is the end of the room for escapes and each of the
FAILs that `FailsOnlyWhenExposed` names. Three harts on a counter of 2 give a hart that
spins while two others hold the semaphore. `MaxUInt32` is 999 and `NoThread` 1000, since
TLC's integers have 32 bits: all that counts is that a wrapped index is beyond every
vector and that `NoThread` is no thread.

**Fairness.** `ThreadDispatcher`: the operating system runs every thread that can
run, and CPython hands the GIL to every thread that keeps asking for it, so a
thread's steps under the GIL are strongly fair; the code of a request ends at
every depth. Nothing is assumed of spurious wake-ups, so liveness does not depend
on them. `MasterRun`: every thread goes on (weak fairness), which includes that a
task's process ends, as its timeout is meant to ensure. `GenSemaphore`: every hart
goes on and critical sections end (weak), and an `SC` that is possible again and
again succeeds in the end (strong), which the architecture promises for such
short loops. `SpeculativeBnt`: the generator goes on serving its queue, a script
that was called back returns, and one that began a linear block ends it (all
weak); it need not generate anything.

## Findings

* `DeactivateThread` takes a waiting thread out of the vector and leaves
  `mNextIndex` where it is, so the next thread of the round is passed over. The
  class is documented as round robin. The next round is a new shuffle of all active
  threads, so the thread passed over is in it again. (`rounds_barrier`)
* `SummaryThread.run` finds its queue empty, then tests whether all workers are
  done. A result and the event that both come in between leave the result
  uncommitted and missing from the summary. (`master_run_results`)
* `PhysicalPageManager::HandleMemoryConstraintUpdate` iterates over the physical
  pages that an update overlaps and calls the first one each time. A reservation that
  spans two pages leaves the virtual addresses of the second one usable.
  (`vm_span`)
* `PhysicalPage::Merge` takes two virtual pages that overlap for the same page, also
  when they belong to different spaces, and drops one of them from the list that is
  documented to hold all. Updates of the memory then no longer reach its space.
  (`vm_listed`)
* `ConstraintSet::ChooseValue` on the set of all values, which its comment and a unit
  test say works: the size wraps to 0, and the offset 0 FAILs. (`choose_full`)

## What is proved

All proofs hold for every value of the constants that satisfies the named
assumptions: a finite, nonempty set of thread numbers without `NoThread`, finite
sets to synchronize with, natural bounds; a finite set of harts, natural counters
and a positive modulus; any number of tasks and at least one worker; page sizes of
which any two divide one another and which divide the memory. The bounds of the runs
(`MaxPages`, `NumTasks`, ...) are constants as well, so a theorem covers all of them.

Every safety property of the runs is proved but those of `ConstraintSetAlgebra` and
`SpeculativeBnt`. Each proof has an inductive invariant,
one lemma for each action that preserves it, and a theorem for each property that
follows.

**`RequestTurnsProofs`** proves every property of the run `request_turns`. None of the
interesting ones is inductive alone. That somebody is active after a
thread waits needs `~DeadLock`, which `Validate` establishes at each new barrier
and which must survive the end of threads and the opening of barriers; that needs
the exact counts, since a barrier opens when its count, not its set, says so; the
counts need that a thread reaches a barrier once, and so that threads off the
schedule wait at exactly one. `IInv` is the conjunction of all of them with
`SchedulerConsistent`. The proof goes through three parts of it that few
actions disturb together: the barriers with the active threads, the lock, and
the turn. The module begins with the lemmas on the vector of active threads
(removal, insertion, shuffle, what the index may be) and on barriers (counts when a
thread reaches a barrier or ends, the sequence of barriers opened by the end of a
thread, and that the absence of a deadlock survives it).
From `IInv` follow the two action properties: `ReleasedTogether` and
`LockedScheduleStays`. `EveryRoundServesAll` speaks of the history
that `SchedulingRounds` adds; `RoundsAreTurns` carries `IInv` over to it, and
`RoundsInv` says in addition that the threads still to be served are the ones the
vector has behind `mNextIndex` (`RoundStands`). It is proved until the first barrier:
the run `rounds_barrier` shows that it does not hold after it.

**`ThreadDispatcherProofs`** proves that threads with a mutex, a condition variable, the
GIL, nested requests and registration implement `RequestTurns` (`TakesTurns`), for any
number of threads, requests and depth of nesting. `DInv` ties a thread's place in the
protocol to the mutex: its owner is the only thread that serves, it has the turn, and the
count of the mutex is positive; a thread that sleeps although it has the turn will be notified. With
it each step is one of `RequestTurns` or leaves the scheduler and the phase as they are.
The same invariant gives `ServesAlone`, `NestedNeverWaits`, `NoLostWakeup` and
`DispatchNeverFails`. `NoInternalFailure` and the other promises of the scheduler are
transferred through the refinement, not proved again.

**`SynchronizationProofs`** has three parts. The first proves the loop invariant of
`DetectDeadLock` and that what the function returns is the predicate `DeadLock`, for all
barriers and threads; so the predicate in `Scheduler` stands for the loop in the code.
`EveryPassCounts` says that each pass erases a barrier, finds one more blocked or
returns, so that the loop ends although each removal starts it anew. The second proves
types, `CounterExact` and `CriticalBounded` of `GenSemaphore` for any number of harts.
The strengthening is `ReservedMeansCurrent`: a hart whose reservation is valid has read
what memory still holds, so what it stores is one less, or one more, than what is there.
With it each successful store changes the counter and the holders by one;
`HoldersFinite`, `OneMoreHolder` and `OneHolderLess` count them. The third shows that
`SemaphoreReExecution` implements `GenSemaphore`, so that it keeps the count as well,
and proves `OneRequestSuffices` for any limits of at least 9 and 7 instructions, which
are the ones the code passes. The measure is `Remaining`, the instructions to the end of
the block if no other hart stores: an attempt that lost its reservation (`Doomed`) costs
what is left of it and a whole one. `RequestInv` says that what a request has executed
and what remains are at most 2n - 1 for a block of n instructions, and each instruction
lowers `Remaining` (`StepApproaches`).

**`MasterRunProofs`** proves `DequeueFindsItem`, `EachTaskOnce` and `DoneMeansAllRun` for any
number of tasks and workers and any limit of fails. A queue's list and its semaphore
change in two steps, so `SemaphoresExact` relates them through the threads that are
in between; `CountExact` does the same for the count of workers, as a cardinality;
`PlacesInv` says that a task is in one place only, and `LoopInv` what each thread
knows when it has left a loop. `DoneMeansAllRun` needs all four: the process thread
reads the queue, the flag and the count one after the other.

**`MemoryBankProofs`** is about single calls on the parts of a memory bank. For
`LargeConstraintSet` it proves, for every universe of addresses, that readers
cannot tell the caches are there: an addition adds, a subtraction removes, reading
changes nothing, and an object that is cleared and initialized again is new
although `Clear` leaves its state bits. The invariant is `Consistent`: at most one
cache is filled, and only when its bit is set. `ValueClosedForm` then gives the set a
reader sees whatever the order in which caches are applied. For
`PhysicalPageManager` it proves that allocation, aliasing, merging and commit keep
`PoolInv`: frames are disjoint, the allocated addresses are theirs, and the page
numbers on offer for each size are exactly those whose pages are free. The merge of
two lists of virtual pages and the bisection that finds a place in one are loops;
what they compute is proved by induction over their steps, stated with sets
(`MergeInv`, `BisectStates`) since a least counterexample is a fact on sets.

**`VmAddressSpaceProofs`** proves `PagePoolExact` and `CommittedPagesListed` from
`VInv`: `PoolInv`, the pages of a space apart from each other, the pages that a physical
page lists inside its frame, and the committed ones listed. **`VirtualUsableProofs`**
proves from it that no step maps a page onto a frame that is closed to aliasing
(`ClosedPagesNotAliased`), `MappingNeverFails` and `VirtualUsableExact`. `FInv` adds to
`VInv` what a space says of the addresses it has not mapped: none is shared, and all are
usable but those of its page tables, unless the space is flat mapped. A new page that is
clear of the others and of the tables therefore replaces a range all of which is in the
constraint, which is one object of the vector; what replaces it takes one at least, so
that `ReplaceInRange` neither FAILs nor leaves null objects (`ReplaceSucceeds`). That
holds with updates that span pages too. `UInv` adds to `FInv`, page by page, that the
space calls usable and shared what the bank does. This one assumes `~SpanUpdates`: with
updates that span two pages it is false (`vm_span`).

**`GenModeProofs`** proves, for every set of flags, that each operation keeps a mode
`Consistent` (the overlay is part of the mode, the stack grows upwards and never
sees the overlay), that a pop gives back what the push found, and that a disable
undoes an enable if none of its flags was enabled before.

**Only model-checked.** Liveness (`AllThreadsFinish`, `RunEnds`, `Progress`,
`RoundsFinish`), which needs fairness and is out of this prover's
reach. The constraint sets, whose algorithms are `RECURSIVE` operators over vectors
that the prover does not take. `SpeculativeBnt`: its invariant has to say
what the queue of requests will do to the generator and the simulator when it is served.

## What is not modelled, and why

Operand and address solving are arithmetic on 64-bit values, beyond TLC. The
instruction, register, page table and exception tables are data, and most of the
implementation's lines are such tables or generated code. Test output, the
builders of XML files and the parsing of control files and logs are sequential
input and output. The Python interface and the front end forward their arguments;
their effect on threads is in `ThreadDispatcher`. The simulator is another
program. Restore loops do not run for RISC-V: `GeneratorRISCV.cc` has the creation
of their manager commented out. The memory image, named and register
reservations, the choices moderator, thread groups, loops and state transitions are
left out; `PROJECT.json` has the reason for each.

Within what is modelled, these are left out:

* barriers requested from inside a nested request; a task's process that survives
  its signals; the registers of a semaphore's blocks being changed between acquire
  and release;
* in `SpeculativeBnt`, the stack of BNT hooks, loops, register fields, free space
  smaller than an instruction, and scripts that end a linear block in another scope
  than the one that began it. How the address solver and `PcSpacing` choose targets
  is not modelled either: any target can be chosen. So the FAILs that
  `FailsOnlyWhenExposed` names may be rarer in the code: they follow a branch to itself
  or a speculative branch into existing code, whose node restores the PC to the target
  although the code there has been re-executed, or a linear block whose space was
  not confirmed;
* in `VmAddressSpace`, memory attributes, the sets of addresses to be reused, page
  table walks and the pages of the tables, and with them a block that is taken while a
  space maps its essential regions (its state is still Uninitialized, so that the
  update passes it by); regions that may be aliased (boot code, address tables), regions
  whose mapping is deferred, and the mapper's list of contexts;
* in the constraint sets, alignment of the full word and the cases where the code's own
  rounding wraps around the word: the operators compute what the code does, but the
  properties say nothing of them; each property names the ones it excludes.

Hazards that were seen in this code and that no property covers, besides the ones
noted in `PROJECT.json`:

* `Scheduler.cc:539`: a barrier requested inside a nested request deactivates the
  thread although the outer request holds the mutex.
* `GenSemaphoreRISCV.py:45`: the registers chosen in `__enter__` are not reserved and
  are used again in `__exit__`.
* `GenThread.py:353`: the loop of `endLinearBlock` ends only at the end address, which
  a branch out of the block never reaches.
* `RegisteredSetModifier.cc:98`: a set applied with a lower id after a higher one hides
  the higher one from a revert.
* `MemoryReservation.cc:109` and `:77`: the copy of the initial constraint misses ranges
  added later; a range of size zero at address zero passes the wrap-around test.
* `PageTableConstraint.cc:109`: the halving loop never tries a block of one table.
* `VmMappingStrategy.cc:102`: the page at the maximal physical address stays usable when
  it is the upper bound of the usable set.
* `MemoryConstraint.cc:288`: a ReadWrite access leaves an address to be reused although
  the comment says that other cases do not allow it.
* `GenInstructionAgent.cc:145`: a branch with `NoBnt` on a speculative path queues the
  outer node's Execute request again.
* `ResourcePeState.cc:178`: two saved states of a register are identical whatever field
  mask they were saved with. With this simulator the masks do not differ.

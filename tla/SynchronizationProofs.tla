------------------------ MODULE SynchronizationProofs ------------------------
(***************************************************************************)
(* Proofs about the two ways in which threads synchronize: at barriers of  *)
(* the generator, whose deadlocks DetectDeadLock finds, and through        *)
(* semaphores in the generated code.  The loop of DetectDeadLock computes  *)
(* DeadLock, for any barriers and any threads, which justifies the use of  *)
(* DeadLock in Scheduler.  The semaphore keeps its count, and bounds its   *)
(* critical sections, for any number of harts, any counter and any width,  *)
(* and a re-execution request gets through a block within its limit.       *)
(***************************************************************************)
EXTENDS DetectDeadLock, SemaphoreReExecution, FiniteSetTheorems, TLAPS

-----------------------------------------------------------------------------
(* DetectDeadLock *)

(* Nothing is removed at the start.                                        *)
LEMMA LoopInvariantInit == LoopInit => LoopInvariant
  BY Zenon DEF LoopInit, LoopInvariant

(* A removed barrier is in no blocked set: the rest of such a set frees    *)
(* all the threads that are free in the loop, and more.                    *)
LEMMA EraseKeepsBlockedSets ==
  ASSUME LoopInvariant, NEW b \in barriers, NonBlocked(b),
         NEW rest \in SUBSET mBarriers,
         Blocked(rest, mBarriers, scheduled_threads, active_threads)
  PROVE  b \notin rest
  <1>1. rest \subseteq barriers
    BY Zenon DEF LoopInvariant
  <1>2. free_threads \subseteq active_threads \cup UNION {c.reached : c \in mBarriers \ rest}
    BY <1>1 DEF LoopInvariant
  <1>3. b \in rest => ~(b.synchronized \cap scheduled_threads
                          \subseteq free_threads \cup b.reached)
    BY <1>2, Zenon DEF Blocked
  <1> QED
    BY <1>3, Zenon DEF NonBlocked

(* Every pass through the loop keeps LoopInvariant.                        *)
LEMMA LoopInvariantNext == LoopInvariant /\ [LoopNext]_loopVars => LoopInvariant'
  <1> SUFFICES ASSUME LoopInvariant, [LoopNext]_loopVars PROVE LoopInvariant'
    BY Zenon
  <1>1. ASSUME NEW b \in barriers, EraseBarrier(b) PROVE LoopInvariant'
    <2>1. /\ b \in barriers /\ NonBlocked(b) /\ result = "running"
          /\ barriers' = barriers \ {b}
          /\ free_threads' = free_threads \cup b.reached
          /\ blocked' = {}
          /\ result' = result
          /\ mBarriers' = mBarriers
          /\ scheduled_threads' = scheduled_threads
          /\ active_threads' = active_threads
      BY <1>1, Zenon DEF EraseBarrier, inputs
    <2>2. mBarriers \ barriers' = (mBarriers \ barriers) \cup {b}
      BY <2>1, Zenon DEF LoopInvariant
    <2>3. free_threads' = active_threads \cup UNION {c.reached : c \in mBarriers \ barriers'}
      BY <2>1, <2>2 DEF LoopInvariant
    <2>4. ASSUME NEW rest \in SUBSET mBarriers,
                 Blocked(rest, mBarriers, scheduled_threads, active_threads)
          PROVE  rest \subseteq barriers \ {b}
      <3>1. b \notin rest
        BY <2>1, <2>4, EraseKeepsBlockedSets, Zenon
      <3> QED
        BY <3>1, <2>4, Zenon DEF LoopInvariant
    <2> QED
      BY <2>1, <2>3, <2>4, Zenon DEF LoopInvariant
  <1>2. ASSUME NEW b \in barriers, SkipBarrier(b) PROVE LoopInvariant'
    BY <1>2, Zenon DEF SkipBarrier, inputs, LoopInvariant, NonBlocked
  <1>3. CASE Return
    BY <1>3, Zenon DEF Return, inputs, LoopInvariant, NonBlocked
  <1>4. CASE UNCHANGED loopVars
    BY <1>4, Zenon DEF loopVars, LoopInvariant, NonBlocked
  <1> QED
    BY <1>1, <1>2, <1>3, <1>4, Zenon DEF LoopNext

(* If barriers are left when the loop ends, they are a blocked set.        *)
LEMMA LoopInvariantReturns == LoopInvariant => ReturnsDeadLock
  <1> SUFFICES ASSUME LoopInvariant, result # "running"
               PROVE  result = "deadlock"
                        <=> DeadLock(mBarriers, scheduled_threads, active_threads)
    BY Zenon DEF ReturnsDeadLock
  <1>1. Blocked(barriers, mBarriers, scheduled_threads, active_threads)
    BY Zenon DEF LoopInvariant, NonBlocked, Blocked
  <1>2. barriers # {} => DeadLock(mBarriers, scheduled_threads, active_threads)
    BY <1>1, Zenon DEF DeadLock, LoopInvariant
  <1>3. DeadLock(mBarriers, scheduled_threads, active_threads) => barriers # {}
    BY Zenon DEF DeadLock, LoopInvariant
  <1> QED
    BY <1>2, <1>3, Zenon DEF LoopInvariant

(* DetectDeadLock keeps LoopInvariant, in whatever order it visits the     *)
(* barriers.                                                               *)
THEOREM LoopInvariantHolds == LoopSpec => []LoopInvariant
  BY LoopInvariantInit, LoopInvariantNext, PTL DEF LoopSpec

(* DetectDeadLock returns true exactly if some of the barriers are         *)
(* deadlocked, and so the result does not depend on the order of mBarriers.*)
THEOREM LoopReturnsDeadLock == LoopSpec => []ReturnsDeadLock
  BY LoopInvariantHolds, LoopInvariantReturns, PTL

(* The loop of DetectDeadLock comes nearer to its end with every pass.     *)
THEOREM LoopEveryPassCounts == LoopSpec => EveryPassCounts
  <1> DEFINE Counts == /\ result = "running"
                       /\ \/ \E b \in barriers : barriers' = barriers \ {b}
                          \/ barriers' = barriers /\ \E b \in barriers \ blocked : blocked' = blocked \cup {b}
                          \/ result' # "running"
  <1>1. LoopNext => Counts
    <2>1. ASSUME NEW b \in barriers, EraseBarrier(b) PROVE Counts
      BY <2>1, Zenon DEF EraseBarrier
    <2>2. ASSUME NEW b \in barriers, SkipBarrier(b) PROVE Counts
      BY <2>2, Zenon DEF SkipBarrier
    <2>3. ASSUME Return PROVE Counts
      <3>1. result' \in {"none", "deadlock"} /\ result = "running"
        BY <2>3, Zenon DEF Return
      <3> QED
        BY <3>1
    <2> QED
      BY <2>1, <2>2, <2>3, Zenon DEF LoopNext
  <1> QED
    BY <1>1, PTL DEF LoopSpec, EveryPassCounts

-----------------------------------------------------------------------------
(* GenSemaphore *)

\* The harts that hold the semaphore are finitely many.
LEMMA HoldersFinite ==
    IsFiniteSet(Holders) /\ Cardinality(Holders) \in Nat
BY HartsAssumption, FS_Subset, FS_CardinalityType, Zenon DEF Holders

\* A step in which one hart begins to hold the semaphore adds one holder.
LEMMA OneMoreHolder ==
    ASSUME NEW h \in Harts, ~Holds(h), Holds(h)',
           \A g \in Harts \ {h} : Holds(g)' <=> Holds(g)
    PROVE  Cardinality(Holders)' = Cardinality(Holders) + 1
<1>1. Holders' = Holders \cup {h}
    BY Zenon DEF Holders
<1>2. h \notin Holders
    BY Zenon DEF Holders
<1>3. Cardinality(Holders \cup {h}) = Cardinality(Holders) + 1
    BY <1>2, HoldersFinite, FS_AddElement, Zenon
<1>. QED
    BY <1>1, <1>3, Zenon

\* A step in which one hart stops holding the semaphore removes one holder,
\* and there was one.
LEMMA OneHolderLess ==
    ASSUME NEW h \in Harts, Holds(h), ~Holds(h)',
           \A g \in Harts \ {h} : Holds(g)' <=> Holds(g)
    PROVE  /\ Cardinality(Holders)' = Cardinality(Holders) - 1
           /\ Cardinality(Holders) > 0
<1>1. Holders' = Holders \ {h}
    BY Zenon DEF Holders
<1>2. h \in Holders
    BY Zenon DEF Holders
<1>3. Cardinality(Holders \ {h}) = Cardinality(Holders) - 1
    BY <1>2, HoldersFinite, FS_RemoveElement, Zenon
<1>4. Cardinality(Holders) > 0
    BY <1>2, HoldersFinite, FS_EmptySet
<1>. QED
    BY <1>1, <1>3, <1>4, Zenon

\* A step that changes no hart's hold changes no count.
LEMMA SameHolders ==
    ASSUME \A g \in Harts : Holds(g)' <=> Holds(g)
    PROVE  Cardinality(Holders)' = Cardinality(Holders)
<1>1. Holders' = Holders
    BY Zenon DEF Holders
<1>. QED
    BY <1>1, Zenon

\* Arithmetic of the counter within its width.
LEMMA WidthFacts ==
    /\ \A n \in Nat : n % Modulus \in Values
    /\ \A v \in Values : (v - 1) % Modulus \in Values /\ (v + 1) % Modulus \in Values
    /\ \A v \in Values : v # 0 => (v - 1) % Modulus = v - 1
    /\ \A v \in Values : v + 1 < Modulus => (v + 1) % Modulus = v + 1
    /\ 0 \in Values
BY ModulusAssumption, SMTT(30) DEF Values

\* A construction of the semaphore keeps the invariant.
LEMMA GenSemaphoreKeeps ==
    ASSUME NEW h \in Harts, IInv, GenSemaphore(h)
    PROVE  IInv'
<1>1. TypeOK'
    <2>1. mem' \in Values /\ initial' \in Values
        <3>1. \A counter \in Counters : counter % Modulus \in Values
            BY WidthFacts, CountersAssumption, Zenon
        <3>. QED
            BY <3>1, Zenon DEF IInv, TypeOK, GenSemaphore
    <2>2. exists' \in BOOLEAN
        BY Zenon DEF IInv, TypeOK, GenSemaphore
    <2>3. block' \in [Harts -> Blocks]
        BY Zenon DEF IInv, TypeOK, GenSemaphore, Blocks
    <2>. QED
        BY <2>1, <2>2, <2>3, Zenon DEF IInv, TypeOK, GenSemaphore
<1>2. CounterExact'
    <2>1. Cardinality(Holders)' = Cardinality(Holders)
        <3>1. \A g \in Harts : Holds(g)' <=> Holds(g)
            BY Zenon DEF IInv, TypeOK, GenSemaphore, Holds
        <3>. QED
            BY <3>1, SameHolders, Zenon
    <2>2. CASE exists
        BY <2>1, <2>2, Zenon DEF IInv, CounterExact, GenSemaphore
    <2>3. CASE ~exists
        <3>1. Holders = {}
            BY <2>3, Zenon DEF IInv, Holders, Holds
        <3>2. Cardinality(Holders) = 0
            BY <3>1, FS_EmptySet, Zenon
        <3>3. initial' \in Nat
            BY <1>1, ModulusAssumption DEF TypeOK, Values
        <3>4. mem' = initial'
            BY <2>3, Zenon DEF GenSemaphore
        <3>5. \A n \in Nat : \A k : k = 0 => n + k = n
            OBVIOUS
        <3>. QED
            BY <2>1, <3>2, <3>3, <3>4, <3>5, Zenon DEF CounterExact
    <2>. QED
        BY <2>2, <2>3, Zenon
<1>3. ReservedMeansCurrent'
    BY Zenon DEF IInv, TypeOK, ReservedMeansCurrent, GenSemaphore
<1>. QED
    BY <1>1, <1>2, <1>3, Zenon DEF IInv, TypeOK, GenSemaphore

\* Entering a block keeps the invariant.
LEMMA EnterKeeps ==
    ASSUME NEW h \in Harts, IInv, EnterAcquire(h) \/ EnterRelease(h)
    PROVE  IInv'
<1>1. TypeOK'
    BY DEF IInv, TypeOK, EnterAcquire, EnterRelease, Blocks
<1>2. \A g \in Harts : Holds(g)' <=> Holds(g)
    BY DEF IInv, TypeOK, EnterAcquire, EnterRelease, Holds
<1>3. CounterExact'
    BY <1>2, SameHolders, Zenon DEF IInv, CounterExact, EnterAcquire, EnterRelease
<1>4. ReservedMeansCurrent'
    <2>1. h \notin reserved
        BY Zenon DEF IInv, ReservedMeansCurrent, EnterAcquire, EnterRelease
    <2>2. /\ \A g \in Harts : g # h => block'[g] = block[g] /\ pc'[g] = pc[g]
          /\ reserved' = reserved /\ counterReg' = counterReg /\ mem' = mem
        BY Zenon DEF IInv, TypeOK, EnterAcquire, EnterRelease
    <2>3. reserved \subseteq Harts
        BY Zenon DEF IInv, TypeOK
    <2>. QED
        BY <2>1, <2>2, <2>3, Zenon DEF IInv, ReservedMeansCurrent
<1>. QED
    BY <1>1, <1>3, <1>4 DEF IInv, TypeOK, EnterAcquire, EnterRelease

\* An instruction that does not store keeps the invariant.
LEMMA LocalInstructionKeeps ==
    ASSUME NEW h \in Harts, IInv,
           \/ LoadReserved(h) \/ RetryIfZero(h) \/ AddImmediate(h)
           \/ StoreFails(h) \/ RetryIfFailed(h)
    PROVE  IInv'
<1>0. Target(1, -2) = 0 /\ Target(4, -8) = 0 /\ Target(3, -6) = 0
    BY DEF Target
<1>1. CASE LoadReserved(h)
    <2>1. TypeOK' /\ (\A g \in Harts : Holds(g)' <=> Holds(g))
        BY <1>1 DEF IInv, TypeOK, LoadReserved, Holds
    <2>2. CounterExact'
        BY <1>1, <2>1, SameHolders, Zenon DEF IInv, CounterExact, LoadReserved
    <2>3. ReservedMeansCurrent'
        BY <1>1 DEF IInv, TypeOK, ReservedMeansCurrent, LoadReserved
    <2>. QED
        BY <1>1, <2>1, <2>2, <2>3 DEF IInv, TypeOK, LoadReserved
<1>2. CASE RetryIfZero(h)
    <2>1. TypeOK' /\ (\A g \in Harts : Holds(g)' <=> Holds(g))
        BY <1>0, <1>2 DEF IInv, TypeOK, RetryIfZero, Holds
    <2>2. CounterExact'
        BY <1>2, <2>1, SameHolders, Zenon DEF IInv, CounterExact, RetryIfZero
    <2>3. ReservedMeansCurrent'
        BY <1>0, <1>2 DEF IInv, TypeOK, ReservedMeansCurrent, RetryIfZero
    <2>. QED
        BY <1>2, <2>1, <2>2, <2>3, Zenon DEF IInv, TypeOK, RetryIfZero
<1>3. CASE AddImmediate(h)
    <2>1. TypeOK' /\ (\A g \in Harts : Holds(g)' <=> Holds(g))
        BY <1>3, WidthFacts DEF IInv, TypeOK, AddImmediate, Holds
    <2>2. CounterExact'
        BY <1>3, <2>1, SameHolders, Zenon DEF IInv, CounterExact, AddImmediate
    <2>3. ReservedMeansCurrent'
        BY <1>3, WidthFacts DEF IInv, TypeOK, ReservedMeansCurrent, AddImmediate
    <2>. QED
        BY <1>3, <2>1, <2>2, <2>3 DEF IInv, TypeOK, AddImmediate
<1>4. CASE StoreFails(h)
    <2>1. TypeOK' /\ (\A g \in Harts : Holds(g)' <=> Holds(g))
        BY <1>4 DEF IInv, TypeOK, StoreFails, AtStore, Holds
    <2>2. CounterExact'
        BY <1>4, <2>1, SameHolders, Zenon DEF IInv, CounterExact, StoreFails
    <2>3. ReservedMeansCurrent'
        BY <1>4 DEF IInv, TypeOK, ReservedMeansCurrent, StoreFails, AtStore
    <2>. QED
        BY <1>4, <2>1, <2>2, <2>3 DEF IInv, TypeOK, StoreFails, AtStore
<1>5. CASE RetryIfFailed(h)
    <2>1. TypeOK'
        BY <1>0, <1>5 DEF IInv, TypeOK, RetryIfFailed, Retry, Blocks
    <2>2. \A g \in Harts : Holds(g)' <=> Holds(g)
        <3>1. /\ \A g \in Harts : g # h => block'[g] = block[g] /\ pc'[g] = pc[g]
              /\ statusReg' = statusReg
            BY <1>5, Zenon DEF IInv, TypeOK, RetryIfFailed, Retry
        <3>2. Holds(h)' <=> Holds(h)
            BY <1>0, <1>5 DEF IInv, TypeOK, RetryIfFailed, Retry, Holds
        <3>. QED
            BY <3>1, <3>2, Zenon DEF Holds
    <2>3. CounterExact'
        BY <1>5, <2>2, SameHolders, Zenon DEF IInv, CounterExact, RetryIfFailed, Retry
    <2>4. ReservedMeansCurrent'
        BY <1>0, <1>5 DEF IInv, TypeOK, ReservedMeansCurrent, RetryIfFailed, Retry
    <2>. QED
        BY <1>0, <1>5, <2>1, <2>3, <2>4 DEF IInv, TypeOK, RetryIfFailed, Retry
<1>. QED
    BY <1>1, <1>2, <1>3, <1>4, <1>5, Zenon

\* A store conditional that succeeds keeps the invariant: what it writes is
\* one less, or one more, than what memory holds at that moment.
LEMMA StoreKeeps ==
    ASSUME NEW h \in Harts, IInv, StoreSucceeds(h)
    PROVE  IInv'
<1>. DEFINE n == Cardinality(Holders)
<1>0. n \in Nat /\ mem \in Values /\ initial \in Values /\ mem + n = initial
    BY HoldersFinite, Zenon DEF IInv, TypeOK, CounterExact
<1>1. \A g \in Harts \ {h} : Holds(g)' <=> Holds(g)
    BY Zenon DEF IInv, TypeOK, StoreSucceeds, Holds
<1>2. TypeOK'
    BY DEF IInv, TypeOK, StoreSucceeds, AtStore
<1>3. ReservedMeansCurrent'
    BY Zenon DEF ReservedMeansCurrent, StoreSucceeds
<1>4. CounterExact'
    <2>1. CASE block[h] = "acquire"
        <3>1. pc[h] = 3 /\ mem' = mem - 1 /\ mem # 0 /\ initial' = initial
            BY <2>1 DEF IInv, TypeOK, ReservedMeansCurrent, StoreSucceeds, AtStore
        <3>2. ~Holds(h) /\ Holds(h)'
            BY <2>1, <3>1 DEF IInv, TypeOK, StoreSucceeds, Holds
        <3>3. n' = n + 1
            BY <1>1, <3>2, OneMoreHolder, Zenon
        <3>. HIDE DEF n
        <3>4. mem' + n' = initial'
            BY <1>0, <3>1, <3>3 DEF Values
        <3>. QED
            BY <3>4, Zenon DEF CounterExact, n
    <2>2. CASE block[h] = "release"
        <3>1. pc[h] = 2 /\ mem' = (mem + 1) % Modulus /\ initial' = initial
            BY <2>2 DEF IInv, TypeOK, ReservedMeansCurrent, StoreSucceeds, AtStore
        <3>2. Holds(h) /\ ~Holds(h)'
            BY <2>2, <3>1 DEF IInv, TypeOK, StoreSucceeds, Holds
        <3>3. n' = n - 1 /\ n > 0
            BY <1>1, <3>2, OneHolderLess, Zenon
        <3>. HIDE DEF n
        <3>4. mem + 1 < Modulus
            BY <1>0, <3>3, ModulusAssumption DEF Values
        <3>5. mem' = mem + 1
            BY <1>0, <3>1, <3>4, WidthFacts, Zenon
        <3>6. mem' + n' = initial'
            BY <1>0, <3>1, <3>3, <3>5 DEF Values
        <3>. QED
            BY <3>6 DEF CounterExact, n
    <2>. QED
        BY <2>1, <2>2, Zenon DEF StoreSucceeds, AtStore
<1>. QED
    BY <1>2, <1>3, <1>4 DEF IInv, TypeOK, StoreSucceeds, AtStore

\* IInv holds in every reachable state.
THEOREM Invariance == Spec => []IInv
<1>1. Init => IInv
    <2>. SUFFICES ASSUME Init PROVE IInv
        BY Zenon
    <2>1. Holders = {}
        BY Zenon DEF Init, Holders, Holds
    <2>2. Cardinality(Holders) = 0
        BY <2>1, FS_EmptySet, Zenon
    <2>3. TypeOK
        <3>1. exists \in BOOLEAN /\ mem \in Values /\ initial \in Values
            BY WidthFacts, Zenon DEF Init
        <3>. QED
            BY <3>1, WidthFacts DEF Init, TypeOK, Blocks
    <2>4. ReservedMeansCurrent
        BY Zenon DEF Init, ReservedMeansCurrent
    <2>5. CounterExact
        BY <2>2 DEF Init, CounterExact
    <2>. QED
        BY <2>3, <2>4, <2>5, Zenon DEF Init, IInv
<1>2. IInv /\ [Next]_vars => IInv'
    <2>. SUFFICES ASSUME IInv, [Next]_vars PROVE IInv'
        BY Zenon
    <2>1. CASE Next
        <3>. PICK h \in Harts : GenSemaphore(h) \/ EnterAcquire(h) \/ EnterRelease(h) \/ Instruction(h)
            BY <2>1, Zenon DEF Next
        <3>. QED
            BY GenSemaphoreKeeps, EnterKeeps, LocalInstructionKeeps, StoreKeeps, Zenon DEF Instruction
    <2>2. CASE UNCHANGED vars
        <3>1. Cardinality(Holders)' = Cardinality(Holders)
            BY <2>2, SameHolders, Zenon DEF vars, Holds
        <3>. QED
            BY <2>2, <3>1, Zenon DEF vars, IInv, TypeOK, ReservedMeansCurrent, CounterExact
    <2>. QED
        BY <2>1, <2>2, Zenon
<1>. QED
    BY <1>1, <1>2, PTL DEF Spec

\* The variables keep their types: branches stay in their blocks, and the
\* counter never leaves its width.
THEOREM TypeCorrect == Spec => []TypeOK
<1>1. IInv => TypeOK
    BY Zenon DEF IInv
<1>. QED
    BY <1>1, Invariance, PTL

\* The counter in memory is the initial one less the holders, always.
THEOREM CounterIsExact == Spec => []CounterExact
<1>1. IInv => CounterExact
    BY Zenon DEF IInv
<1>. QED
    BY <1>1, Invariance, PTL

\* The critical sections are never more than the counter allows: with a
\* counter of one, mutual exclusion.
THEOREM CriticalIsBounded == Spec => []CriticalBounded
<1>1. IInv => CriticalBounded
    <2>. SUFFICES ASSUME IInv PROVE CriticalBounded
        BY Zenon
    <2>. DEFINE C == {h \in Harts : block[h] = "critical"}
    <2>1. C \subseteq Holders
        BY Zenon DEF Holders, Holds
    <2>2. Cardinality(C) <= Cardinality(Holders) /\ Cardinality(C) \in Nat
        BY <2>1, HoldersFinite, FS_Subset, FS_CardinalityType, Zenon
    <2>3. Cardinality(Holders) <= initial
        BY HoldersFinite DEF IInv, TypeOK, Values, CounterExact
    <2>4. initial \in Nat
        BY ModulusAssumption DEF IInv, TypeOK, Values
    <2>. QED
        BY <2>2, <2>3, <2>4, HoldersFinite DEF CriticalBounded
<1>. QED
    BY <1>1, Invariance, PTL

-----------------------------------------------------------------------------
(* SemaphoreReExecution *)

\* What a thread does while the test is generated, and what a hart does on the
\* machine, is a step of GenSemaphore or leaves the semaphore alone.
LEMMA ReStepIsStep ==
    ASSUME [ReNext]_reVars
    PROVE  [Next]_vars
<1>1. CASE Running(Next)
    BY <1>1, Zenon DEF Running
<1>2. CASE GenerateNext
    <2>. PICK h \in Harts : Generate(h) \/ ReExecution(h) \/ Step(h)
        BY <1>2, Zenon DEF GenerateNext
    <2>. QED
        BY Zenon DEF Generate, ReExecution, Step, Next
<1>3. CASE UNCHANGED reVars
    BY <1>3, Zenon DEF reVars
<1>. QED
    BY <1>1, <1>2, <1>3, Zenon DEF ReNext

\* The generation of a test and its run are behaviours of the semaphore.
THEOREM ReExecutionIsExecution == ReSpec => Spec
<1>1. ReInit => Init
    BY Zenon DEF ReInit
<1>2. [ReNext]_reVars => [Next]_vars
    BY ReStepIsStep, Zenon
<1>. QED
    BY <1>1, <1>2, PTL DEF ReSpec, Spec

\* While blocks are re-executed in turns, with requests that stop anywhere in
\* them, the count is kept as well, and the critical sections are bounded.
THEOREM ReExecutionKeepsCount == ReSpec => []CounterExact /\ []CriticalBounded
    BY ReExecutionIsExecution, CounterIsExact, CriticalIsBounded, PTL

\* Instructions of the block from the LR to the BNE.
Attempt(h) == IF block[h] = "acquire" THEN 5 ELSE 4

\* The attempt in which the hart is will fail: it lost its reservation, or its
\* store has already failed.
Doomed(h) ==
    /\ pc[h] # 0
    /\ IF pc[h] = Attempt(h) - 1 THEN statusReg[h] # 0 ELSE h \notin reserved

\* Instructions to the end of the block, if no other hart stores.
Remaining(h) == Attempt(h) - pc[h] + IF Doomed(h) THEN Attempt(h) ELSE 0

\* The hart does not spin on a counter of zero.
Promised(h) == mem > 0 \/ block[h] = "release" \/ Holds(h)

\* A request is served in its thread's turn, inside a block; what it has executed
\* and what remains are at most an attempt that fails after its LR, and a whole one.
RequestInv ==
    /\ turn \in Harts \cup {NoHart}
    /\ re_exe_length \in Nat
    /\ turn # NoHart => generating
    /\ \A h \in Harts : turn = h =>
          /\ InBlock(h)
          /\ Promised(h) => re_exe_length + Remaining(h) <= 2 * Attempt(h) - 1

\* What a request has left when it begins.
LEMMA RemainingAtStart ==
    ASSUME IInv, NEW h \in Harts, InBlock(h)
    PROVE  /\ Remaining(h) \in 1 .. 2 * Attempt(h) - 1
           /\ Attempt(h) \in {4, 5}
<1>1. CASE block[h] = "acquire"
    <2>1. pc[h] \in 0 .. 4
        BY Zenon DEF IInv, TypeOK
    <2>. QED
        BY <1>1, <2>1 DEF Remaining, Attempt, Doomed
<1>2. CASE block[h] = "release"
    <2>1. pc[h] \in 0 .. 3
        BY <1>2, Zenon DEF IInv
    <2>. QED
        BY <1>2, <2>1 DEF Remaining, Attempt, Doomed
<1>. QED
    BY <1>1, <1>2, Zenon DEF InBlock

\* An instruction of a request that does not spin ends the block, or leaves
\* fewer instructions to execute; and the hart does not begin to spin, or stop.
LEMMA StepApproaches ==
    ASSUME IInv, NEW h \in Harts, Step(h), InBlock(h), block'[h] = block[h],
           Promised(h) \/ Promised(h)'
    PROVE  Promised(h) /\ Promised(h)' /\ Remaining(h)' \in 1 .. Remaining(h) - 1
<1>0. Target(1, -2) = 0 /\ Target(4, -8) = 0 /\ Target(3, -6) = 0
    BY DEF Target
<1>1. /\ block[h] \in {"acquire", "release"}
      /\ pc[h] \in 0 .. 4 /\ counterReg[h] \in Values /\ statusReg[h] \in {0, 1}
      /\ mem \in Nat
      /\ block[h] = "release" => pc[h] \in 0 .. 3
    BY ModulusAssumption DEF IInv, TypeOK, InBlock, Values
<1>2. Attempt(h)' = Attempt(h) /\ Attempt(h) \in {4, 5}
    BY Zenon DEF Attempt
<1>3. /\ block[h] = "acquire" => Attempt(h) = 5
      /\ block[h] = "release" => Attempt(h) = 4
    BY DEF Attempt
<1>4. ASSUME pc'[h] = pc[h] + 1, pc[h] + 1 < Attempt(h), Doomed(h)' => Doomed(h)
      PROVE  Remaining(h)' \in 1 .. Remaining(h) - 1
    <2>1. Remaining(h) = Attempt(h) - pc[h] + IF Doomed(h) THEN Attempt(h) ELSE 0
        BY Zenon DEF Remaining
    <2>2. Remaining(h)' = Attempt(h) - (pc[h] + 1) + IF Doomed(h)' THEN Attempt(h) ELSE 0
        BY <1>2, <1>4, Zenon DEF Remaining
    <2>. QED
        BY <1>1, <1>2, <1>4, <2>1, <2>2
<1>5. ASSUME pc'[h] = 0, pc[h] < Attempt(h), Doomed(h)
      PROVE  Remaining(h)' \in 1 .. Remaining(h) - 1
    <2>1. Remaining(h) = Attempt(h) - pc[h] + Attempt(h)
        BY <1>5, Zenon DEF Remaining
    <2>2. ~Doomed(h)'
        BY <1>5, Zenon DEF Doomed
    <2>3. Remaining(h)' = Attempt(h) - 0 + 0
        BY <1>2, <1>5, <2>2, Zenon DEF Remaining
    <2>. QED
        BY <1>1, <1>2, <1>5, <2>1, <2>3
<1>6. CASE LoadReserved(h)
    <2>1. pc[h] = 0 /\ pc'[h] = 1 /\ h \in reserved' /\ mem' = mem
        BY <1>6 DEF LoadReserved, IInv, TypeOK
    <2>2. ~Doomed(h)'
        BY <1>2, <2>1 DEF Doomed
    <2>3. Remaining(h)' \in 1 .. Remaining(h) - 1
        BY <1>2, <1>4, <2>1, <2>2
    <2>4. Promised(h) /\ Promised(h)'
        BY <1>1, <2>1 DEF Promised, Holds
    <2>. QED
        BY <2>3, <2>4, Zenon
<1>7. CASE RetryIfZero(h)
    <2>1. /\ block[h] = "acquire" /\ pc[h] = 1 /\ mem' = mem
          /\ pc'[h] = IF counterReg[h] = 0 THEN 0 ELSE 2
          /\ reserved' = reserved
        BY <1>0, <1>7 DEF RetryIfZero, IInv, TypeOK
    <2>2. mem > 0
        <3>1. pc[h] # 4 /\ pc'[h] # 4 /\ block[h] \notin {"critical", "release"}
            BY <2>1
        <3>. QED
            BY <2>1, <3>1, Zenon DEF Promised, Holds
    <2>3. h \in reserved => counterReg[h] = mem
        BY <2>1 DEF IInv, ReservedMeansCurrent
    <2>4. Promised(h) /\ Promised(h)'
        BY <2>1, <2>2, Zenon DEF Promised
    <2>5. Doomed(h) <=> h \notin reserved
        BY <1>3, <2>1 DEF Doomed
    <2>6. CASE counterReg[h] = 0
        <3>1. Doomed(h) /\ pc'[h] = 0 /\ pc[h] < Attempt(h)
            BY <1>1, <1>3, <2>1, <2>2, <2>3, <2>5, <2>6
        <3>. QED
            BY <1>5, <2>4, <3>1, Zenon
    <2>7. CASE counterReg[h] # 0
        <3>1. pc'[h] = 2 /\ pc'[h] = pc[h] + 1 /\ pc[h] + 1 < Attempt(h)
            BY <1>3, <2>1, <2>7
        <3>2. Doomed(h)' => Doomed(h)
            BY <1>2, <1>3, <2>1, <2>5, <3>1 DEF Doomed
        <3>. QED
            BY <1>4, <2>4, <3>1, <3>2, Zenon
    <2>. QED
        BY <2>6, <2>7, Zenon
<1>8. CASE AddImmediate(h)
    <2>1. /\ pc'[h] = pc[h] + 1 /\ mem' = mem /\ reserved' = reserved
          /\ \/ block[h] = "acquire" /\ pc[h] = 2
             \/ block[h] = "release" /\ pc[h] = 1
        BY <1>8 DEF AddImmediate, IInv, TypeOK
    <2>2. pc[h] + 1 < Attempt(h) - 1 /\ pc[h] # 0
        BY <1>3, <2>1
    <2>3. Doomed(h)' => Doomed(h)
        BY <1>2, <2>1, <2>2 DEF Doomed
    <2>4. Remaining(h)' \in 1 .. Remaining(h) - 1
        BY <1>1, <1>2, <1>4, <2>1, <2>2, <2>3
    <2>5. pc[h] # 4 /\ pc'[h] # 4
        BY <2>1
    <2>6. Promised(h) /\ Promised(h)'
        BY <2>1, <2>5, Zenon DEF Promised, Holds
    <2>. QED
        BY <2>4, <2>6, Zenon
<1>9. CASE StoreSucceeds(h)
    <2>1. /\ pc'[h] = pc[h] + 1 /\ h \in reserved /\ statusReg'[h] = 0
          /\ \/ block[h] = "acquire" /\ pc[h] = 3
             \/ block[h] = "release" /\ pc[h] = 2
        BY <1>9 DEF StoreSucceeds, AtStore, IInv, TypeOK
    <2>2. pc[h] + 1 = Attempt(h) - 1 /\ pc[h] + 1 < Attempt(h)
        BY <1>3, <2>1
    <2>3. ~Doomed(h)'
        BY <1>2, <2>1, <2>2, Zenon DEF Doomed
    <2>4. Remaining(h)' \in 1 .. Remaining(h) - 1
        BY <1>4, <2>1, <2>2, <2>3, Zenon
    <2>5. Promised(h)
        <3>1. CASE block[h] = "acquire"
            <4>1. pc[h] = 3
                BY <2>1, <3>1
            <4>2. mem # 0
                BY <2>1, <3>1, <4>1 DEF IInv, ReservedMeansCurrent
            <4>3. mem > 0
                BY <1>1, <4>2
            <4>. QED
                BY <4>3, Zenon DEF Promised
        <3>. QED
            BY <1>1, <3>1, Zenon DEF Promised
    <2>6. Promised(h)'
        <3>1. CASE block[h] = "acquire"
            <4>1. block'[h] = "acquire" /\ pc'[h] = 4
                BY <2>1, <3>1
            <4>. QED
                BY <2>1, <4>1, Zenon DEF Promised, Holds
        <3>. QED
            BY <1>1, <3>1, Zenon DEF Promised
    <2>. QED
        BY <2>4, <2>5, <2>6, Zenon
<1>10. CASE StoreFails(h)
    <2>1. /\ pc'[h] = pc[h] + 1 /\ statusReg'[h] = 1 /\ mem' = mem
          /\ \/ block[h] = "acquire" /\ pc[h] = 3
             \/ block[h] = "release" /\ pc[h] = 2
        BY <1>10 DEF StoreFails, AtStore, IInv, TypeOK
    <2>2. h \notin reserved
        <3>1. statusReg'[h] # 0
            BY <2>1
        <3>. QED
            BY <2>1, <3>1, Zenon DEF Step, AtStore
    <2>3. pc[h] # 0 /\ pc[h] # Attempt(h) - 1 /\ pc[h] + 1 < Attempt(h)
        BY <1>3, <2>1
    <2>4. Doomed(h)
        BY <2>2, <2>3, Zenon DEF Doomed
    <2>5. Remaining(h)' \in 1 .. Remaining(h) - 1
        BY <1>4, <2>1, <2>3, <2>4, Zenon
    <2>6. Promised(h) /\ Promised(h)'
        BY <2>1 DEF Promised, Holds
    <2>. QED
        BY <2>5, <2>6, Zenon
<1>11. CASE RetryIfFailed(h)
    <2>1. /\ \/ block[h] = "acquire" /\ pc[h] = 4
             \/ block[h] = "release" /\ pc[h] = 3
          /\ statusReg[h] # 0 /\ pc'[h] = 0 /\ mem' = mem
        BY <1>0, <1>11 DEF RetryIfFailed, Retry, IInv, TypeOK
    <2>2. pc[h] # 0 /\ pc[h] = Attempt(h) - 1 /\ pc[h] < Attempt(h)
        BY <1>3, <2>1
    <2>3. Doomed(h)
        BY <2>1, <2>2, Zenon DEF Doomed
    <2>4. Remaining(h)' \in 1 .. Remaining(h) - 1
        BY <1>5, <2>1, <2>2, <2>3, Zenon
    <2>5. Promised(h) /\ Promised(h)'
        BY <2>1 DEF Promised, Holds
    <2>. QED
        BY <2>4, <2>5, Zenon
<1>. QED
    BY <1>6, <1>7, <1>8, <1>9, <1>10, <1>11, Zenon DEF Step, Instruction

\* RequestInv is kept by every step, since nobody else runs during a request.
LEMMA RequestInvNext ==
    ASSUME IInv, IInv', RequestInv, [ReNext]_reVars
    PROVE  RequestInv'
<1>1. CASE UNCHANGED reVars
    BY <1>1, Zenon DEF reVars, vars, RequestInv, InBlock, Promised, Holds, Remaining, Attempt, Doomed
<1>2. CASE Running(Next)
    <2>1. ~generating /\ turn' = turn /\ re_exe_length' = re_exe_length
        BY <1>2, Zenon DEF Running
    <2>. QED
        BY <2>1, NoHartAssumption, Zenon DEF RequestInv
<1>3. ASSUME NEW h \in Harts, Generate(h), generating' = generating PROVE RequestInv'
    BY <1>3, NoHartAssumption, Zenon DEF Generate, RequestInv
<1>4. ASSUME NEW h \in Harts, ReExecution(h), generating, generating' = generating
      PROVE  RequestInv'
    <2>1. turn' = h /\ re_exe_length' = 0 /\ InBlock(h)'
        BY <1>4, Zenon DEF ReExecution, vars, InBlock
    <2>2. Remaining(h)' \in 1 .. 2 * Attempt(h)' - 1 /\ Attempt(h)' \in {4, 5}
        <3>1. Remaining(h)' = Remaining(h) /\ Attempt(h)' = Attempt(h) /\ InBlock(h)
            BY <1>4, Zenon DEF ReExecution, vars, Remaining, Attempt, Doomed
        <3>. QED
            BY <3>1, RemainingAtStart
    <2>3. re_exe_length' + Remaining(h)' <= 2 * Attempt(h)' - 1
        BY <2>1, <2>2
    <2>4. turn' \in Harts \cup {NoHart} /\ generating' /\ re_exe_length' \in Nat
        BY <1>4, <2>1
    <2>. QED
        BY <2>1, <2>3, <2>4, Zenon DEF RequestInv
<1>5. ASSUME NEW h \in Harts, Step(h), generating, generating' = generating
      PROVE  RequestInv'
    <2>1. turn = h /\ turn' \in {h, NoHart} /\ re_exe_length' = re_exe_length + 1
        BY <1>5, Zenon DEF Step
    <2>2. re_exe_length \in Nat /\ InBlock(h)
        BY <2>1, Zenon DEF RequestInv
    <2>3. turn' = h => block'[h] = block[h]
        BY <1>5, NoHartAssumption, Zenon DEF Step
    <2>4. ASSUME turn' = h PROVE InBlock(h)'
        BY <2>2, <2>3, <2>4, Zenon DEF InBlock
    <2>5. ASSUME turn' = h, Promised(h)'
          PROVE  re_exe_length' + Remaining(h)' <= 2 * Attempt(h)' - 1
        <3>1. Promised(h) /\ Remaining(h)' \in 1 .. Remaining(h) - 1
            BY <1>5, <2>2, <2>3, <2>5, StepApproaches, Zenon
        <3>2. re_exe_length + Remaining(h) <= 2 * Attempt(h) - 1
            BY <2>1, <3>1, Zenon DEF RequestInv
        <3>3. Attempt(h)' = Attempt(h)
            BY <2>3, <2>5, Zenon DEF Attempt
        <3>4. Remaining(h) \in Int /\ Attempt(h) \in Int
            BY <2>2, RemainingAtStart
        <3>. QED
            BY <2>1, <2>2, <3>1, <3>2, <3>3, <3>4
    <2>6. re_exe_length' \in Nat /\ turn' \in Harts \cup {NoHart}
        BY <2>1, <2>2
    <2>. QED
        BY <1>5, <2>1, <2>4, <2>5, <2>6, NoHartAssumption, Zenon DEF RequestInv
<1>6. CASE GenerateNext
    BY <1>3, <1>4, <1>5, <1>6, Zenon DEF GenerateNext
<1>. QED
    BY <1>1, <1>2, <1>6, Zenon DEF ReNext

\* RequestInv holds in every reachable state.
THEOREM RequestsAreBounded == ReSpec => []RequestInv
<1>1. ReInit => RequestInv
    BY NoHartAssumption DEF ReInit, RequestInv
<1>2. IInv /\ IInv' /\ RequestInv /\ [ReNext]_reVars => RequestInv'
    BY RequestInvNext, Zenon
<1>. QED
    BY <1>1, <1>2, ReExecutionIsExecution, Invariance, PTL DEF ReSpec

\* A request that finds the semaphore free, or that releases it, gets through the
\* block wherever its thread resumes, for any number of harts, whenever its limit
\* covers an attempt that fails after its LR and a whole one.  The code's limits
\* do so exactly: 9 for the 5 instructions of acquire, 7 for the 4 of release.
THEOREM OneRequestIsEnough ==
    ASSUME MaxAcquire \in Nat, MaxRelease \in Nat, MaxAcquire >= 9, MaxRelease >= 7
    PROVE  ReSpec => OneRequestSuffices
<1>. DEFINE Through == \A h \in Harts :
                 turn = h /\ turn' = NoHart /\ (mem > 0 \/ block[h] = "release" \/ Holds(h))
                     => block'[h] # block[h]
<1>1. IInv /\ IInv' /\ RequestInv /\ [ReNext]_reVars => [Through]_reVars
    <2>. SUFFICES ASSUME IInv, IInv', RequestInv, ReNext,
                         NEW h \in Harts, turn = h, turn' = NoHart, Promised(h), block'[h] = block[h]
                  PROVE  FALSE
        BY Zenon DEF Promised
    <2>1. Step(h)
        BY NoHartAssumption, Zenon DEF ReNext, GenerateNext, Running, Generate, ReExecution, Step
    <2>2. /\ InBlock(h) /\ re_exe_length \in Nat
          /\ re_exe_length + Remaining(h) <= 2 * Attempt(h) - 1
        BY Zenon DEF RequestInv
    <2>3. re_exe_length + 1 >= maxReExeInstr(h)
        BY <2>1, NoHartAssumption, Zenon DEF Step
    <2>4. maxReExeInstr(h) >= 2 * Attempt(h) - 1 /\ maxReExeInstr(h) \in Nat
        BY <2>2 DEF maxReExeInstr, Attempt, InBlock
    <2>5. Remaining(h) \in Nat /\ Attempt(h) \in Nat
        BY <2>2, RemainingAtStart
    <2>6. Remaining(h) <= 1
        BY <2>2, <2>3, <2>4, <2>5
    <2>7. Remaining(h)' \in 1 .. Remaining(h) - 1
        BY <2>1, <2>2, StepApproaches, Zenon
    <2>. QED
        BY <2>5, <2>6, <2>7
<1>. QED
    BY <1>1, ReExecutionIsExecution, Invariance, RequestsAreBounded, PTL DEF ReSpec, OneRequestSuffices
=============================================================================

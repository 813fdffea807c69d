---------------------------- MODULE GenSemaphore ----------------------------
(***************************************************************************)
(* The shared semaphore of multi-threaded tests: SemaphoreManager, which   *)
(* creates one counter per name, and the two instruction blocks that       *)
(* GenSemaphoreRISCV generates around a critical section, as the harts of  *)
(* the machine under test execute them, interleaved instruction by         *)
(* instruction.                                                            *)
(*                                                                         *)
(*   acquire block                     release block                       *)
(*     0  LR   counter, (addr)           0  LR   counter, (addr)           *)
(*     1  BEQ  counter, x0, -2           1  ADDI counter, counter, 1       *)
(*     2  ADDI counter, counter, -1      2  SC   status, counter, (addr)   *)
(*     3  SC   status, counter, (addr)   3  BNE  status, x0, -6            *)
(*     4  BNE  status, x0, -8                                              *)
(***************************************************************************)
EXTENDS Integers, FiniteSets

CONSTANTS
    Harts,      \* the threads that share the semaphore
    Counters,   \* the values aCounter may take in a thread's constructor
    Modulus,    \* 2^(8 * aSize), scaled down
    SCMayFail   \* whether a store conditional may fail without a reason

ASSUME HartsAssumption == IsFiniteSet(Harts)
ASSUME CountersAssumption == Counters \subseteq Nat
ASSUME ModulusAssumption == Modulus \in Nat \ {0}
ASSUME SCMayFailAssumption == SCMayFail \in BOOLEAN

VARIABLES
    exists,     \* the name is in SemaphoreManager::mSemaphores
    initial,    \* Semaphore::mCounter, as its size holds it
    mem,        \* the counter in shared memory
    block,      \* where each hart is: which block, or outside the blocks
    pc,         \* the instruction of the block it executes next
    counterReg, \* _mCounterReg of each hart
    statusReg,  \* _mStatusReg of each hart
    reserved    \* the harts whose reservation on the counter is valid

vars == <<exists, initial, mem, block, pc, counterReg, statusReg, reserved>>

Values == 0 .. Modulus - 1

Blocks == {"none", "out", "acquire", "critical", "release"}

\* The code of a hart that has not constructed its semaphore is "none"; the
\* registers are read only after an LR or an SC has written them.
Init ==
    /\ exists = FALSE
    /\ initial = 0
    /\ mem = 0
    /\ block = [h \in Harts |-> "none"]
    /\ pc = [h \in Harts |-> 0]
    /\ counterReg = [h \in Harts |-> 0]
    /\ statusReg = [h \in Harts |-> 0]
    /\ reserved = {}

\* Branch offsets are in units of two bytes, and every instruction of the
\* blocks has four.
Target(i, simm12) == i + (simm12 \div 2)

\* Name_Variant is a wrong variant of Name, which a property must refute.
GenSemaphore_Again(h) ==
    /\ block[h] = "none"
    /\ block' = [block EXCEPT ![h] = "out"]
    /\ \E counter \in Counters :
          /\ exists' = TRUE
          /\ initial' = IF exists THEN initial ELSE counter % Modulus
          /\ mem' = counter % Modulus
    /\ UNCHANGED <<pc, counterReg, statusReg, reserved>>

\* The first thread that names the semaphore creates it and initializes the
\* memory; later ones share it, whatever counter they pass.  The thread holds
\* the schedule lock, so that this is one step.
GenSemaphore(h) ==
    /\ block[h] = "none"
    /\ block' = [block EXCEPT ![h] = "out"]
    /\ IF exists
       THEN UNCHANGED <<exists, initial, mem>>
       ELSE \E counter \in Counters :
              /\ exists' = TRUE
              /\ initial' = counter % Modulus
              /\ mem' = counter % Modulus
    /\ UNCHANGED <<pc, counterReg, statusReg, reserved>>

\* __enter__: the hart reaches the acquire block.
EnterAcquire(h) ==
    /\ block[h] = "out"
    /\ block' = [block EXCEPT ![h] = "acquire"]
    /\ pc' = [pc EXCEPT ![h] = 0]
    /\ UNCHANGED <<exists, initial, mem, counterReg, statusReg, reserved>>

\* __exit__: the hart reaches the release block.
EnterRelease(h) ==
    /\ block[h] = "critical"
    /\ block' = [block EXCEPT ![h] = "release"]
    /\ pc' = [pc EXCEPT ![h] = 0]
    /\ UNCHANGED <<exists, initial, mem, counterReg, statusReg, reserved>>

\* LR.W or LR.D: load the counter, and reserve it.
LoadReserved(h) ==
    /\ block[h] \in {"acquire", "release"}
    /\ pc[h] = 0
    /\ counterReg' = [counterReg EXCEPT ![h] = mem]
    /\ reserved' = reserved \cup {h}
    /\ pc' = [pc EXCEPT ![h] = 1]
    /\ UNCHANGED <<exists, initial, mem, block, statusReg>>

\* BEQ: back to the LR while the counter is zero.
RetryIfZero(h) ==
    /\ block[h] = "acquire"
    /\ pc[h] = 1
    /\ pc' = [pc EXCEPT ![h] = IF counterReg[h] = 0 THEN Target(1, -2) ELSE 2]
    /\ UNCHANGED <<exists, initial, mem, block, counterReg, statusReg, reserved>>

AddImmediate(h) ==
    /\ \/ /\ block[h] = "acquire" /\ pc[h] = 2
          /\ counterReg' = [counterReg EXCEPT ![h] = (@ - 1) % Modulus]
       \/ /\ block[h] = "release" /\ pc[h] = 1
          /\ counterReg' = [counterReg EXCEPT ![h] = (@ + 1) % Modulus]
    /\ pc' = [pc EXCEPT ![h] = @ + 1]
    /\ UNCHANGED <<exists, initial, mem, block, statusReg, reserved>>

AtStore(h) ==
    \/ block[h] = "acquire" /\ pc[h] = 3
    \/ block[h] = "release" /\ pc[h] = 2

\* SC.W or SC.D that succeeds: the counter is stored, and every reservation
\* on it is gone.
StoreSucceeds(h) ==
    /\ AtStore(h)
    /\ h \in reserved
    /\ mem' = counterReg[h]
    /\ reserved' = {}
    /\ statusReg' = [statusReg EXCEPT ![h] = 0]
    /\ pc' = [pc EXCEPT ![h] = @ + 1]
    /\ UNCHANGED <<exists, initial, block, counterReg>>

\* SC.W or SC.D that fails: the reservation was lost, or the machine makes
\* it fail.
StoreFails(h) ==
    /\ AtStore(h)
    /\ h \notin reserved \/ SCMayFail
    /\ reserved' = reserved \ {h}
    /\ statusReg' = [statusReg EXCEPT ![h] = 1]
    /\ pc' = [pc EXCEPT ![h] = @ + 1]
    /\ UNCHANGED <<exists, initial, mem, block, counterReg>>

\* BNE at i: back to the start if the store failed, else out of the block.
Retry(h, from, i, simm12, to) ==
    /\ block[h] = from
    /\ pc[h] = i
    /\ IF statusReg[h] # 0
       THEN /\ pc' = [pc EXCEPT ![h] = Target(i, simm12)]
            /\ UNCHANGED block
       ELSE /\ pc' = [pc EXCEPT ![h] = 0]
            /\ block' = [block EXCEPT ![h] = to]
    /\ UNCHANGED <<exists, initial, mem, counterReg, statusReg, reserved>>

RetryIfFailed_NotAcquire(h) ==
    \/ /\ statusReg[h] = 0
       /\ Retry(h, "acquire", 4, -8, "critical")
    \/ /\ block[h] = "acquire" /\ pc[h] = 4 /\ statusReg[h] # 0
       /\ block' = [block EXCEPT ![h] = "critical"]
       /\ pc' = [pc EXCEPT ![h] = 0]
       /\ UNCHANGED <<exists, initial, mem, counterReg, statusReg, reserved>>
    \/ Retry(h, "release", 3, -6, "out")

RetryIfFailed_StoreOnly(h) ==
    \/ Retry(h, "acquire", 4, -2, "critical")
    \/ Retry(h, "release", 3, -2, "out")

RetryIfFailed(h) ==
    \/ Retry(h, "acquire", 4, -8, "critical")
    \/ Retry(h, "release", 3, -6, "out")

\* One instruction of a block.
Instruction(h) ==
    \/ LoadReserved(h)
    \/ RetryIfZero(h)
    \/ AddImmediate(h)
    \/ StoreSucceeds(h)
    \/ StoreFails(h)
    \/ RetryIfFailed(h)

Next ==
    \E h \in Harts :
        \/ GenSemaphore(h)
        \/ EnterAcquire(h)
        \/ EnterRelease(h)
        \/ Instruction(h)

Spec == Init /\ [][Next]_vars

-----------------------------------------------------------------------------
(* What is checked. *)

\* Every variable holds values of its type: a branch stays in its block, and
\* the counter within its width.
TypeOK ==
    /\ exists \in BOOLEAN
    /\ initial \in Values
    /\ mem \in Values
    /\ block \in [Harts -> Blocks]
    /\ pc \in [Harts -> 0 .. 4]
    /\ counterReg \in [Harts -> Values]
    /\ statusReg \in [Harts -> {0, 1}]
    /\ reserved \subseteq Harts

\* The hart has taken one from the counter and has not given it back.
Holds(h) ==
    \/ block[h] = "acquire" /\ pc[h] = 4 /\ statusReg[h] = 0
    \/ block[h] = "critical"
    \/ block[h] = "release" /\ (pc[h] = 3 => statusReg[h] # 0)

Holders == {h \in Harts : Holds(h)}

\* However the instructions of the harts interleave, and whatever stores
\* fail, nothing is taken from the counter or added to it but one for each
\* hart that holds the semaphore: no update is lost, and no failed or
\* repeated attempt counts twice (_acquireSemaphore and _releaseSemaphore).
CounterExact == mem + Cardinality(Holders) = initial

\* No more harts are between __enter__ and __exit__ than the counter the
\* semaphore was created with allows.
CriticalBounded ==
    Cardinality({h \in Harts : block[h] = "critical"}) <= initial

\* What an attempt has read is still what memory holds as long as its
\* reservation is valid.
ReservedMeansCurrent ==
    \A h \in reserved :
        \/ /\ block[h] = "acquire"
           /\ \/ pc[h] = 0
              \/ pc[h] = 1 /\ counterReg[h] = mem
              \/ pc[h] = 2 /\ counterReg[h] = mem /\ mem # 0
              \/ pc[h] = 3 /\ counterReg[h] = mem - 1 /\ mem # 0
        \/ /\ block[h] = "release"
           /\ \/ pc[h] = 1 /\ counterReg[h] = mem
              \/ pc[h] = 2 /\ counterReg[h] = (mem + 1) % Modulus

\* The inductive invariant: the two properties together, with the places
\* where the blocks end, and that nobody uses the semaphore before it exists.
IInv ==
    /\ TypeOK
    /\ exists \/ \A h \in Harts : block[h] = "none"
    /\ \A h \in Harts :
          /\ block[h] = "release" => pc[h] \in 0 .. 3
          /\ block[h] \in {"none", "out", "critical"} => pc[h] = 0
    /\ ReservedMeansCurrent
    /\ CounterExact
=============================================================================

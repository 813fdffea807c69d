------------------------- MODULE SchedulingStrategy -------------------------
(***************************************************************************)
(* ShuffledRoundRobinSchedulingStrategy                                    *)
(* (base/src/SchedulingStrategy.cc, base/inc/SchedulingStrategy.h): which  *)
(* generator thread may work next.  The module holds the object's fields   *)
(* and one operator per method; the methods that can FAIL have an operator *)
(* ...Error that names the first check they fail, or NoFailure.            *)
(*                                                                         *)
(* mThreadIds is only searched, filtered and turned into a ConstraintSet,  *)
(* so it is a set here.  mActiveThreadIds stays a sequence: mNextIndex     *)
(* (counted from 0) walks it in order.                                     *)
(***************************************************************************)
EXTENDS Integers, FiniteSets, Sequences, Functions

CONSTANTS
    Threads,      \* ids of the generator threads
    NoThread,     \* uint32(-1), an id no generator has
    MaxUInt32     \* 2^32 - 1, what an unsigned counter wraps to below 0

ASSUME ThreadsAssumption ==
    /\ Threads \subseteq Nat
    /\ IsFiniteSet(Threads)
    /\ Threads # {}
    /\ NoThread \notin Threads

ASSUME MaxUInt32Assumption == MaxUInt32 \in Nat

VARIABLES
    mState,             \* "Random", "Locked" or "Finishing"
    mCurrentThreadId,
    mNextIndex,
    mLockingState,
    mLockingLevel,
    mLockingThreadId,
    mThreadIds,
    mActiveThreadIds

strategyVars == <<mState, mCurrentThreadId, mNextIndex, mLockingState,
                  mLockingLevel, mLockingThreadId, mThreadIds, mActiveThreadIds>>

lockVars == <<mLockingState, mLockingLevel, mLockingThreadId>>

ESchedulingState == {"Random", "Locked", "Finishing"}

(* The value of an ...Error operator when the method fails no check.       *)
NoFailure == "none"

StrategyInit ==
    /\ mState = "Random"
    /\ mCurrentThreadId = NoThread
    /\ mNextIndex = 0
    /\ mLockingState = "Random"
    /\ mLockingLevel = 0
    /\ mLockingThreadId = NoThread
    /\ mThreadIds = {}
    /\ mActiveThreadIds = <<>>

-----------------------------------------------------------------------------
(* Sequences of thread ids *)

(* erase(remove(...)): the ids in the vector are distinct.                 *)
Erase(ids, t) ==
    IF t \in Range(ids)
    THEN LET k == CHOOSE i \in DOMAIN ids : ids[i] = t
         IN  SubSeq(ids, 1, k - 1) \o SubSeq(ids, k + 1, Len(ids))
    ELSE ids

(* push_back of each of the ids more.                                      *)
PushBack(ids, more) == ids \o more

(* What std::shuffle may leave in a vector.                                *)
Shuffles(ids) ==
    {[i \in 1..Len(ids) |-> ids[p[i]]] : p \in Bijection(1..Len(ids), 1..Len(ids))}

(* Name_Variant is a wrong variant of Name, which a property must refute.  *)
Decrement_Forgotten(n) == n

(* unsigned --n                                                            *)
Decrement(n) == IF n = 0 THEN MaxUInt32 ELSE n - 1

-----------------------------------------------------------------------------
(* Methods that only schedule *)

AddThread(t) ==
    /\ mThreadIds' = mThreadIds \cup {t}
    /\ mActiveThreadIds' = IF t \in mThreadIds THEN mActiveThreadIds
                                               ELSE Append(mActiveThreadIds, t)
    /\ UNCHANGED <<mState, mCurrentThreadId, mNextIndex, lockVars>>

SimpleNextThread_NoIncrement(ids, index) ==
    /\ mActiveThreadIds' = ids
    /\ mCurrentThreadId' = ids[index + 1]
    /\ mNextIndex' = index

(* mActiveThreadIds.at(index) throws when the vector is shorter.           *)
SimpleNextThread(ids, index) ==
    /\ mActiveThreadIds' = ids
    /\ mCurrentThreadId' = ids[index + 1]
    /\ mNextIndex' = index + 1

NextThreadError(state, ids) ==
    IF state = "Random" /\ ids = <<>> THEN "out-of-range" ELSE NoFailure

NextThreadFrom_IgnoresLock(state, ids, index) ==
    \/ /\ ids = <<>>
       /\ mActiveThreadIds' = ids
       /\ mNextIndex' = 0
       /\ mCurrentThreadId' = 0
    \/ /\ ids # <<>>
       /\ index < Len(ids)
       /\ SimpleNextThread(ids, index)
    \/ /\ ids # <<>>
       /\ index >= Len(ids)
       /\ \E shuffled \in Shuffles(ids) : SimpleNextThread(shuffled, 0)

(* NextThread() on the vector ids, the index and the state an earlier      *)
(* method of the same request left behind.                                 *)
NextThreadFrom(state, ids, index) ==
    \/ /\ state = "Locked"
       /\ mActiveThreadIds' = ids
       /\ mNextIndex' = index
       /\ mCurrentThreadId' = mCurrentThreadId
    \/ /\ state = "Finishing"
       /\ ids = <<>>
       /\ mActiveThreadIds' = ids
       /\ mNextIndex' = 0
       /\ mCurrentThreadId' = 0
    \/ /\ state # "Locked"
       /\ ids # <<>>
       /\ index < Len(ids)
       /\ SimpleNextThread(ids, index)
    \/ /\ state # "Locked"
       /\ ids # <<>>
       /\ index >= Len(ids)
       /\ \E shuffled \in Shuffles(ids) : SimpleNextThread(shuffled, 0)

RefreshScheduleError ==
    IF mActiveThreadIds = <<>> THEN "out-of-range" ELSE NoFailure

RefreshSchedule ==
    /\ \E shuffled \in Shuffles(mActiveThreadIds) : SimpleNextThread(shuffled, 0)
    /\ UNCHANGED <<mState, mThreadIds, lockVars>>

-----------------------------------------------------------------------------
(* The schedule lock: a recursive lock that pins the current thread *)

LockScheduleError(t) ==
    IF mLockingLevel = 0 THEN NoFailure
    ELSE IF mState # "Locked" THEN "inconsistent-thread-scheduler-state"
    ELSE IF t # mLockingThreadId THEN "inconsistent-thread-locking-id"
    ELSE NoFailure

LockSchedule_SavesEachTime(t) ==
    /\ mLockingLevel' = mLockingLevel + 1
    /\ mLockingState' = mState
    /\ mLockingThreadId' = t
    /\ mState' = "Locked"
    /\ UNCHANGED <<mCurrentThreadId, mNextIndex, mThreadIds, mActiveThreadIds>>

LockSchedule(t) ==
    /\ mLockingLevel' = mLockingLevel + 1
    /\ IF mLockingLevel = 0
       THEN /\ mLockingState' = mState
            /\ mLockingThreadId' = t
            /\ mState' = "Locked"
       ELSE UNCHANGED <<mLockingState, mLockingThreadId, mState>>
    /\ UNCHANGED <<mCurrentThreadId, mNextIndex, mThreadIds, mActiveThreadIds>>

UnlockScheduleError(t) ==
    IF t # mLockingThreadId THEN "inconsistent-thread-unlocking-id"
    ELSE IF mState # "Locked" THEN "inconsistent-thread-unlocking-state"
    ELSE IF mLockingLevel = 0 THEN "inconsistent-thread-unlocking-level"
    ELSE NoFailure

UnlockSchedule_KeepsState(t) ==
    /\ mLockingLevel' = mLockingLevel - 1
    /\ mLockingThreadId' = IF mLockingLevel = 1 THEN NoThread ELSE mLockingThreadId
    /\ UNCHANGED <<mState, mLockingState, mCurrentThreadId, mNextIndex, mThreadIds,
                   mActiveThreadIds>>

UnlockSchedule(t) ==
    /\ mLockingLevel' = mLockingLevel - 1
    /\ IF mLockingLevel = 1
       THEN /\ mState' = mLockingState
            /\ mLockingThreadId' = NoThread
       ELSE UNCHANGED <<mState, mLockingThreadId>>
    /\ UNCHANGED <<mLockingState, mCurrentThreadId, mNextIndex, mThreadIds, mActiveThreadIds>>

-----------------------------------------------------------------------------
(* Taking threads off the schedule and putting them back *)

DeactivateThreadError(t) ==
    IF t \notin Range(mActiveThreadIds) THEN "inactive-thread-deactivated"
    ELSE IF mState = "Locked" THEN "thread-deactivated-while-locked"
    ELSE NoFailure

(* ActivateThread on every member of every group in turn, when ids are the *)
(* active and scheduled the scheduled threads.  Each group is a record, so *)
(* that two groups with the same threads stay two.                         *)
ActivateThreadsError(groups, scheduled, ids) ==
    IF \/ \E g \in groups : g.threads \cap Range(ids) # {}
       \/ \E g, h \in groups : g # h /\ g.threads \cap h.threads # {}
    THEN "active-thread-activated"
    ELSE IF \E g \in groups : ~(g.threads \subseteq scheduled)
    THEN "thread-not-existing"
    ELSE NoFailure

=============================================================================

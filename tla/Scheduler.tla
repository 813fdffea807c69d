----------------------------- MODULE Scheduler ------------------------------
(***************************************************************************)
(* The calls of base/src/Scheduler.cc that take part in multi-threaded     *)
(* generation, each as the change it makes to the scheduling strategy and  *)
(* to the barriers.  Which thread may make a call, and when, is the        *)
(* business of the modules that extend this one: RequestTurns (one request *)
(* after the other) and ThreadDispatcher (threads, a mutex, the GIL).      *)
(*                                                                         *)
(* FAIL ends the process (Logger::Fail calls exit or abort): `failure'     *)
(* then holds the reason and nothing happens any more.                     *)
(***************************************************************************)
EXTENDS SchedulingStrategy, SynchronizeBarrier

VARIABLES
    mBarriers,    \* SynchronizeBarrierManager's barriers
    failure       \* reason of the FAIL that ended the process, or NoFailure

schedulerVars == <<strategyVars, mBarriers, failure>>

SchedulerInit ==
    /\ StrategyInit
    /\ mBarriers = {}
    /\ failure = NoFailure

Active == Range(mActiveThreadIds)

Fail(reason) ==
    /\ failure' = reason
    /\ UNCHANGED <<strategyVars, mBarriers>>

-----------------------------------------------------------------------------

AddThreadId(t) ==
    /\ AddThread(t)
    /\ UNCHANGED <<mBarriers, failure>>

StartSchedule ==
    \/ /\ RefreshScheduleError = NoFailure
       /\ RefreshSchedule
       /\ UNCHANGED <<mBarriers, failure>>
    \/ /\ RefreshScheduleError # NoFailure
       /\ Fail(RefreshScheduleError)

NextThread ==
    \/ /\ NextThreadError(mState, mActiveThreadIds) = NoFailure
       /\ NextThreadFrom(mState, mActiveThreadIds, mNextIndex)
       /\ UNCHANGED <<mState, lockVars, mThreadIds, mBarriers, failure>>
    \/ /\ NextThreadError(mState, mActiveThreadIds) # NoFailure
       /\ Fail(NextThreadError(mState, mActiveThreadIds))

LockThreadScheduler(t) ==
    \/ /\ LockScheduleError(t) = NoFailure
       /\ LockSchedule(t)
       /\ UNCHANGED <<mBarriers, failure>>
    \/ /\ LockScheduleError(t) # NoFailure
       /\ Fail(LockScheduleError(t))

UnlockThreadScheduler(t) ==
    \/ /\ UnlockScheduleError(t) = NoFailure
       /\ UnlockSchedule(t)
       /\ UNCHANGED <<mBarriers, failure>>
    \/ /\ UnlockScheduleError(t) # NoFailure
       /\ Fail(UnlockScheduleError(t))

-----------------------------------------------------------------------------
(* Synchronizing with a barrier *)

ReleasedGroups_AllButLast(barriers, scheduled) ==
    {[barrier |-> b,
      threads |-> {t \in b.synchronized \cap scheduled :
                      \E u \in b.synchronized \cap scheduled : t < u}] : b \in barriers}

(* ActivateSynchronizedThreads of each of the barriers.                    *)
ReleasedGroups(barriers, scheduled) ==
    {[barrier |-> b, threads |-> b.synchronized \cap scheduled] : b \in barriers}

ActivationOrders_None(groups) == {<<>>}

(* The orders in which the threads of the groups can come to stand in      *)
(* mActiveThreadIds: group by group, ids ascending in a group              *)
(* (ConstraintSet::GetValues).                                             *)
ActivationOrders(groups) ==
    LET all == UNION {g.threads : g \in groups}
    IN  {ids \in [1..Cardinality(all) -> all] :
            /\ Range(ids) = all
            /\ IsInjective(ids)
            /\ \A g \in groups : \A i, j \in DOMAIN ids :
                 ids[i] \in g.threads /\ ids[j] \in g.threads /\ i < j =>
                    /\ ids[i] < ids[j]
                    /\ \A k \in i..j : ids[k] \in g.threads}

(* The barrier that threads S synchronize with, created if there is none.  *)
CurrentBarrier(S) ==
    IF Query(mBarriers, S) # {}
    THEN CHOOSE b \in Query(mBarriers, S) : TRUE
    ELSE CreateSynchronizeBarrier(S, Cardinality(mThreadIds \cap S))

(* The first check SynchronizeWithBarrier fails, the deadlock check apart. *)
SynchronizeError(t, S) ==
    LET barrier == CurrentBarrier(S)
        reached == AddReachedThread(barrier, t)
    IN  IF ~(S \subseteq Threads) THEN "barrier-contains-non-existing-thread"
        ELSE IF t \notin S THEN "thread-not-in-current-barrier"
        ELSE IF CreateSynchronizeBarrierError(S, barrier.unreached) # NoFailure
        THEN CreateSynchronizeBarrierError(S, barrier.unreached)
        ELSE IF DeactivateThreadError(t) # NoFailure THEN DeactivateThreadError(t)
        ELSE IF AddReachedThreadError(barrier, t) # NoFailure
        THEN AddReachedThreadError(barrier, t)
        ELSE IF reached.unreached # 0 THEN NoFailure
        ELSE ActivateThreadsError(ReleasedGroups({reached}, mThreadIds), mThreadIds,
                                  Erase(mActiveThreadIds, t))

SynchronizeWithBarrier(t, S) ==
    LET barrier == CurrentBarrier(S)
        reached == AddReachedThread(barrier, t)
        done    == reached.unreached = 0
        others  == mBarriers \ {barrier}
        left    == IF done THEN others ELSE others \cup {reached}
        groups  == IF done THEN ReleasedGroups({reached}, mThreadIds) ELSE {}
        ids     == Erase(mActiveThreadIds, t)
    IN  \/ /\ SynchronizeError(t, S) # NoFailure
           /\ Fail(SynchronizeError(t, S))
        \/ /\ SynchronizeError(t, S) = NoFailure
           /\ \E released \in ActivationOrders(groups) :
                \/ /\ DeadLock(left, mThreadIds, Range(PushBack(ids, released)))
                   /\ Fail("invalid-barriers-state")
                \/ /\ ~DeadLock(left, mThreadIds, Range(PushBack(ids, released)))
                   /\ mActiveThreadIds' = PushBack(ids, released)
                   /\ mBarriers' = left
                   /\ UNCHANGED <<mState, mCurrentThreadId, mNextIndex, lockVars,
                                  mThreadIds, failure>>

-----------------------------------------------------------------------------
(* RemoveThreadId, "remove thread treat as reached the barrier", and the   *)
(* NextThread with which ReportThreadDone, its only caller, goes on.       *)
RemoveThreadId(t) ==
    LET scheduled == mThreadIds \ {t}
        ids       == Erase(mActiveThreadIds, t)
        barriers  == GetParticipatingBarriers(mBarriers, t)
        bad       == {b \in barriers : AddReachedThreadError(b, t) # NoFailure}
        reached   == {AddReachedThread(b, t) : b \in barriers}
        done      == {b \in reached : b.unreached = 0}
        left      == (mBarriers \ barriers) \cup (reached \ done)
        groups    == ReleasedGroups(done, scheduled)
    IN  \/ \E b \in bad : Fail(AddReachedThreadError(b, t))
        \/ /\ bad = {}
           /\ ActivateThreadsError(groups, scheduled, ids) # NoFailure
           /\ Fail(ActivateThreadsError(groups, scheduled, ids))
        \/ /\ bad = {}
           /\ ActivateThreadsError(groups, scheduled, ids) = NoFailure
           /\ \E released \in ActivationOrders(groups) :
                \/ /\ DeadLock(left, scheduled, Range(PushBack(ids, released)))
                   /\ Fail("invalid-barriers-state")
                \/ /\ ~DeadLock(left, scheduled, Range(PushBack(ids, released)))
                   /\ mThreadIds' = scheduled
                   /\ mBarriers' = left
                   /\ mState' = "Finishing"
                   /\ NextThreadFrom("Finishing", PushBack(ids, released), Decrement(mNextIndex))
                   /\ UNCHANGED <<lockVars, failure>>

(* MultiThreadDispatcher::Stop's check that all threads are unscheduled.   *)
StopError ==
    IF mActiveThreadIds # <<>> THEN "thread-dispatch-failure" ELSE NoFailure

(* ~SynchronizeBarrierManager, when Scheduler::Destroy deletes it.         *)
DestroyError ==
    IF mBarriers # {} THEN "should-not-has-any-barrier" ELSE NoFailure
=============================================================================

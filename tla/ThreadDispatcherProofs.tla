----------------------- MODULE ThreadDispatcherProofs -----------------------
(***************************************************************************)
(* The safety properties of ThreadDispatcher hold for any number of        *)
(* threads, requests and nested requests, and the dispatcher implements    *)
(* RequestTurns: whatever is proved of turns holds of threads and locks.   *)
(***************************************************************************)
EXTENDS ThreadDispatcher, TLAPS

(* Values of the variables the invariant talks about; mLockCount counts.   *)
DTypeOK ==
    /\ stage \in {"setup", "running", "stopped", "destroyed"}
    /\ pc \in [Threads -> Places]
    /\ registered \subseteq Threads
    /\ owner \in Threads \cup {NoThread}
    /\ mLockCount \in Nat

(* The mutex.  Its owner is the current thread, and is being served or     *)
(* about to make a nested request.                                         *)
MutexInv ==
    /\ owner = NoThread <=> mLockCount = 0
    /\ owner = NoThread => ~synced
    /\ \A t \in Threads :
          /\ owner = t =>
                /\ pc[t] \in {"granted", "serving", "lock"}
                /\ mCurrentThreadId = t
                /\ t \notin leaving
          /\ pc[t] \in {"granted", "serving"} => owner = t

(* The life of a thread, and which threads are registered and scheduled.   *)
LifeInv ==
    /\ \A t \in Threads :
          /\ stage = "setup" => pc[t] = "new"
          /\ stage \in {"stopped", "destroyed"} => pc[t] = "exited"
          /\ pc[t] \in {"new", "barrier", "python"} => t \notin leaving
          /\ pc[t] \in {"exit", "exited"} => t \in leaving
          /\ t \in registered <=>
                /\ pc[t] \notin {"new", "exit", "exited"}
                /\ ~(pc[t] = "notify" /\ t \in leaving)
    /\ Alive /\ stage # "setup" =>
          mThreadIds = registered \cup {t \in Threads : pc[t] = "new"}

(* The inductive invariant.                                                *)
DInv ==
    /\ DTypeOK
    /\ MutexInv
    /\ LifeInv
    /\ NoLostWakeup

(* What the scheduler's calls leave alone, as far as turns are concerned.  *)
LEMMA LockingKeepsTurn ==
  ASSUME NEW t, LockThreadScheduler(t) \/ UnlockThreadScheduler(t)
  PROVE  UNCHANGED <<mCurrentThreadId, mThreadIds>>
  BY Zenon DEF LockThreadScheduler, UnlockThreadScheduler, LockSchedule, UnlockSchedule, Fail,
         strategyVars

(* Scheduler::SynchronizeWithBarrier moves neither the turn nor the set of *)
(* threads.                                                                *)
LEMMA SynchronizingKeepsTurn ==
  ASSUME NEW t, NEW S, SynchronizeWithBarrier(t, S)
  PROVE  UNCHANGED <<mCurrentThreadId, mThreadIds>>
  BY Zenon DEF SynchronizeWithBarrier, Fail, strategyVars

(* Passing on the turn keeps the set of threads.                           *)
LEMMA NextThreadKeepsThreads ==
  ASSUME NextThread
  PROVE  mThreadIds' = mThreadIds
  BY Zenon DEF NextThread, Fail, strategyVars

(* So does the start of the schedule.                                      *)
LEMMA StartKeepsThreads ==
  ASSUME StartSchedule
  PROVE  mThreadIds' = mThreadIds
  BY Zenon DEF StartSchedule, RefreshSchedule, Fail, strategyVars

(* Scheduler::RemoveThreadId, when it does not FAIL, takes out its thread  *)
(* only.                                                                   *)
LEMMA RemovingRemoves ==
  ASSUME NEW t, RemoveThreadId(t), failure' = NoFailure
  PROVE  mThreadIds' = mThreadIds \ {t}
  BY Zenon DEF RemoveThreadId, Fail, NoFailure

-----------------------------------------------------------------------------
(* Every step keeps the types.                                             *)
LEMMA TypeNext ==
  ASSUME DTypeOK, MutexInv, [DNext]_dvars
  PROVE  DTypeOK'
  <1> USE DEF DTypeOK, Places
  <1>1. CASE DStart \/ DStop \/ DDestroy
    BY <1>1, Zenon DEF DStart, DStop, DDestroy, threadVars, mutexVars
  <1>2. CASE DEnded \/ UNCHANGED dvars
    BY <1>2, Zenon DEF DEnded, dvars, threadVars, mutexVars
  <1>3. ASSUME NEW t \in Threads, DSetup(t) \/ TakeGil(t) PROVE DTypeOK'
    BY <1>3, Zenon DEF DSetup, TakeGil, threadVars, mutexVars
  <1>4. ASSUME NEW t \in Threads, DLock(t) \/ DUnlock(t) PROVE DTypeOK'
    BY <1>4, Zenon DEF DLock, DUnlock, threadVars, mutexVars
  <1>5. ASSUME NEW t \in Threads, NEW S \in SyncSets, DSynchronize(t, S) PROVE DTypeOK'
    BY <1>5, Zenon DEF DSynchronize, threadVars
  <1>6. ASSUME NEW t \in Threads, SpuriousWakeup(t) \/ Return(t) \/ PassStartBarrier(t) PROVE DTypeOK'
    BY <1>6, Zenon DEF SpuriousWakeup, Return, PassStartBarrier, mutexVars
  <1>7. ASSUME NEW t \in Threads, RegisterExecutionThread(t) PROVE DTypeOK'
    BY <1>7, Zenon DEF RegisterExecutionThread, mutexVars
  <1>8. ASSUME NEW t \in Threads, BeginRequest(t) PROVE DTypeOK'
    BY <1>8, Zenon DEF BeginRequest, mutexVars
  <1>9. ASSUME NEW t \in Threads, BeginReportThreadDone(t) \/ Exit(t) PROVE DTypeOK'
    BY <1>9, Zenon DEF BeginReportThreadDone, Exit, mutexVars
  <1>10. ASSUME NEW t \in Threads, DRequest(t) PROVE DTypeOK'
    BY <1>10 DEF DRequest, DFail, Wait, Grant, threadVars, mutexVars
  <1>11. ASSUME NEW t \in Threads, DFinish(t) PROVE DTypeOK'
    BY <1>11 DEF DFinish, UnlockOnce
  <1>12. ASSUME NEW t \in Threads, FinishNested(t) PROVE DTypeOK'
    BY <1>12 DEF FinishNested, UnlockOnce, threadVars
  <1>13. ASSUME NEW t \in Threads, DFinishNoAdvance(t) PROVE DTypeOK'
    BY <1>13 DEF DFinishNoAdvance, UnlockOnce
  <1>14. ASSUME NEW t \in Threads, NotifyAll(t) PROVE DTypeOK'
    BY <1>14, Zenon DEF NotifyAll, mutexVars
  <1>15. ASSUME NEW t \in Threads, DReportThreadDone(t) PROVE DTypeOK'
    BY <1>15, Zenon DEF DReportThreadDone, DFail, threadVars, mutexVars
  <1> QED
    BY <1>1, <1>2, <1>3, <1>4, <1>5, <1>6, <1>7, <1>8, <1>9, <1>10, <1>11, <1>12, <1>13,
       <1>14, <1>15 DEF DNext, ThreadStep

(* Every step keeps the mutex in order.                                    *)
LEMMA MutexNext ==
  ASSUME DTypeOK, MutexInv, LifeInv, [DNext]_dvars
  PROVE  MutexInv'
  <1>0. NoThread \notin Threads
    BY ThreadsAssumption, Zenon
  <1> USE DEF DTypeOK, Places
  <1>1. CASE DStart
    <2>1. \A t \in Threads : pc[t] = "new" /\ owner # t
      BY <1>1, Zenon DEF DStart, LifeInv, MutexInv
    <2> QED
      BY <1>1, <2>1, Zenon DEF DStart, MutexInv, threadVars, mutexVars
  <1>2. CASE DStop \/ DDestroy
    BY <1>2 DEF DStop, DDestroy, MutexInv, strategyVars, threadVars, mutexVars
  <1>3. CASE DEnded \/ UNCHANGED dvars
    BY <1>3 DEF DEnded, dvars, MutexInv, schedulerVars, strategyVars, threadVars, mutexVars
  <1>4. ASSUME NEW t \in Threads, DSetup(t) PROVE MutexInv'
    BY <1>4, Zenon DEF DSetup, AddThreadId, AddThread, MutexInv, threadVars, mutexVars
  <1>5. ASSUME NEW t \in Threads, TakeGil(t) PROVE MutexInv'
    BY <1>5, Zenon DEF TakeGil, MutexInv, schedulerVars, strategyVars, threadVars, mutexVars
  <1>6. ASSUME NEW t \in Threads, DLock(t) \/ DUnlock(t) PROVE MutexInv'
    <2>1. mCurrentThreadId' = mCurrentThreadId
      BY <1>6, LockingKeepsTurn, Zenon DEF DLock, DUnlock
    <2> QED
      BY <1>6, <2>1 DEF DLock, DUnlock, MutexInv, threadVars, mutexVars
  <1>7. ASSUME NEW t \in Threads, NEW S \in SyncSets, DSynchronize(t, S) PROVE MutexInv'
    <2>1. mCurrentThreadId' = mCurrentThreadId
      BY <1>7, SynchronizingKeepsTurn, Zenon DEF DSynchronize
    <2>2. owner' = owner /\ owner # NoThread
      BY <1>0, <1>7, Zenon DEF DSynchronize, Serving, MutexInv
    <2> QED
      BY <1>7, <2>1, <2>2, Zenon DEF DSynchronize, MutexInv, threadVars
  <1>8. ASSUME NEW t \in Threads, RegisterExecutionThread(t) PROVE MutexInv'
    BY <1>8, Zenon DEF RegisterExecutionThread, MutexInv, schedulerVars, strategyVars, mutexVars
  <1>9. ASSUME NEW t \in Threads, PassStartBarrier(t) PROVE MutexInv'
    BY <1>9, Zenon DEF PassStartBarrier, MutexInv, schedulerVars, strategyVars, mutexVars
  <1>10. ASSUME NEW t \in Threads, BeginRequest(t) PROVE MutexInv'
    BY <1>10, Zenon DEF BeginRequest, MutexInv, schedulerVars, strategyVars, mutexVars
  <1>11. ASSUME NEW t \in Threads, BeginReportThreadDone(t) PROVE MutexInv'
    <2>1. owner # t
      BY <1>11, Zenon DEF BeginReportThreadDone, MutexInv
    <2> QED
      BY <1>11, <2>1, Zenon DEF BeginReportThreadDone, MutexInv, schedulerVars, strategyVars, mutexVars
  <1>12. ASSUME NEW t \in Threads, DRequest(t) PROVE MutexInv'
    <2>1. CASE DFail("thread-dispatch-failure")
      BY <2>1, Zenon DEF DFail, Fail, MutexInv, strategyVars, threadVars, mutexVars
    <2>2. CASE Wait(t)
      BY <1>12, <2>2, Zenon DEF DRequest, Wait, MutexInv, schedulerVars, strategyVars, mutexVars
    <2>3. CASE t \notin leaving /\ Grant(t)
      BY <1>0, <1>12, <2>3 DEF DRequest, CanLock, Grant, MutexInv, schedulerVars, strategyVars
    <2> QED
      BY <1>12, <2>1, <2>2, <2>3, Zenon DEF DRequest
  <1>13. ASSUME NEW t \in Threads, SpuriousWakeup(t) PROVE MutexInv'
    BY <1>13, Zenon DEF SpuriousWakeup, MutexInv, schedulerVars, strategyVars, mutexVars
  <1>14. ASSUME NEW t \in Threads, Return(t) PROVE MutexInv'
    BY <1>14, Zenon DEF Return, MutexInv, schedulerVars, strategyVars, mutexVars
  <1>15. ASSUME NEW t \in Threads, DFinish(t) PROVE MutexInv'
    <2>1. /\ mLockCount' = 0 /\ owner' = NoThread /\ leaving' = leaving
          /\ pc' = [pc EXCEPT ![t] = "notify"] /\ owner = t
      BY <1>15 DEF DFinish, UnlockOnce, MutexInv
    <2>2. ~synced'
      BY <1>15, Zenon DEF DFinish, UnlockOnce
    <2> QED
      BY <1>0, <2>1, <2>2, Zenon DEF MutexInv
  <1>16. ASSUME NEW t \in Threads, FinishNested(t) PROVE MutexInv'
    <2>1. /\ mLockCount' > 0 /\ owner' = t /\ owner = t
      BY <1>16 DEF FinishNested, UnlockOnce, MutexInv
    <2> QED
      BY <1>0, <1>16, <2>1 DEF FinishNested, MutexInv, schedulerVars, strategyVars, threadVars
  <1>17. ASSUME NEW t \in Threads, DFinishNoAdvance(t) PROVE MutexInv'
    <2>1. /\ mLockCount' = 0 /\ owner' = NoThread /\ leaving' = leaving
          /\ pc' = [pc EXCEPT ![t] = "python"] /\ owner = t
      BY <1>17 DEF DFinishNoAdvance, UnlockOnce, MutexInv, Serving
    <2>2. ~synced'
      BY <1>17, Zenon DEF DFinishNoAdvance, UnlockOnce
    <2> QED
      BY <1>0, <2>1, <2>2, Zenon DEF MutexInv
  <1>18. ASSUME NEW t \in Threads, NotifyAll(t) PROVE MutexInv'
    BY <1>18, Zenon DEF NotifyAll, MutexInv, schedulerVars, strategyVars, mutexVars
  <1>19. ASSUME NEW t \in Threads, DReportThreadDone(t) PROVE MutexInv'
    <2>1. CASE DFail("thread-dispatch-failure")
      BY <2>1 DEF DFail, Fail, MutexInv, strategyVars, threadVars, mutexVars
    <2>2. CASE /\ mLockCount = 0 /\ pc' = [pc EXCEPT ![t] = "notify"]
               /\ UNCHANGED <<leaving, mutexVars>>
      BY <1>0, <2>2, Zenon DEF MutexInv, mutexVars
    <2> QED
      BY <1>19, <2>1, <2>2, Zenon DEF DReportThreadDone
  <1>20. ASSUME NEW t \in Threads, Exit(t) PROVE MutexInv'
    BY <1>20, Zenon DEF Exit, MutexInv, schedulerVars, strategyVars, mutexVars
  <1> QED
    BY <1>1, <1>2, <1>3, <1>4, <1>5, <1>6, <1>7, <1>8, <1>9, <1>10, <1>11, <1>12, <1>13,
       <1>14, <1>15, <1>16, <1>17, <1>18, <1>19, <1>20 DEF DNext, ThreadStep

(* A step that moves threads between places where they stay registered, or *)
(* stay unregistered, and leaves the schedule alone.                       *)
LEMMA LifeKept ==
  ASSUME LifeInv, UNCHANGED <<stage, registered, mThreadIds>>,
         failure' = NoFailure => failure = NoFailure,
         \A t \in Threads :
            /\ t \in leaving' <=> t \in leaving
            /\ pc'[t] = "new" <=> pc[t] = "new"
            /\ pc'[t] = "exited" <=> pc[t] = "exited"
            /\ pc'[t] \in {"barrier", "python"} => t \notin leaving
            /\ pc'[t] = "exit" => t \in leaving
            /\ t \in registered <=>
                /\ pc'[t] \notin {"new", "exit", "exited"}
                /\ ~(pc'[t] = "notify" /\ t \in leaving)
  PROVE  LifeInv'
  BY Zenon DEF LifeInv, Alive

(* Every step keeps the lives of the threads in order.                     *)
LEMMA LifeNext ==
  ASSUME DTypeOK, MutexInv, LifeInv, [DNext]_dvars
  PROVE  LifeInv'
  <1> USE DEF DTypeOK, Places
  <1>1. CASE DStart
    <2>1. mThreadIds' = Threads
      BY <1>1, StartKeepsThreads, Zenon DEF DStart
    <2>2. UNCHANGED <<pc, leaving, registered>> /\ stage' = "running"
      BY <1>1, Zenon DEF DStart, threadVars
    <2>3. \A t \in Threads : pc[t] = "new" /\ t \notin registered
      BY <1>1, Zenon DEF DStart, LifeInv
    <2> QED
      BY <2>1, <2>2, <2>3, Zenon DEF LifeInv
  <1>2. CASE DStop
    BY <1>2, Zenon DEF DStop, LifeInv, Alive, strategyVars, threadVars
  <1>3. CASE DDestroy
    BY <1>3, Zenon DEF DDestroy, LifeInv, Alive, strategyVars, threadVars
  <1>4. CASE DEnded \/ UNCHANGED dvars
    BY <1>4, Zenon DEF DEnded, dvars, LifeInv, Alive, schedulerVars, strategyVars, threadVars
  <1>5. ASSUME NEW t \in Threads, DSetup(t) PROVE LifeInv'
    BY <1>5, Zenon DEF DSetup, LifeInv, Alive, threadVars
  <1>6. ASSUME NEW t \in Threads, TakeGil(t) PROVE LifeInv'
    BY <1>6, Zenon DEF TakeGil, LifeInv, Alive, schedulerVars, strategyVars, threadVars
  <1>7. ASSUME NEW t \in Threads, DLock(t) \/ DUnlock(t) PROVE LifeInv'
    <2>1. mThreadIds' = mThreadIds /\ UNCHANGED <<stage, threadVars>> /\ failure = NoFailure
      BY <1>7, LockingKeepsTurn, Zenon DEF DLock, DUnlock, Serving, Alive
    <2> QED
      BY <2>1, Zenon DEF LifeInv, Alive, threadVars
  <1>8. ASSUME NEW t \in Threads, NEW S \in SyncSets, DSynchronize(t, S) PROVE LifeInv'
    <2>1. mThreadIds' = mThreadIds /\ UNCHANGED <<stage, threadVars>> /\ failure = NoFailure
      BY <1>8, SynchronizingKeepsTurn, Zenon DEF DSynchronize, Serving, Alive
    <2> QED
      BY <2>1, Zenon DEF LifeInv, Alive, threadVars
  <1>9. ASSUME NEW t \in Threads, RegisterExecutionThread(t) PROVE LifeInv'
    <2>1. /\ stage = "running" /\ stage' = stage /\ pc[t] = "new" /\ leaving' = leaving
          /\ registered' = registered \cup {t} /\ pc' = [pc EXCEPT ![t] = "barrier"]
          /\ mThreadIds' = mThreadIds /\ failure' = failure
      BY <1>9, Zenon DEF RegisterExecutionThread, schedulerVars, strategyVars
    <2>2. Alive => registered' \cup {u \in Threads : pc'[u] = "new"}
                     = registered \cup {u \in Threads : pc[u] = "new"}
      BY <2>1, Zenon
    <2> QED
      BY <2>1, <2>2, Zenon DEF LifeInv, Alive
  <1>10. ASSUME NEW t \in Threads, PassStartBarrier(t) PROVE LifeInv'
    <2>1. UNCHANGED <<stage, registered, leaving, mThreadIds, failure>>
      BY <1>10, Zenon DEF PassStartBarrier, schedulerVars, strategyVars
    <2> QED
      BY <1>10, <2>1, LifeKept, Zenon DEF PassStartBarrier, LifeInv
  <1>11. ASSUME NEW t \in Threads, BeginRequest(t) PROVE LifeInv'
    <2>1. UNCHANGED <<stage, registered, leaving, mThreadIds, failure>>
      BY <1>11, Zenon DEF BeginRequest, schedulerVars, strategyVars
    <2> QED
      BY <1>11, <2>1, LifeKept, Zenon DEF BeginRequest, LifeInv
  <1>12. ASSUME NEW t \in Threads, BeginReportThreadDone(t) PROVE LifeInv'
    <2>1. UNCHANGED <<stage, registered, mThreadIds, failure>> /\ leaving' = leaving \cup {t}
      BY <1>12, Zenon DEF BeginReportThreadDone, schedulerVars, strategyVars
    <2>2. pc[t] = "python" /\ pc' = [pc EXCEPT ![t] = "lock"]
      BY <1>12, Zenon DEF BeginReportThreadDone
    <2>3. {u \in Threads : pc'[u] = "new"} = {u \in Threads : pc[u] = "new"}
      BY <2>2, Zenon
    <2> QED
      BY <2>1, <2>2, <2>3, Zenon DEF LifeInv, Alive
  <1>13. ASSUME NEW t \in Threads, DRequest(t) PROVE LifeInv'
    <2>1. CASE DFail("thread-dispatch-failure")
      BY <1>13, <2>1, Zenon DEF DRequest, DFail, Fail, LifeInv, Alive, strategyVars, threadVars
    <2>2. CASE Wait(t) \/ Grant(t)
      <3>1. UNCHANGED <<stage, registered, leaving, mThreadIds, failure>>
        BY <2>2, Zenon DEF Wait, Grant, schedulerVars, strategyVars
      <3> QED
        BY <1>13, <2>2, <3>1, LifeKept DEF DRequest, Wait, Grant, LifeInv
    <2> QED
      BY <1>13, <2>1, <2>2, Zenon DEF DRequest
  <1>14. ASSUME NEW t \in Threads, SpuriousWakeup(t) PROVE LifeInv'
    <2>1. UNCHANGED <<stage, registered, leaving, mThreadIds, failure>>
      BY <1>14, Zenon DEF SpuriousWakeup, schedulerVars, strategyVars
    <2> QED
      BY <1>14, <2>1, LifeKept, Zenon DEF SpuriousWakeup, LifeInv
  <1>15. ASSUME NEW t \in Threads, Return(t) PROVE LifeInv'
    <2>1. UNCHANGED <<stage, registered, leaving, mThreadIds, failure>>
      BY <1>15, Zenon DEF Return, schedulerVars, strategyVars
    <2> QED
      BY <1>15, <2>1, LifeKept, Zenon DEF Return, LifeInv
  <1>16. ASSUME NEW t \in Threads, DFinish(t) PROVE LifeInv'
    <2>1. UNCHANGED <<stage, registered, leaving, mThreadIds>> /\ failure = NoFailure
      BY <1>16, NextThreadKeepsThreads, Zenon DEF DFinish, Alive
    <2>2. t \notin leaving
      BY <1>16, Zenon DEF DFinish, MutexInv
    <2> QED
      BY <1>16, <2>1, <2>2, LifeKept DEF DFinish, LifeInv
  <1>17. ASSUME NEW t \in Threads, FinishNested(t) PROVE LifeInv'
    BY <1>17, Zenon DEF FinishNested, LifeInv, Alive, schedulerVars, strategyVars, threadVars
  <1>18. ASSUME NEW t \in Threads, DFinishNoAdvance(t) PROVE LifeInv'
    <2>1. UNCHANGED <<stage, registered, leaving, mThreadIds, failure>>
      BY <1>18, Zenon DEF DFinishNoAdvance, schedulerVars, strategyVars
    <2>2. t \notin leaving
      BY <1>18, Zenon DEF DFinishNoAdvance, Serving, MutexInv
    <2> QED
      BY <1>18, <2>1, <2>2, LifeKept DEF DFinishNoAdvance, Serving, LifeInv
  <1>19. ASSUME NEW t \in Threads, NotifyAll(t) PROVE LifeInv'
    <2>1. UNCHANGED <<stage, registered, leaving, mThreadIds, failure>>
      BY <1>19, Zenon DEF NotifyAll, schedulerVars, strategyVars
    <2> QED
      BY <1>19, <2>1, LifeKept DEF NotifyAll, LifeInv
  <1>20. ASSUME NEW t \in Threads, DReportThreadDone(t) PROVE LifeInv'
    <2>1. CASE DFail("thread-dispatch-failure")
      BY <1>20, <2>1, Zenon DEF DReportThreadDone, DFail, Fail, LifeInv, Alive, strategyVars, threadVars
    <2>2. CASE /\ RemoveThreadId(t) /\ registered' = registered \ {t}
               /\ pc' = [pc EXCEPT ![t] = "notify"] /\ UNCHANGED <<stage, leaving>>
      <3>1. pc[t] = "lock" /\ t \in leaving /\ t \in registered /\ failure = NoFailure
        BY <1>20, Zenon DEF DReportThreadDone, Alive
      <3>2. {u \in Threads : pc'[u] = "new"} = {u \in Threads : pc[u] = "new"} \ {t}
        BY <2>2, <3>1, Zenon
      <3>3. failure' = NoFailure => mThreadIds' = mThreadIds \ {t}
        BY <2>2, RemovingRemoves, Zenon
      <3> QED
        BY <2>2, <3>1, <3>2, <3>3, Zenon DEF LifeInv, Alive
    <2> QED
      BY <1>20, <2>1, <2>2, Zenon DEF DReportThreadDone
  <1>21. ASSUME NEW t \in Threads, Exit(t) PROVE LifeInv'
    <2>1. UNCHANGED <<stage, registered, leaving, mThreadIds, failure>>
      BY <1>21, Zenon DEF Exit, schedulerVars, strategyVars
    <2>2. pc[t] = "exit" /\ pc' = [pc EXCEPT ![t] = "exited"]
      BY <1>21, Zenon DEF Exit
    <2>3. {u \in Threads : pc'[u] = "new"} = {u \in Threads : pc[u] = "new"}
      BY <2>2, Zenon
    <2> QED
      BY <2>1, <2>2, <2>3, Zenon DEF LifeInv, Alive
  <1> QED
    BY <1>1, <1>2, <1>3, <1>4, <1>5, <1>6, <1>7, <1>8, <1>9, <1>10, <1>11, <1>12, <1>13,
       <1>14, <1>15, <1>16, <1>17, <1>18, <1>19, <1>20, <1>21 DEF DNext, ThreadStep

(* Nobody wakes the waiting thread in vain as long as these stay: the      *)
(* current thread, the scheduled threads, who waits and who will notify.   *)
LEMMA WakeKept ==
  ASSUME NoLostWakeup, UNCHANGED mCurrentThreadId, mThreadIds' \subseteq mThreadIds,
         failure' = NoFailure => failure = NoFailure,
         \A t \in Threads : pc'[t] = "wait" => pc[t] = "wait" \/ mCurrentThreadId # t,
         \A t \in Threads : pc[t] = "notify" => pc'[t] = "notify"
  PROVE  NoLostWakeup'
  BY Zenon DEF NoLostWakeup, Alive

(* Every step keeps the wake-ups: the current thread changes only in steps *)
(* that end with a notify_all, or before any thread runs.                  *)
LEMMA WakeNext ==
  ASSUME DTypeOK, MutexInv, LifeInv, NoLostWakeup, [DNext]_dvars
  PROVE  NoLostWakeup'
  <1> USE DEF DTypeOK, Places
  <1>1. CASE DStart
    BY <1>1, Zenon DEF DStart, LifeInv, NoLostWakeup, threadVars
  <1>2. CASE DStop \/ DDestroy
    BY <1>2, Zenon DEF DStop, DDestroy, NoLostWakeup, Alive, strategyVars, threadVars
  <1>3. CASE DEnded \/ UNCHANGED dvars
    BY <1>3, WakeKept, Zenon DEF DEnded, dvars, schedulerVars, strategyVars, threadVars
  <1>4. ASSUME NEW t \in Threads, DSetup(t) PROVE NoLostWakeup'
    BY <1>4, Zenon DEF DSetup, LifeInv, NoLostWakeup, threadVars
  <1>5. ASSUME NEW t \in Threads, TakeGil(t) PROVE NoLostWakeup'
    BY <1>5, WakeKept, Zenon DEF TakeGil, schedulerVars, strategyVars, threadVars
  <1>6. ASSUME NEW t \in Threads, DLock(t) \/ DUnlock(t) PROVE NoLostWakeup'
    <2>1. UNCHANGED <<mCurrentThreadId, mThreadIds, pc>> /\ failure = NoFailure
      BY <1>6, LockingKeepsTurn, Zenon DEF DLock, DUnlock, Serving, Alive, threadVars
    <2> QED
      BY <2>1, WakeKept, Zenon
  <1>7. ASSUME NEW t \in Threads, NEW S \in SyncSets, DSynchronize(t, S) PROVE NoLostWakeup'
    <2>1. UNCHANGED <<mCurrentThreadId, mThreadIds, pc>> /\ failure = NoFailure
      BY <1>7, SynchronizingKeepsTurn, Zenon DEF DSynchronize, Serving, Alive, threadVars
    <2> QED
      BY <2>1, WakeKept, Zenon
  <1>8. ASSUME NEW t \in Threads, RegisterExecutionThread(t) PROVE NoLostWakeup'
    BY <1>8, WakeKept, Zenon DEF RegisterExecutionThread, schedulerVars, strategyVars
  <1>9. ASSUME NEW t \in Threads, PassStartBarrier(t) PROVE NoLostWakeup'
    BY <1>9, WakeKept, Zenon DEF PassStartBarrier, schedulerVars, strategyVars
  <1>10. ASSUME NEW t \in Threads, BeginRequest(t) PROVE NoLostWakeup'
    BY <1>10, WakeKept, Zenon DEF BeginRequest, schedulerVars, strategyVars
  <1>11. ASSUME NEW t \in Threads, BeginReportThreadDone(t) PROVE NoLostWakeup'
    BY <1>11, WakeKept, Zenon DEF BeginReportThreadDone, schedulerVars, strategyVars
  <1>12. ASSUME NEW t \in Threads, DRequest(t) PROVE NoLostWakeup'
    <2>1. CASE DFail("thread-dispatch-failure")
      BY <1>12, <2>1, WakeKept, Zenon DEF DRequest, Alive, DFail, Fail, strategyVars, threadVars
    <2>2. CASE Wait(t)
      BY <1>12, <2>2, WakeKept, Zenon DEF DRequest, Wait, schedulerVars, strategyVars
    <2>3. CASE Grant(t)
      BY <1>12, <2>3, WakeKept, Zenon DEF DRequest, Grant, schedulerVars, strategyVars
    <2> QED
      BY <1>12, <2>1, <2>2, <2>3, Zenon DEF DRequest
  <1>13. ASSUME NEW t \in Threads, SpuriousWakeup(t) PROVE NoLostWakeup'
    BY <1>13, WakeKept, Zenon DEF SpuriousWakeup, schedulerVars, strategyVars
  <1>14. ASSUME NEW t \in Threads, Return(t) PROVE NoLostWakeup'
    BY <1>14, WakeKept, Zenon DEF Return, schedulerVars, strategyVars
  <1>15. ASSUME NEW t \in Threads, DFinish(t) PROVE NoLostWakeup'
    <2>1. pc'[t] = "notify"
      BY <1>15, Zenon DEF DFinish
    <2> QED
      BY <2>1, Zenon DEF NoLostWakeup
  <1>16. ASSUME NEW t \in Threads, FinishNested(t) PROVE NoLostWakeup'
    BY <1>16, WakeKept, Zenon DEF FinishNested, schedulerVars, strategyVars, threadVars
  <1>17. ASSUME NEW t \in Threads, DFinishNoAdvance(t) PROVE NoLostWakeup'
    BY <1>17, WakeKept, Zenon DEF DFinishNoAdvance, Serving, schedulerVars, strategyVars
  <1>18. ASSUME NEW t \in Threads, NotifyAll(t) PROVE NoLostWakeup'
    <2>1. \A u \in Threads : pc'[u] # "wait"
      BY <1>18, Zenon DEF NotifyAll
    <2> QED
      BY <2>1, Zenon DEF NoLostWakeup
  <1>19. ASSUME NEW t \in Threads, DReportThreadDone(t) PROVE NoLostWakeup'
    <2>1. CASE DFail("thread-dispatch-failure")
      BY <1>19, <2>1, WakeKept DEF DReportThreadDone, Alive, DFail, Fail, strategyVars, threadVars
    <2>2. CASE pc' = [pc EXCEPT ![t] = "notify"]
      <3>1. pc'[t] = "notify"
        BY <2>2, Zenon
      <3> QED
        BY <3>1 DEF NoLostWakeup
    <2> QED
      BY <1>19, <2>1, <2>2, Zenon DEF DReportThreadDone
  <1>20. ASSUME NEW t \in Threads, Exit(t) PROVE NoLostWakeup'
    BY <1>20, WakeKept, Zenon DEF Exit, schedulerVars, strategyVars
  <1> QED
    BY <1>1, <1>2, <1>3, <1>4, <1>5, <1>6, <1>7, <1>8, <1>9, <1>10, <1>11, <1>12, <1>13,
       <1>14, <1>15, <1>16, <1>17, <1>18, <1>19, <1>20 DEF DNext, ThreadStep

-----------------------------------------------------------------------------
(* The invariants *)

(* The inductive invariant holds throughout; fairness is not needed.       *)
THEOREM DInvariance == DSpec => []DInv
  <1>1. DInit => DInv
    <2> SUFFICES ASSUME DInit PROVE DInv
      BY Zenon
    <2>1. \A t \in Threads : pc[t] = "new"
      BY Zenon DEF DInit
    <2>2. DTypeOK /\ LifeInv /\ NoLostWakeup
      BY <2>1, Zenon DEF DInit, DTypeOK, Places, LifeInv, NoLostWakeup, Alive
    <2>3. MutexInv
      BY <2>1, ThreadsAssumption, Zenon DEF DInit, MutexInv
    <2> QED
      BY <2>2, <2>3, Zenon DEF DInv
  <1>2. DInv /\ [DNext]_dvars => DInv'
    BY TypeNext, MutexNext, LifeNext, WakeNext, Zenon DEF DInv
  <1> QED
    BY <1>1, <1>2, PTL DEF DSpec

(* No two threads are ever in guarded calls, and the one that is is the    *)
(* current thread and holds the mutex.                                     *)
THEOREM ThreadsServeAlone == DSpec => []ServesAlone
  <1>1. DInv => ServesAlone
    BY Zenon DEF DInv, MutexInv, ServesAlone
  <1> QED
    BY <1>1, DInvariance, PTL

(* A request made inside a request is granted at once.                     *)
THEOREM NestedRequestsGranted == DSpec => []NestedNeverWaits
  <1>1. DInv => NestedNeverWaits
    BY Zenon DEF DInv, MutexInv, NestedNeverWaits
  <1> QED
    BY <1>1, DInvariance, PTL

(* The thread whose turn it is does not sleep unless a notify_all is due.  *)
THEOREM WakeupsNotLost == DSpec => []NoLostWakeup
  BY DInvariance, PTL DEF DInv

-----------------------------------------------------------------------------
(* The dispatcher implements RequestTurns.  The scheduler's calls are the  *)
(* same in both, so are their definitions, expanded.                       *)

(* Scheduler::AddThreadId is the same operation in both specifications.    *)
LEMMA SameAdd ==
  ASSUME NEW t PROVE AddThreadId(t) <=> Turns!AddThreadId(t)
  BY Zenon DEF AddThreadId, Turns!AddThreadId, AddThread, Turns!AddThread, lockVars, Turns!lockVars

(* The start of the schedule is the same operation in both specifications. *)
LEMMA SameStart ==
  StartSchedule <=> Turns!StartSchedule
  BY Zenon DEF StartSchedule, Turns!StartSchedule, RefreshScheduleError, Turns!RefreshScheduleError,
         RefreshSchedule, Turns!RefreshSchedule, Shuffles, Turns!Shuffles, SimpleNextThread,
         Turns!SimpleNextThread, NoFailure, Turns!NoFailure, Fail, Turns!Fail, strategyVars,
         Turns!strategyVars, lockVars, Turns!lockVars, Bijection, Turns!Bijection, Injection,
         Turns!Injection, Surjection, Turns!Surjection, IsInjective, Turns!IsInjective

(* NextThread is the same operation in both specifications.                *)
LEMMA SameNextThread ==
  NextThread <=> Turns!NextThread
  BY Zenon DEF NextThread, Turns!NextThread, NextThreadError, Turns!NextThreadError, NextThreadFrom,
         Turns!NextThreadFrom, Shuffles, Turns!Shuffles, SimpleNextThread,
         Turns!SimpleNextThread, NoFailure, Turns!NoFailure, Fail, Turns!Fail, strategyVars,
         Turns!strategyVars, lockVars, Turns!lockVars, Bijection, Turns!Bijection, Injection,
         Turns!Injection, Surjection, Turns!Surjection, IsInjective, Turns!IsInjective

(* LockThreadScheduler is the same operation in both specifications.       *)
LEMMA SameLock ==
  ASSUME NEW t PROVE LockThreadScheduler(t) <=> Turns!LockThreadScheduler(t)
  BY Zenon DEF LockThreadScheduler, Turns!LockThreadScheduler, LockScheduleError,
         Turns!LockScheduleError, LockSchedule, Turns!LockSchedule, NoFailure, Turns!NoFailure,
         Fail, Turns!Fail, strategyVars, Turns!strategyVars

(* UnlockThreadScheduler is the same operation in both specifications.     *)
LEMMA SameUnlock ==
  ASSUME NEW t PROVE UnlockThreadScheduler(t) <=> Turns!UnlockThreadScheduler(t)
  BY Zenon DEF UnlockThreadScheduler, Turns!UnlockThreadScheduler, UnlockScheduleError,
         Turns!UnlockScheduleError, UnlockSchedule, Turns!UnlockSchedule, NoFailure,
         Turns!NoFailure, Fail, Turns!Fail, strategyVars, Turns!strategyVars

(* SynchronizeWithBarrier is the same operation in both specifications.    *)
LEMMA SameSynchronize ==
  ASSUME NEW t, NEW S PROVE SynchronizeWithBarrier(t, S) <=> Turns!SynchronizeWithBarrier(t, S)
  BY Zenon DEF SynchronizeWithBarrier, Turns!SynchronizeWithBarrier, SynchronizeError,
         Turns!SynchronizeError, CurrentBarrier, Turns!CurrentBarrier, Query, Turns!Query,
         CreateSynchronizeBarrier, Turns!CreateSynchronizeBarrier,
         CreateSynchronizeBarrierError, Turns!CreateSynchronizeBarrierError,
         DeactivateThreadError, Turns!DeactivateThreadError, AddReachedThread,
         Turns!AddReachedThread, AddReachedThreadError, Turns!AddReachedThreadError,
         ReleasedGroups, Turns!ReleasedGroups, ActivateThreadsError,
         Turns!ActivateThreadsError, ActivationOrders, Turns!ActivationOrders, Erase,
         Turns!Erase, PushBack, Turns!PushBack, DeadLock, Turns!DeadLock, Blocked,
         Turns!Blocked, Range, Turns!Range, Cardinality, Turns!Cardinality, IsInjective,
         Turns!IsInjective, NoFailure, Turns!NoFailure, Fail, Turns!Fail, strategyVars,
         Turns!strategyVars, lockVars, Turns!lockVars, Active, Turns!Active

(* Scheduler::RemoveThreadId is the same operation in both specifications. *)
LEMMA SameRemove ==
  ASSUME NEW t PROVE RemoveThreadId(t) <=> Turns!RemoveThreadId(t)
  BY Zenon DEF RemoveThreadId, Turns!RemoveThreadId, GetParticipatingBarriers,
         Turns!GetParticipatingBarriers, AddReachedThread, Turns!AddReachedThread,
         AddReachedThreadError, Turns!AddReachedThreadError, ReleasedGroups,
         Turns!ReleasedGroups, ActivateThreadsError, Turns!ActivateThreadsError,
         ActivationOrders, Turns!ActivationOrders, Erase, Turns!Erase, Decrement,
         Turns!Decrement, PushBack, Turns!PushBack, DeadLock, Turns!DeadLock, Blocked,
         Turns!Blocked, NextThreadFrom, Turns!NextThreadFrom, SimpleNextThread,
         Turns!SimpleNextThread, Shuffles, Turns!Shuffles, Bijection, Turns!Bijection,
         Injection, Turns!Injection, Surjection, Turns!Surjection, IsInjective,
         Turns!IsInjective, Range, Turns!Range, Cardinality, Turns!Cardinality, NoFailure,
         Turns!NoFailure, Fail, Turns!Fail, strategyVars, Turns!strategyVars, lockVars,
         Turns!lockVars

(* So are the checks at the end of a test.                                 *)
LEMMA SameEnd ==
  /\ NoFailure = Turns!NoFailure
  /\ StopError = Turns!StopError
  /\ DestroyError = Turns!DestroyError
  /\ strategyVars = Turns!strategyVars
  BY Zenon DEF NoFailure, Turns!NoFailure, StopError, Turns!StopError, DestroyError,
         Turns!DestroyError, strategyVars, Turns!strategyVars

(* The turn a state shows.                                                 *)
LEMMA TurnValues ==
  /\ ~Alive => Turn = "failed"
  /\ Alive /\ stage # "running" => Turn = stage
  /\ Alive /\ stage = "running" /\ owner = NoThread => Turn = "idle"
  /\ Alive /\ stage = "running" /\ owner # NoThread /\ synced => Turn = "synced"
  /\ Alive /\ stage = "running" /\ owner # NoThread /\ ~synced => Turn = "open"
  BY Zenon DEF Turn

(* The turn the next state shows.                                          *)
LEMMA NextTurnValues ==
  /\ failure' # NoFailure => Turn' = "failed"
  /\ failure' = NoFailure /\ stage' # "running" => Turn' = stage'
  /\ failure' = NoFailure /\ stage' = "running" /\ owner' = NoThread => Turn' = "idle"
  /\ failure' = NoFailure /\ stage' = "running" /\ owner' # NoThread /\ synced' => Turn' = "synced"
  /\ failure' = NoFailure /\ stage' = "running" /\ owner' # NoThread /\ ~synced' => Turn' = "open"
  BY Zenon DEF Turn, Alive, NoFailure

(* A step that leaves the scheduler, the owner and the stage alone is no   *)
(* step of the turns.                                                      *)
LEMMA TurnStutters ==
  ASSUME UNCHANGED <<schedulerVars, stage, owner, synced>>
  PROVE  UNCHANGED Turns!vars
  BY Zenon DEF Turns!vars, Turns!schedulerVars, Turns!strategyVars, schedulerVars, strategyVars,
               Turn, Alive

(* A thread that is served or waits to be is in a running test.            *)
LEMMA ServedWhileRunning ==
  ASSUME DInv, NEW t \in Threads, pc[t] \notin {"new", "exited"}
  PROVE  stage = "running"
  BY Zenon DEF DInv, DTypeOK, LifeInv

(* In a guarded call of t the turn is open, or t has synchronized.         *)
LEMMA ServingTurn ==
  ASSUME DInv, NEW t \in Threads, Alive, pc[t] = "serving"
  PROVE  /\ owner = t /\ owner # NoThread
         /\ mCurrentThreadId = t
         /\ stage = "running"
         /\ synced => Turn = "synced"
         /\ ~synced => Turn = "open"
  <1>1. owner = t /\ mCurrentThreadId = t /\ stage = "running"
    BY ServedWhileRunning, Zenon DEF DInv, MutexInv
  <1>2. owner # NoThread
    BY <1>1, ThreadsAssumption, Zenon
  <1> QED
    BY <1>1, <1>2, TurnValues, Zenon

(* Registering a thread with the scheduler before the start.               *)
LEMMA SetupTurn ==
  ASSUME DInv, NEW t \in Threads, DSetup(t)
  PROVE  Turns!Setup(t)
  <1>1. Turn = "setup" /\ stage = "setup" /\ Alive
    BY TurnValues, Zenon DEF DSetup
  <1>2. UNCHANGED <<failure, stage>>
    BY Zenon DEF DSetup, AddThreadId
  <1>3. Turn' = "setup"
    BY <1>1, <1>2, NextTurnValues, Zenon DEF Alive
  <1> QED
    BY <1>1, <1>3, SameAdd, Zenon DEF DSetup, Turns!Setup

(* ThreadDispatcher::StartDispatch starts the schedule.                    *)
LEMMA StartTurn ==
  ASSUME DInv, DStart
  PROVE  Turns!Start
  <1>1. Turn = "setup"
    BY TurnValues, Zenon DEF DStart
  <1>2. owner' = NoThread
    <2>1. \A t \in Threads : pc[t] = "new"
      BY Zenon DEF DInv, LifeInv, DStart
    <2>2. owner = NoThread
      BY <2>1, Zenon DEF DInv, MutexInv, DTypeOK
    <2> QED
      BY <2>2, Zenon DEF DStart, mutexVars
  <1>3. Turns!EnterPhase("idle")
    BY <1>2, NextTurnValues, SameEnd, Zenon DEF Turns!EnterPhase, DStart
  <1> QED
    BY <1>1, <1>3, SameStart, Zenon DEF DStart, Turns!Start

(* ThreadDispatcher::Dispatch lets a thread through whose turn it is: a    *)
(* request of the current thread, or none when the call is nested.         *)
LEMMA GrantTurn ==
  ASSUME DInv, NEW t \in Threads, DRequest(t), Grant(t), t \in registered
  PROVE  Turns!Request(t) \/ UNCHANGED Turns!vars
  <1>1. CASE owner = t
    BY <1>1, TurnStutters, Zenon DEF Grant
  <1>2. CASE owner = NoThread
    <2>1. stage = "running" /\ Alive
      BY ServedWhileRunning, Zenon DEF DRequest
    <2>2. Turn = "idle"
      BY <1>2, <2>1, TurnValues, Zenon
    <2>3. failure' = NoFailure /\ stage' = "running" /\ owner' # NoThread
      BY <2>1, ThreadsAssumption, Zenon DEF Grant, schedulerVars, Alive
    <2>4. ~synced'
      BY <1>2, Zenon DEF DInv, MutexInv, Grant
    <2>5. Turn' = "open"
      BY <2>3, <2>4, NextTurnValues, Zenon
    <2>6. t \in mThreadIds
      BY <2>1, Zenon DEF DInv, LifeInv
    <2>7. UNCHANGED Turns!schedulerVars
      BY Zenon DEF Grant, schedulerVars, strategyVars, Turns!schedulerVars, Turns!strategyVars
    <2> QED
      BY <2>2, <2>5, <2>6, <2>7 DEF Grant, Turns!Request
  <1> QED
    BY <1>1, <1>2, Zenon DEF DRequest, CanLock

(* LockThreadScheduler inside a guarded call.                              *)
LEMMA LockTurn ==
  ASSUME DInv, NEW t \in Threads, DLock(t)
  PROVE  Turns!Lock(t)
  <1>1. ~synced'
    BY Zenon DEF DLock, Serving, mutexVars
  <1>2. Turn = "open" /\ t = mCurrentThreadId /\ owner' # NoThread /\ stage' = "running"
    BY ServingTurn, Zenon DEF DLock, Serving, mutexVars
  <1>3. Turns!EnterPhase("open")
    BY <1>1, <1>2, NextTurnValues, SameEnd DEF Turns!EnterPhase
  <1> QED
    BY <1>2, <1>3, SameLock, Zenon DEF DLock, Turns!Lock

(* UnlockThreadScheduler inside a guarded call.                            *)
LEMMA UnlockTurn ==
  ASSUME DInv, NEW t \in Threads, DUnlock(t)
  PROVE  Turns!Unlock(t)
  <1>1. ~synced'
    BY Zenon DEF DUnlock, Serving, mutexVars
  <1>2. Turn = "open" /\ t = mCurrentThreadId /\ owner' # NoThread /\ stage' = "running"
    BY ServingTurn DEF DUnlock, Serving, mutexVars
  <1>3. Turns!EnterPhase("open")
    BY <1>1, <1>2, NextTurnValues, SameEnd DEF Turns!EnterPhase
  <1> QED
    BY <1>2, <1>3, SameUnlock DEF DUnlock, Turns!Unlock

(* SynchronizeWithBarrier inside a guarded call.                           *)
LEMMA SynchronizeTurn ==
  ASSUME DInv, NEW t \in Threads, NEW S \in SyncSets, DSynchronize(t, S)
  PROVE  Turns!Synchronize(t, S)
  <1>1. synced'
    BY Zenon DEF DSynchronize
  <1>2. Turn = "open" /\ t = mCurrentThreadId /\ owner' # NoThread /\ stage' = "running"
    BY ServingTurn, Zenon DEF DSynchronize, Serving
  <1>3. Turns!EnterPhase("synced")
    BY <1>1, <1>2, NextTurnValues, SameEnd, Zenon DEF Turns!EnterPhase
  <1> QED
    BY <1>2, <1>3, SameSynchronize, Zenon DEF DSynchronize, Turns!Synchronize

(* ThreadDispatcher::Finish of the outermost call passes on the turn.      *)
LEMMA FinishTurn ==
  ASSUME DInv, NEW t \in Threads, DFinish(t)
  PROVE  Turns!Finish
  <1>1. Turn \in {"open", "synced"} /\ stage' = "running"
    BY ServingTurn, Zenon DEF DFinish
  <1>2. owner' = NoThread
    BY Zenon DEF DFinish, UnlockOnce
  <1>3. Turns!EnterPhase("idle")
    BY <1>1, <1>2, NextTurnValues, SameEnd DEF Turns!EnterPhase
  <1> QED
    BY <1>1, <1>3, SameNextThread, Zenon DEF DFinish, Turns!Finish

(* The end of a nested call changes nothing the scheduler sees.            *)
LEMMA FinishNestedTurn ==
  ASSUME DInv, NEW t \in Threads, FinishNested(t)
  PROVE  UNCHANGED Turns!vars
  <1>1. owner' = owner
    BY ServingTurn DEF DInv, DTypeOK, FinishNested, UnlockOnce
  <1>2. mLockCount # 1
    BY DEF FinishNested, DInv, DTypeOK
  <1>3. synced' <=> synced
    BY <1>2, Zenon DEF FinishNested, UnlockOnce
  <1>4. UNCHANGED Turn
    BY <1>1, <1>3, Zenon DEF FinishNested, schedulerVars, Turn, Alive
  <1> QED
    BY <1>4, Zenon DEF FinishNested, schedulerVars, strategyVars, Turns!vars, Turns!schedulerVars,
                Turns!strategyVars

(* ThreadDispatcher::FinishNoAdvance leaves the turn with its thread.      *)
LEMMA FinishNoAdvanceTurn ==
  ASSUME DInv, NEW t \in Threads, DFinishNoAdvance(t)
  PROVE  Turns!FinishNoAdvance
  <1>1. Turn = "open" /\ stage' = "running" /\ failure' = NoFailure
    BY ServingTurn, Zenon DEF DFinishNoAdvance, Serving, schedulerVars, Alive
  <1>2. owner' = NoThread
    BY Zenon DEF DFinishNoAdvance, UnlockOnce
  <1>3. Turn' = "idle"
    BY <1>1, <1>2, NextTurnValues, Zenon
  <1> QED
    BY <1>1, <1>3, Zenon DEF DFinishNoAdvance, Turns!FinishNoAdvance, schedulerVars, strategyVars,
                      Turns!schedulerVars, Turns!strategyVars

(* A leaving thread is in no request, so the mutex is free when it has it. *)
LEMMA LeavingOutsideRequests ==
  ASSUME DInv, NEW t \in Threads, t \in leaving, CanLock(t)
  PROVE  owner = NoThread /\ mLockCount = 0
  BY ThreadsAssumption, Zenon DEF DInv, MutexInv, CanLock

(* ThreadDispatcher::ReportThreadDone takes the thread out of the          *)
(* schedule.                                                               *)
LEMMA ReportThreadDoneTurn ==
  ASSUME DInv, NEW t \in Threads, DReportThreadDone(t)
  PROVE  Turns!ReportThreadDone(t)
  <1>1. owner = NoThread /\ mLockCount = 0
    BY LeavingOutsideRequests, Zenon DEF DReportThreadDone
  <1>2. stage = "running" /\ Alive
    BY ServedWhileRunning, Zenon DEF DReportThreadDone
  <1>3. Turn = "idle"
    BY <1>1, <1>2, TurnValues, Zenon
  <1>4. t \in mThreadIds
    BY <1>2, Zenon DEF DInv, LifeInv, DReportThreadDone
  <1>5. RemoveThreadId(t) /\ owner' = NoThread /\ stage' = "running"
    BY <1>1, <1>2, Zenon DEF DReportThreadDone, mutexVars
  <1>6. Turns!EnterPhase("idle")
    BY <1>5, NextTurnValues, SameEnd, Zenon DEF Turns!EnterPhase
  <1> QED
    BY <1>3, <1>4, <1>5, <1>6, SameRemove, Zenon DEF DReportThreadDone, Turns!ReportThreadDone

(* ThreadDispatcher::StopDispatch.                                         *)
LEMMA StopTurn ==
  ASSUME DInv, DStop
  PROVE  Turns!Stop
  <1>1. owner = NoThread
    BY Zenon DEF DInv, DTypeOK, MutexInv, DStop
  <1>2. Turn = "idle"
    BY <1>1, TurnValues, Zenon DEF DStop
  <1>3. mThreadIds = {}
    BY Zenon DEF DInv, DTypeOK, LifeInv, DStop
  <1>4. Turns!EnterPhase("stopped")
    BY NextTurnValues, SameEnd, Zenon DEF DStop, Turns!EnterPhase
  <1> QED
    BY <1>2, <1>3, <1>4, SameEnd, Zenon DEF DStop, Turns!Stop, strategyVars, Turns!strategyVars

(* The destructors at the end of a test.                                   *)
LEMMA DestroyTurn ==
  ASSUME DDestroy
  PROVE  Turns!Destroy
  <1>1. Turn = "stopped"
    BY TurnValues, Zenon DEF DDestroy
  <1>2. Turns!EnterPhase("destroyed")
    BY NextTurnValues, SameEnd, Zenon DEF DDestroy, Turns!EnterPhase
  <1> QED
    BY <1>1, <1>2, SameEnd, Zenon DEF DDestroy, Turns!Destroy, strategyVars, Turns!strategyVars

(* Every step of threads and locks is a step of the turns or none.         *)
LEMMA StepTakesTurn ==
  ASSUME DInv, [DNext]_dvars
  PROVE  [Turns!Next]_Turns!vars
  <1>1. CASE DStart \/ DStop \/ DDestroy
    BY <1>1, StartTurn, StopTurn, DestroyTurn DEF Turns!Next
  <1>2. CASE DEnded \/ UNCHANGED dvars
    BY <1>2, TurnStutters, Zenon DEF DEnded, dvars, mutexVars
  <1>3. ASSUME NEW t \in Threads, DSetup(t) PROVE [Turns!Next]_Turns!vars
    BY <1>3, SetupTurn, Zenon DEF Turns!Next
  <1>4. ASSUME NEW t \in Threads, DLock(t) \/ DUnlock(t) PROVE [Turns!Next]_Turns!vars
    BY <1>4, LockTurn, UnlockTurn, Zenon DEF Turns!Next
  <1>5. ASSUME NEW t \in Threads, NEW S \in SyncSets, DSynchronize(t, S)
        PROVE  [Turns!Next]_Turns!vars
    BY <1>5, SynchronizeTurn, Zenon DEF Turns!Next
  <1>6. ASSUME NEW t \in Threads,
               \/ TakeGil(t) \/ SpuriousWakeup(t) \/ RegisterExecutionThread(t)
               \/ PassStartBarrier(t) \/ BeginRequest(t) \/ BeginReportThreadDone(t)
               \/ Return(t) \/ NotifyAll(t) \/ Exit(t)
        PROVE  [Turns!Next]_Turns!vars
    <2>1. UNCHANGED <<schedulerVars, stage, mutexVars>>
      BY <1>6, Zenon DEF TakeGil, SpuriousWakeup, RegisterExecutionThread, PassStartBarrier,
                  BeginRequest, BeginReportThreadDone, Return, NotifyAll, Exit
    <2> QED
      BY <2>1, TurnStutters, Zenon DEF mutexVars
  <1>7. ASSUME NEW t \in Threads, DRequest(t) PROVE [Turns!Next]_Turns!vars
    <2>1. t \in registered
      BY <1>7, Zenon DEF DRequest, DInv, LifeInv
    <2>2. CASE Wait(t)
      BY <2>2, TurnStutters, Zenon DEF Wait, mutexVars
    <2>3. CASE Grant(t)
      BY <1>7, <2>1, <2>3, GrantTurn, Zenon DEF Turns!Next
    <2> QED
      BY <1>7, <2>1, <2>2, <2>3 DEF DRequest
  <1>8. ASSUME NEW t \in Threads, DFinish(t) \/ FinishNested(t) \/ DFinishNoAdvance(t)
        PROVE  [Turns!Next]_Turns!vars
    BY <1>8, FinishTurn, FinishNestedTurn, FinishNoAdvanceTurn, Zenon DEF Turns!Next
  <1>9. ASSUME NEW t \in Threads, DReportThreadDone(t) PROVE [Turns!Next]_Turns!vars
    BY <1>9, ReportThreadDoneTurn, Zenon DEF Turns!Next
  <1> QED
    BY <1>1, <1>2, <1>3, <1>4, <1>5, <1>6, <1>7, <1>8, <1>9 DEF DNext, ThreadStep

(* Whatever the threads do at the same time, the scheduler sees requests   *)
(* of the current thread, one after the other: the dispatcher implements   *)
(* RequestTurns.                                                           *)
THEOREM DispatcherTakesTurns == DSpec => TakesTurns
  <1>1. DInit => Turns!Init
    <2> SUFFICES ASSUME DInit PROVE Turns!Init
      BY Zenon
    <2>1. Alive /\ stage = "setup"
      BY Zenon DEF DInit, SchedulerInit, Alive
    <2>2. Turn = "setup"
      BY <2>1, TurnValues, Zenon
    <2>3. Turns!SchedulerInit
      BY Zenon DEF DInit, SchedulerInit, Turns!SchedulerInit, StrategyInit, Turns!StrategyInit,
             NoFailure, Turns!NoFailure
    <2> QED
      BY <2>2, <2>3, Zenon DEF Turns!Init
  <1>2. DInv /\ [DNext]_dvars => [Turns!Next]_Turns!vars
    BY StepTakesTurn
  <1> QED
    BY <1>1, <1>2, DInvariance, PTL DEF DSpec, TakesTurns, Turns!Spec

-----------------------------------------------------------------------------
(* What is proved of turns in RequestTurnsProofs holds of the dispatcher.  *)
(* That module also has the history variables of SchedulingRounds, which   *)
(* the theorems used here do not mention; any values do for them.          *)
Proved == INSTANCE RequestTurnsProofs
            WITH phase <- Turn, PastBarriers <- FALSE, followed <- FALSE, served <- {},
                 eligible <- {}, skipped <- {}

(* The assumptions of that module are met.                                 *)
LEMMA ProvedAssumptions ==
  /\ Threads \subseteq Nat /\ Proved!IsFiniteSet(Threads) /\ Threads # {}
  /\ NoThread \notin Threads
  /\ MaxUInt32 \in Nat
  /\ \A S \in SyncSets : Proved!IsFiniteSet(S)
  /\ MaxLocking \in Nat
  /\ FALSE \in BOOLEAN
  BY ThreadsAssumption, MaxUInt32Assumption, BoundsAssumption
  DEF IsFiniteSet, Proved!IsFiniteSet

(* Setting up a thread is the same step in the instance the theorems are   *)
(* taken from.                                                             *)
LEMMA ProvedSetup ==
  ASSUME NEW t PROVE Turns!Setup(t) => Proved!Setup(t)
  BY DEF Turns!Setup, Proved!Setup, Turns!AddThreadId, Proved!AddThreadId, Turns!AddThread,
         Proved!AddThread, Turns!lockVars, Proved!lockVars

(* The start is the same step in the instance the theorems are taken from. *)
LEMMA ProvedStart ==
  Turns!Start => Proved!Start
  BY Zenon DEF Turns!Start, Proved!Start, Turns!EnterPhase, Proved!EnterPhase, Turns!StartSchedule,
         Proved!StartSchedule, Turns!RefreshScheduleError, Proved!RefreshScheduleError,
         Turns!RefreshSchedule, Proved!RefreshSchedule, Turns!Shuffles, Proved!Shuffles,
         Turns!SimpleNextThread, Proved!SimpleNextThread, Turns!NoFailure, Proved!NoFailure,
         Turns!Fail, Proved!Fail, Turns!strategyVars, Proved!strategyVars, Turns!lockVars,
         Proved!lockVars, Turns!Bijection, Proved!Bijection, Turns!Injection,
         Proved!Injection, Turns!Surjection, Proved!Surjection, Turns!IsInjective,
         Proved!IsInjective

(* A request is the same step in the instance the theorems are taken from. *)
LEMMA ProvedRequest ==
  ASSUME NEW t PROVE Turns!Request(t) => Proved!Request(t)
  BY DEF Turns!Request, Proved!Request, Turns!schedulerVars, Proved!schedulerVars,
         Turns!strategyVars, Proved!strategyVars

(* Locking is the same step in the instance the theorems are taken from.   *)
LEMMA ProvedLock ==
  ASSUME NEW t PROVE Turns!Lock(t) => Proved!Lock(t)
  BY DEF Turns!Lock, Proved!Lock, Turns!EnterPhase, Proved!EnterPhase,
         Turns!LockThreadScheduler, Proved!LockThreadScheduler, Turns!LockScheduleError,
         Proved!LockScheduleError, Turns!LockSchedule, Proved!LockSchedule, Turns!NoFailure,
         Proved!NoFailure, Turns!Fail, Proved!Fail, Turns!strategyVars, Proved!strategyVars

(* Unlocking is the same step in the instance the theorems are taken from. *)
LEMMA ProvedUnlock ==
  ASSUME NEW t PROVE Turns!Unlock(t) => Proved!Unlock(t)
  BY DEF Turns!Unlock, Proved!Unlock, Turns!EnterPhase, Proved!EnterPhase,
         Turns!UnlockThreadScheduler, Proved!UnlockThreadScheduler, Turns!UnlockScheduleError,
         Proved!UnlockScheduleError, Turns!UnlockSchedule, Proved!UnlockSchedule,
         Turns!NoFailure, Proved!NoFailure, Turns!Fail, Proved!Fail, Turns!strategyVars,
         Proved!strategyVars

(* Reaching a barrier is the same step in the instance the theorems are    *)
(* taken from.                                                             *)
LEMMA ProvedSynchronize ==
  ASSUME NEW t, NEW S PROVE Turns!Synchronize(t, S) => Proved!Synchronize(t, S)
  BY Zenon DEF Turns!Synchronize, Proved!Synchronize, Turns!EnterPhase, Proved!EnterPhase,
         Turns!SynchronizeWithBarrier, Proved!SynchronizeWithBarrier, Turns!SynchronizeError,
         Proved!SynchronizeError, Turns!CurrentBarrier, Proved!CurrentBarrier, Turns!Query,
         Proved!Query, Turns!CreateSynchronizeBarrier, Proved!CreateSynchronizeBarrier,
         Turns!CreateSynchronizeBarrierError, Proved!CreateSynchronizeBarrierError,
         Turns!DeactivateThreadError, Proved!DeactivateThreadError, Turns!Active,
         Proved!Active, Turns!IsInjective, Proved!IsInjective, Turns!lockVars, Proved!lockVars,
         Turns!AddReachedThread, Proved!AddReachedThread, Turns!AddReachedThreadError,
         Proved!AddReachedThreadError, Turns!ReleasedGroups, Proved!ReleasedGroups,
         Turns!ActivateThreadsError, Proved!ActivateThreadsError, Turns!ActivationOrders,
         Proved!ActivationOrders, Turns!Erase, Proved!Erase, Turns!PushBack, Proved!PushBack,
         Turns!DeadLock, Proved!DeadLock, Turns!Blocked, Proved!Blocked, Turns!Range,
         Proved!Range, Turns!Cardinality, Proved!Cardinality, Turns!NoFailure,
         Proved!NoFailure, Turns!Fail, Proved!Fail, Turns!strategyVars, Proved!strategyVars

(* Passing on the turn is the same step in the instance the theorems are   *)
(* taken from.                                                             *)
LEMMA ProvedFinish ==
  Turns!Finish => Proved!Finish
  BY Zenon DEF Turns!Finish, Proved!Finish, Turns!EnterPhase, Proved!EnterPhase, Turns!NextThread,
         Proved!NextThread, Turns!NextThreadError, Proved!NextThreadError,
         Turns!NextThreadFrom, Proved!NextThreadFrom, Turns!Shuffles, Proved!Shuffles,
         Turns!SimpleNextThread, Proved!SimpleNextThread, Turns!Bijection, Proved!Bijection,
         Turns!Injection, Proved!Injection, Turns!Surjection, Proved!Surjection,
         Turns!IsInjective, Proved!IsInjective, Turns!lockVars, Proved!lockVars,
         Turns!NoFailure, Proved!NoFailure, Turns!Fail, Proved!Fail, Turns!strategyVars,
         Proved!strategyVars

(* Keeping the turn is the same step in the instance the theorems are      *)
(* taken from.                                                             *)
LEMMA ProvedFinishNoAdvance ==
  Turns!FinishNoAdvance => Proved!FinishNoAdvance
  BY DEF Turns!FinishNoAdvance, Proved!FinishNoAdvance, Turns!schedulerVars,
         Proved!schedulerVars, Turns!strategyVars, Proved!strategyVars

(* The end of a thread is the same step in the instance the theorems are   *)
(* taken from.                                                             *)
LEMMA ProvedReportThreadDone ==
  ASSUME NEW t PROVE Turns!ReportThreadDone(t) => Proved!ReportThreadDone(t)
  BY Zenon DEF Turns!ReportThreadDone, Proved!ReportThreadDone, Turns!EnterPhase, Proved!EnterPhase,
         Turns!RemoveThreadId, Proved!RemoveThreadId, Turns!GetParticipatingBarriers,
         Proved!GetParticipatingBarriers, Turns!Decrement, Proved!Decrement,
         Turns!NextThreadFrom, Proved!NextThreadFrom, Turns!AddReachedThread,
         Proved!AddReachedThread, Turns!AddReachedThreadError, Proved!AddReachedThreadError,
         Turns!ReleasedGroups, Proved!ReleasedGroups, Turns!ActivateThreadsError,
         Proved!ActivateThreadsError, Turns!ActivationOrders, Proved!ActivationOrders,
         Turns!Erase, Proved!Erase, Turns!PushBack, Proved!PushBack, Turns!DeadLock,
         Proved!DeadLock, Turns!Blocked, Proved!Blocked, Turns!Range, Proved!Range,
         Turns!Cardinality, Proved!Cardinality, Turns!Shuffles, Proved!Shuffles,
         Turns!SimpleNextThread, Proved!SimpleNextThread, Turns!Bijection, Proved!Bijection,
         Turns!Injection, Proved!Injection, Turns!Surjection, Proved!Surjection,
         Turns!IsInjective, Proved!IsInjective, Turns!lockVars, Proved!lockVars,
         Turns!NoFailure, Proved!NoFailure, Turns!Fail, Proved!Fail, Turns!strategyVars,
         Proved!strategyVars

(* The end of a test is the same step in the instance the theorems are     *)
(* taken from.                                                             *)
LEMMA ProvedEnd ==
  (Turns!Stop => Proved!Stop) /\ (Turns!Destroy => Proved!Destroy)
  BY DEF Turns!Stop, Proved!Stop, Turns!Destroy, Proved!Destroy, Turns!StopError,
         Proved!StopError, Turns!DestroyError, Proved!DestroyError, Turns!EnterPhase,
         Proved!EnterPhase, Turns!NoFailure, Proved!NoFailure, Turns!strategyVars,
         Proved!strategyVars

(* The dispatcher's turns are the turns of that module.                    *)
LEMMA TurnsAreProved == DSpec => Proved!Spec
  <1>1. Turns!Init => Proved!Init
    BY DEF Turns!Init, Proved!Init, Turns!SchedulerInit, Proved!SchedulerInit,
           Turns!StrategyInit, Proved!StrategyInit, Turns!NoFailure, Proved!NoFailure
  <1>2. UNCHANGED Turns!vars => UNCHANGED Proved!vars
    BY DEF Turns!vars, Proved!vars, Turns!schedulerVars, Proved!schedulerVars,
           Turns!strategyVars, Proved!strategyVars
  <1>3. Turns!Ended => Proved!Ended
    BY <1>2 DEF Turns!Ended, Proved!Ended
  <1>4. Turns!Next => Proved!Next
    <2> SUFFICES ASSUME Turns!Next PROVE Proved!Next
      OBVIOUS
    <2>1. CASE Turns!Start \/ Turns!Finish \/ Turns!FinishNoAdvance
      BY <2>1, ProvedStart, ProvedFinish, ProvedFinishNoAdvance DEF Proved!Next
    <2>2. CASE Turns!Stop \/ Turns!Destroy \/ Turns!Ended
      BY <2>2, <1>3, ProvedEnd DEF Proved!Next
    <2>3. ASSUME NEW t \in Threads,
                 \/ Turns!Setup(t) \/ Turns!Request(t) \/ Turns!Lock(t) \/ Turns!Unlock(t)
                 \/ \E S \in SyncSets : Turns!Synchronize(t, S)
                 \/ Turns!ReportThreadDone(t)
          PROVE  Proved!Next
      BY <2>3, ProvedSetup, ProvedRequest, ProvedLock, ProvedUnlock, ProvedSynchronize,
         ProvedReportThreadDone DEF Proved!Next
    <2> QED
      BY <2>1, <2>2, <2>3 DEF Turns!Next
  <1> QED
    BY <1>1, <1>2, <1>4, DispatcherTakesTurns, PTL DEF TakesTurns, Turns!Spec, Proved!Spec

(* However threads and locks interleave, no check of the scheduler, of its *)
(* barriers or of the dispatcher that only an inconsistent state can fail  *)
(* ever fails.                                                             *)
THEOREM ThreadsNeverFailChecks == DSpec => []Proved!NoInternalFailure
  BY ProvedAssumptions, Proved!ChecksNeverFail, TurnsAreProved, PTL

(* The checks of ThreadDispatcher.cc never fail: a thread is known when it *)
(* makes a request, reports its end outside all requests, and the schedule *)
(* is empty when Stop is called.                                           *)
THEOREM DispatchFailsNever == DSpec => []DispatchNeverFails
  <1>1. Proved!NoInternalFailure => DispatchNeverFails
    BY DEF Proved!NoInternalFailure, Proved!InternalFailures, DispatchNeverFails
  <1> QED
    BY <1>1, ThreadsNeverFailChecks, PTL

(* What RequestTurns promises about barriers and locked schedules, threads *)
(* and locks keep: the threads of a barrier are released together, and no  *)
(* other thread's request comes into a locked schedule.                    *)
THEOREM ThreadsKeepPromises == DSpec => Proved!ReleasedTogether /\ Proved!LockedScheduleStays
  BY ProvedAssumptions, Proved!BarriersReleaseTogether, Proved!LockedScheduleKept,
     TurnsAreProved, PTL
=============================================================================

--------------------------- MODULE MasterRunProofs ---------------------------
(***************************************************************************)
(* The safety properties of MasterRun hold for any number of tasks and     *)
(* workers and any limit of fails.                                         *)
(***************************************************************************)
EXTENDS MasterRun, FiniteSetTheorems, TLAPS

ResultType == [task : Tasks, outcome : AllOutcomes]

TypeOK ==
    /\ mMode \in {"regress", "count"}
    /\ mpc \in {"load", "release", "releaseError", "waitWorkers", "waitSummary", "done"}
    /\ next \in 1 .. NumTasks + 1
    /\ mpc \in {"release", "releaseError"} => next \in Tasks
    /\ logged \subseteq Tasks
    /\ processQueue \in Seq(Tasks) /\ processAval \in Nat
    /\ ppc \in {"loop", "count", "size", "terminated", "dequeue", "pop", "acquire", "start",
                "drain", "signal", "done"}
    /\ item \in Nat
    /\ ppc \in {"acquire", "start"} => item \in Tasks
    /\ thread_count \in Int
    /\ wpc \in [Tasks -> {"none", "run", "release", "count", "done", "ended"}]
    /\ summaryQueue \in Seq(ResultType) /\ summaryAval \in Nat
    /\ spc \in {"dequeue", "pop", "timeout", "signal", "done"}
    /\ tasks \subseteq ResultType /\ errors \subseteq ResultType

(* 1 if a condition holds.                                                 *)
Bit(b) == IF b THEN 1 ELSE 0

Releasing == {t \in Tasks : wpc[t] = "release"}
AtWork == {t \in Tasks : Running(t)}

(* A semaphore counts the items of its list but for those of a producer    *)
(* that has yet to release it and of the consumer that is past it.         *)
SemaphoresExact ==
    /\ Len(processQueue) = processAval + Bit(ppc = "pop") + Bit(mpc = "release")
    /\ Len(summaryQueue) =
         summaryAval + Bit(spc = "pop") + Bit(mpc = "releaseError") + Cardinality(Releasing)

(* The count of threads counts the workers that have not counted           *)
(* themselves down, and the one that is not or could not be started.       *)
CountExact == thread_count = Cardinality(AtWork) + Bit(ppc = "start") + Bit(start_raised)

(* What the process thread has read stays true while it reads on.          *)
LoopInv ==
    /\ fully_loaded <=> mpc \in {"waitWorkers", "waitSummary", "done"}
    /\ fully_loaded => terminated \/ next \notin Tasks
    /\ ppc \in {"count", "size"} => fully_loaded
    /\ start_raised => ppc \in {"signal", "done"}
    /\ ppc \in {"drain", "signal", "done"} /\ ~start_raised =>
          terminated \/ (fully_loaded /\ processQueue = <<>>)
    /\ ppc \in {"signal", "done"} /\ ~start_raised => \A t \in Tasks : ~Running(t)
    /\ workers_done_event => ppc = "done"

Committed == tasks \cup errors
Results == Range(summaryQueue) \cup Committed
HasResult(t) == \E r \in Results : r.task = t

(* The places of a task exclude each other: it is queued once and has one  *)
(* result, in the queue or in the summary;                                 *)
Distinct(s) == \A i, j \in 1 .. Len(s) : s[i] = s[j] => i = j

QueuesDistinct == Distinct(processQueue) /\ Distinct(summaryQueue)

ResultsApart ==
    /\ Range(summaryQueue) \cap Committed = {}
    /\ \A r, s \in Results : r.task = s.task => r = s

LoggedBehind == \A t \in logged : t < next

(* a queued task is not run and a task with a result is not running;       *)
QueuedWaits == \A t \in Range(processQueue) : t \in Loaded /\ wpc[t] = "none" /\ ~HasResult(t)

ResultsLoaded == \A r \in Results : r.task \in Loaded /\ wpc[r.task] # "run"

(* a task that is nowhere else is the one the process thread holds.        *)
TasksPlaced ==
    \A t \in Tasks :
        /\ wpc[t] # "none" => t \in Loaded
        /\ wpc[t] \in {"release", "count", "done", "ended"} => HasResult(t)
        /\ t \in Loaded /\ mMode # "count" /\ wpc[t] = "none"
              /\ t \notin Range(processQueue) /\ ~HasResult(t)
             => item = t /\ ppc \in {"acquire", "start", "signal", "done"}

ItemHeld ==
    ppc \in {"acquire", "start"} =>
        /\ item \in Loaded /\ wpc[item] = "none"
        /\ item \notin Range(processQueue) /\ ~HasResult(item)

PlacesInv ==
    /\ QueuesDistinct /\ ResultsApart /\ LoggedBehind /\ QueuedWaits
    /\ ResultsLoaded /\ TasksPlaced /\ ItemHeld

IInv == TypeOK /\ SemaphoresExact /\ CountExact /\ LoopInv /\ PlacesInv

(* Every step is one of the actions, or changes nothing.                   *)
LEMMA StepCases ==
  ASSUME [Next]_vars
  PROVE  \/ UNCHANGED vars
         \/ /\ UNCHANGED mMode
            /\ \/ LoadTask \/ ReleaseTask \/ LoadError \/ ReleaseError \/ LogError
               \/ FullyLoaded \/ MainWaits
               \/ TestLoop \/ Dequeue \/ PopTask \/ AcquireWorker \/ StartWorker
               \/ Drain \/ SignalWorkersDone
               \/ SummaryDequeue \/ SummaryTimeout \/ Commit \/ SignalSummaryDone
               \/ \E t \in Tasks :
                     RunTask(t) \/ ReleaseResult(t) \/ DecrementCount(t) \/ ReleaseWorker(t)
  BY Zenon DEF Next, MainThread, ProcessThread, Worker, SummaryThread, Ended

(* The list t is s without its entry e, or s with e added to it.           *)
Taken(s, t, e) == e \in Range(s) /\ Range(t) = Range(s) \ {e} /\ Distinct(t)
Added(s, t, e) == Range(t) = Range(s) \cup {e} /\ Distinct(t)

(* The first element of a list is one of its elements; what follows it is  *)
(* the list without it.                                                    *)
LEMMA PopFront ==
  ASSUME NEW S, NEW s \in Seq(S), s # <<>>, Distinct(s)
  PROVE  Taken(s, Tail(s), Head(s))
  <1>1. /\ Head(s) \in S /\ Head(s) = s[1]
        /\ Tail(s) \in Seq(S) /\ Len(Tail(s)) = Len(s) - 1 /\ Len(s) \in Nat \ {0}
        /\ \A i \in 1 .. Len(Tail(s)) : Tail(s)[i] = s[i + 1]
    OBVIOUS
  <1>2. DOMAIN s = 1 .. Len(s) /\ DOMAIN Tail(s) = 1 .. Len(Tail(s))
    BY <1>1
  <1> DEFINE t == Tail(s)
  <1>3. t = Tail(s)
    BY Zenon
  <1> HIDE DEF t
  <1>4. Range(s) = {s[i] : i \in 1 .. Len(s)} /\ Range(t) = {t[i] : i \in 1 .. Len(t)}
    BY <1>2, <1>3, Zenon DEF Range
  <1>D. \A i, j \in 1 .. Len(s) : s[i] = s[j] => i = j
    BY Zenon DEF Distinct
  <1>5. ASSUME NEW x \in Range(t) PROVE x \in Range(s) /\ x # s[1]
    <2>1. PICK i \in 1 .. Len(t) : x = t[i]
      BY <1>4, Zenon
    <2>2. i + 1 \in 1 .. Len(s) /\ x = s[i + 1] /\ 1 \in 1 .. Len(s) /\ i + 1 # 1
      BY <2>1, <1>1, <1>3
    <2> QED
      BY <2>2, <1>4, <1>D, Zenon
  <1>6. ASSUME NEW x \in Range(s), x # s[1] PROVE x \in Range(t)
    <2>1. PICK i \in 1 .. Len(s) : x = s[i]
      BY <1>4, Zenon
    <2>2. i # 1 /\ i - 1 \in 1 .. Len(t) /\ t[i - 1] = s[i]
      BY <2>1, <1>1, <1>3, <1>6
    <2> QED
      BY <2>1, <2>2, <1>4, Zenon
  <1>7. Distinct(t)
    <2> SUFFICES ASSUME NEW i \in 1 .. Len(t), NEW j \in 1 .. Len(t), t[i] = t[j] PROVE i = j
      BY Zenon DEF Distinct
    <2>1. i + 1 \in 1 .. Len(s) /\ j + 1 \in 1 .. Len(s) /\ s[i + 1] = s[j + 1]
      BY <1>1, <1>3
    <2>2. i + 1 = j + 1
      BY <2>1, <1>D, Zenon
    <2> QED
      BY <2>2
  <1>8. s[1] \in Range(s)
    BY <1>1, <1>4
  <1>9. Range(t) = Range(s) \ {s[1]}
    BY <1>5, <1>6, Zenon
  <1> QED
    BY <1>1, <1>3, <1>7, <1>8, <1>9, Zenon DEF Taken

(* An element that is not in a list is added at its end.                   *)
LEMMA PushBack ==
  ASSUME NEW S, NEW s \in Seq(S), NEW e \in S
  PROVE  /\ Append(s, e) \in Seq(S) /\ Len(Append(s, e)) = Len(s) + 1
         /\ e \notin Range(s) /\ Distinct(s) => Added(s, Append(s, e), e)
  <1>1. /\ Append(s, e) \in Seq(S) /\ Len(Append(s, e)) = Len(s) + 1 /\ Len(s) \in Nat
        /\ \A i \in 1 .. Len(s) : Append(s, e)[i] = s[i]
        /\ Append(s, e)[Len(s) + 1] = e
    OBVIOUS
  <1>2. DOMAIN s = 1 .. Len(s) /\ DOMAIN Append(s, e) = 1 .. Len(s) + 1
    BY <1>1
  <1> DEFINE t == Append(s, e)
             n == Len(s)
  <1>3. t = Append(s, e) /\ n = Len(s)
    BY Zenon
  <1> HIDE DEF t, n
  <1>4. /\ n \in Nat /\ Len(t) = n + 1
        /\ \A i \in 1 .. n : t[i] = s[i]
        /\ t[n + 1] = e
        /\ Range(s) = {s[i] : i \in 1 .. n}
        /\ Range(t) = {t[i] : i \in 1 .. n + 1}
    BY <1>1, <1>2, <1>3, Zenon DEF Range
  <1>5. Range(t) = Range(s) \cup {e}
    <2>1. \A i \in 1 .. n + 1 : i \in 1 .. n \/ i = n + 1
      BY <1>4
    <2>2. \A i \in 1 .. n : i \in 1 .. n + 1
      BY <1>4
    <2>3. n + 1 \in 1 .. n + 1
      BY <1>4
    <2> QED
      BY <2>1, <2>2, <2>3, <1>4, Zenon
  <1>6. ASSUME e \notin Range(s), Distinct(s) PROVE Distinct(t)
    <2> SUFFICES ASSUME NEW i \in 1 .. n + 1, NEW j \in 1 .. n + 1, t[i] = t[j] PROVE i = j
      BY <1>4, Zenon DEF Distinct
    <2>1. \A k, l \in 1 .. n : s[k] = s[l] => k = l
      BY <1>3, <1>6, Zenon DEF Distinct
    <2> QED
      BY <1>4, <1>6, <2>1
  <1> QED
    BY <1>1, <1>3, <1>5, <1>6, Zenon DEF Added

-----------------------------------------------------------------------------
(* The runner's first state has the types.                                 *)
LEMMA TypeInit == Init => TypeOK
  BY ConstantsAssumption DEF Init, TypeOK, Tasks

(* Every step of the runner's threads keeps the types.                     *)
LEMMA TypeNext ==
  ASSUME TypeOK, [Next]_vars
  PROVE  TypeOK'
  <1> USE ConstantsAssumption DEF TypeOK, Tasks
  <1>1. CASE UNCHANGED vars
    BY <1>1 DEF vars, loadVars, processVars, summaryVars
  <1>2. ASSUME UNCHANGED mMode, LoadTask PROVE TypeOK'
    <2>1. processQueue' \in Seq(Tasks)
      BY <1>2, PushBack, Zenon DEF LoadTask
    <2> QED
      BY <1>2, <2>1, Zenon DEF LoadTask, processVars, summaryVars
  <1>3. ASSUME UNCHANGED mMode, ReleaseTask \/ ReleaseError \/ LogError PROVE TypeOK'
    <2>1. CASE ReleaseTask
      BY <1>3, <2>1 DEF ReleaseTask, processVars, summaryVars
    <2>2. CASE ReleaseError
      BY <1>3, <2>2 DEF ReleaseError, processVars, summaryVars
    <2>3. CASE LogError
      BY <1>3, <2>3 DEF LogError, processVars, summaryVars
    <2> QED
      BY <1>3, <2>1, <2>2, <2>3, Zenon
  <1>4. ASSUME UNCHANGED mMode, LoadError PROVE TypeOK'
    <2>1. Result(next, "error") \in ResultType
      BY <1>4, Zenon DEF LoadError, Result, ResultType, AllOutcomes
    <2>2. summaryQueue' \in Seq(ResultType)
      BY <1>4, <2>1, PushBack, Zenon DEF LoadError
    <2> QED
      BY <1>4, <2>2, Zenon DEF LoadError, processVars, summaryVars
  <1>5. ASSUME UNCHANGED mMode, FullyLoaded \/ MainWaits PROVE TypeOK'
    <2>1. CASE FullyLoaded
      BY <1>5, <2>1 DEF FullyLoaded, processVars, summaryVars
    <2>2. CASE MainWaits
      BY <1>5, <2>2, Zenon DEF MainWaits, processVars, summaryVars
    <2> QED
      BY <1>5, <2>1, <2>2, Zenon
  <1>6. ASSUME UNCHANGED mMode, TestLoop PROVE TypeOK'
    BY <1>6 DEF TestLoop, othersOfProcess, loadVars, summaryVars
  <1>7. ASSUME UNCHANGED mMode, Dequeue \/ AcquireWorker PROVE TypeOK'
    <2>1. CASE Dequeue
      BY <1>7, <2>1 DEF Dequeue, othersOfProcess, loadVars, summaryVars
    <2>2. CASE AcquireWorker
      BY <1>7, <2>2 DEF AcquireWorker, othersOfProcess, loadVars, summaryVars
    <2> QED
      BY <1>7, <2>1, <2>2
  <1>8. ASSUME UNCHANGED mMode, PopTask PROVE TypeOK'
    <2>1. Head(processQueue) \in Tasks /\ Tail(processQueue) \in Seq(Tasks)
      BY <1>8 DEF PopTask
    <2> QED
      BY <1>8, <2>1 DEF PopTask, othersOfProcess, loadVars, summaryVars
  <1>9. ASSUME UNCHANGED mMode, StartWorker PROVE TypeOK'
    BY <1>9, Zenon DEF StartWorker, othersOfProcess, loadVars, summaryVars
  <1>10. ASSUME UNCHANGED mMode, Drain \/ SignalWorkersDone PROVE TypeOK'
    BY <1>10, Zenon DEF Drain, SignalWorkersDone, othersOfProcess, loadVars, summaryVars
  <1>11. ASSUME UNCHANGED mMode, NEW t \in Tasks, RunTask(t) PROVE TypeOK'
    <2>1. PICK outcome \in Outcomes : summaryQueue' = Append(summaryQueue, Result(t, outcome))
      BY <1>11, Zenon DEF RunTask
    <2>2. Result(t, outcome) \in ResultType
      BY <1>11, <2>1, Zenon DEF Result, ResultType
    <2>3. summaryQueue' \in Seq(ResultType)
      BY <2>1, <2>2, PushBack, Zenon
    <2> QED
      BY <1>11, <2>3 DEF RunTask, othersOfWorker, loadVars, summaryVars
  <1>12. ASSUME UNCHANGED mMode, NEW t \in Tasks,
                ReleaseResult(t) \/ DecrementCount(t) \/ ReleaseWorker(t)
         PROVE  TypeOK'
    <2>1. CASE ReleaseResult(t)
      BY <1>12, <2>1 DEF ReleaseResult, othersOfWorker, loadVars, summaryVars
    <2>2. CASE DecrementCount(t)
      BY <1>12, <2>2 DEF DecrementCount, othersOfWorker, loadVars, summaryVars
    <2>3. CASE ReleaseWorker(t)
      BY <1>12, <2>3 DEF ReleaseWorker, othersOfWorker, loadVars, summaryVars
    <2> QED
      BY <1>12, <2>1, <2>2, <2>3, Zenon
  <1>13. ASSUME UNCHANGED mMode, SummaryDequeue \/ SummaryTimeout \/ SignalSummaryDone
         PROVE  TypeOK'
    <2>1. CASE SummaryDequeue
      BY <1>13, <2>1 DEF SummaryDequeue, othersOfSummary, loadVars, processVars
    <2>2. CASE SummaryTimeout
      BY <1>13, <2>2, Zenon DEF SummaryTimeout, othersOfSummary, loadVars, processVars
    <2>3. CASE SignalSummaryDone
      BY <1>13, <2>3, Zenon DEF SignalSummaryDone, othersOfSummary, loadVars, processVars
    <2> QED
      BY <1>13, <2>1, <2>2, <2>3
  <1>14. ASSUME UNCHANGED mMode, Commit PROVE TypeOK'
    <2>1. Head(summaryQueue) \in ResultType /\ Tail(summaryQueue) \in Seq(ResultType)
      BY <1>14 DEF Commit
    <2>3. tasks' \subseteq ResultType /\ errors' \subseteq ResultType
          /\ summaryQueue' = Tail(summaryQueue) /\ spc' \in {"dequeue", "signal"}
      BY <1>14, <2>1, Zenon DEF Commit
    <2>4. UNCHANGED <<othersOfSummary, summaryAval>>
      BY <1>14, Zenon DEF Commit
    <2> QED
      BY <1>14, <2>1, <2>3, <2>4 DEF othersOfSummary, loadVars, processVars
  <1> QED
    BY StepCases, <1>1, <1>2, <1>3, <1>4, <1>5, <1>6, <1>7, <1>8, <1>9, <1>10, <1>11, <1>12,
       <1>13, <1>14

-----------------------------------------------------------------------------
(* Sets of workers can be counted (ProcessQueue.thread_count counts them). *)
LEMMA WorkersFinite ==
  \A S \in SUBSET Tasks : IsFiniteSet(S) /\ Cardinality(S) \in Nat
  <1>1. IsFiniteSet(Tasks)
    BY ConstantsAssumption, FS_Interval DEF Tasks
  <1> QED
    BY <1>1, FS_Subset, FS_CardinalityType, Zenon

(* One more and one less in a set of workers.                              *)
LEMMA OneMoreWorker ==
  ASSUME NEW S \in SUBSET Tasks, NEW t \in Tasks \ S
  PROVE  Cardinality(S \cup {t}) = Cardinality(S) + 1
  BY WorkersFinite, FS_AddElement, Zenon

(* A worker that ends gives back its place (process_queue.py).             *)
LEMMA OneWorkerLess ==
  ASSUME NEW S \in SUBSET Tasks, NEW t \in S
  PROVE  Cardinality(S \ {t}) = Cardinality(S) - 1
  BY WorkersFinite, FS_RemoveElement, Zenon

(* Both queues are empty at first, and so are their semaphores.            *)
LEMMA SemaphoresInit == Init => SemaphoresExact
  <1> SUFFICES ASSUME Init PROVE SemaphoresExact
    BY Zenon
  <1>1. Releasing = {}
    BY Zenon DEF Init, Releasing
  <1>2. Cardinality(Releasing) = 0
    BY <1>1, FS_EmptySet, Zenon
  <1> QED
    BY <1>2 DEF Init, SemaphoresExact, Bit

(* The list and the semaphore of each HiThreadedProducerConsumerQueue: the *)
(* semaphore is behind its list by the items being put and the dequeues    *)
(* that have passed it.                                                    *)
LEMMA SemaphoresNext ==
  ASSUME TypeOK, PlacesInv, SemaphoresExact, [Next]_vars
  PROVE  SemaphoresExact'
  <1> DEFINE n == Cardinality(Releasing)
             p == Len(processQueue)
             q == Len(summaryQueue)
  <1>1. n \in Nat /\ p \in Nat /\ q \in Nat /\ processAval \in Nat /\ summaryAval \in Nat
    BY WorkersFinite DEF Releasing, TypeOK
  <1>2. p = processAval + Bit(ppc = "pop") + Bit(mpc = "release")
    BY Zenon DEF SemaphoresExact
  <1>3. q = summaryAval + Bit(spc = "pop") + Bit(mpc = "releaseError") + n
    BY Zenon DEF SemaphoresExact
  <1>4. SUFFICES /\ p' = processAval' + Bit(ppc' = "pop") + Bit(mpc' = "release")
                 /\ q' = summaryAval' + Bit(spc' = "pop") + Bit(mpc' = "releaseError") + n'
    BY Zenon DEF SemaphoresExact, Releasing, Bit
  <1>5. wpc' = wpc => n' = n
    BY Zenon DEF Releasing
  <1>6. processQueue' = processQueue => p' = p
    BY Zenon
  <1>7. summaryQueue' = summaryQueue => q' = q
    OBVIOUS
  <1>8. \A S : \A s \in Seq(S) : \A e \in S : Len(Append(s, e)) = Len(s) + 1
    BY PushBack, Zenon
  <1>9. \A S : \A s \in Seq(S) : s # <<>> => Len(Tail(s)) = Len(s) - 1
    OBVIOUS
  <1> HIDE DEF n, p, q
  <1>10. CASE UNCHANGED vars
    BY <1>2, <1>3, <1>5, <1>6, <1>7, <1>10, Zenon DEF vars, loadVars, processVars, summaryVars, Bit
  <1>11. CASE LoadTask
    <2>1. p' = p + 1
      BY <1>11, <1>8, Zenon DEF LoadTask, TypeOK, p
    <2> QED
      BY <1>1, <1>2, <1>3, <1>5, <1>7, <1>11, <2>1 DEF LoadTask, processVars, summaryVars, Bit
  <1>12. CASE ReleaseTask
    BY <1>1, <1>2, <1>3, <1>5, <1>6, <1>7, <1>12 DEF ReleaseTask, processVars, summaryVars, Bit
  <1>13. CASE LoadError
    <2>1. q' = q + 1
      <3>1. Result(next, "error") \in ResultType
        BY <1>13, Zenon DEF LoadError, Result, ResultType, AllOutcomes
      <3> QED
        BY <1>13, <3>1, <1>8, Zenon DEF LoadError, TypeOK, q
    <2> QED
      BY <1>1, <1>2, <1>3, <1>5, <1>6, <1>13, <2>1 DEF LoadError, processVars, summaryVars, Bit
  <1>14. CASE ReleaseError
    BY <1>1, <1>2, <1>3, <1>5, <1>6, <1>7, <1>14 DEF ReleaseError, processVars, summaryVars, Bit
  <1>15. CASE LogError \/ FullyLoaded \/ MainWaits
    BY <1>2, <1>3, <1>5, <1>6, <1>7, <1>15, Zenon
       DEF LogError, FullyLoaded, MainWaits, processVars, summaryVars, Bit
  <1>16. CASE TestLoop \/ AcquireWorker \/ Drain \/ SignalWorkersDone
    BY <1>2, <1>3, <1>5, <1>6, <1>7, <1>16, Zenon
       DEF TestLoop, AcquireWorker, Drain, SignalWorkersDone, othersOfProcess, loadVars, summaryVars,
           Bit
  <1>17. CASE Dequeue
    BY <1>1, <1>2, <1>3, <1>5, <1>6, <1>7, <1>17
       DEF Dequeue, othersOfProcess, loadVars, summaryVars, Bit
  <1>18. CASE PopTask
    <2>1. p' = p - 1
      BY <1>18, <1>9, Zenon DEF PopTask, TypeOK, p
    <2> QED
      BY <1>1, <1>2, <1>3, <1>5, <1>7, <1>18, <2>1
         DEF PopTask, othersOfProcess, loadVars, summaryVars, Bit
  <1>19. CASE StartWorker
    <2>1. n' = n
      <3>1. CASE UNCHANGED wpc
        BY <3>1, <1>5, Zenon
      <3>2. CASE wpc' = [wpc EXCEPT ![item] = "run"]
        <4>1. item \in Tasks /\ wpc[item] = "none"
          BY <1>19, Zenon DEF StartWorker, TypeOK, PlacesInv, ItemHeld
        <4>2. Releasing' = Releasing
          BY <3>2, <4>1, Zenon DEF Releasing, TypeOK
        <4> QED
          BY <4>2, Zenon DEF n
      <3> QED
        BY <1>19, <3>1, <3>2, Zenon DEF StartWorker
    <2> QED
      BY <1>1, <1>2, <1>3, <1>6, <1>7, <1>19, <2>1
         DEF StartWorker, othersOfProcess, loadVars, summaryVars, Bit
  <1>20. ASSUME NEW t \in Tasks, RunTask(t)
         PROVE  q' = q + 1 /\ n' = n + 1
    <2>1. PICK outcome \in Outcomes : summaryQueue' = Append(summaryQueue, Result(t, outcome))
      BY <1>20, Zenon DEF RunTask
    <2>2. Result(t, outcome) \in ResultType
      BY <1>20, <2>1, ConstantsAssumption, Zenon DEF Result, ResultType
    <2>3. q' = q + 1
      BY <2>1, <2>2, <1>8, Zenon DEF TypeOK, q
    <2>4. Releasing' = Releasing \cup {t} /\ t \notin Releasing /\ Releasing \in SUBSET Tasks
      BY <1>20, Zenon DEF RunTask, Releasing, TypeOK
    <2> QED
      BY <1>20, <2>3, <2>4, OneMoreWorker, Zenon DEF n
  <1>21. CASE \E t \in Tasks : RunTask(t)
    <2>1. PICK t \in Tasks : RunTask(t)
      BY <1>21, Zenon
    <2>2. q' = q + 1 /\ n' = n + 1
      BY <2>1, <1>20, Zenon
    <2> QED
      BY <1>1, <1>2, <1>3, <1>6, <2>1, <2>2
         DEF RunTask, othersOfWorker, loadVars, summaryVars, Bit
  <1>22. ASSUME NEW t \in Tasks, ReleaseResult(t)
         PROVE  n' = n - 1
    <2>1. Releasing' = Releasing \ {t} /\ t \in Releasing /\ Releasing \in SUBSET Tasks
      BY <1>22, Zenon DEF ReleaseResult, Releasing, TypeOK
    <2> QED
      BY <2>1, OneWorkerLess, Zenon DEF n
  <1>23. CASE \E t \in Tasks : ReleaseResult(t)
    <2>1. PICK t \in Tasks : ReleaseResult(t)
      BY <1>23
    <2>2. n' = n - 1
      BY <2>1, <1>22, Zenon
    <2> QED
      BY <1>1, <1>2, <1>3, <1>6, <1>7, <2>1, <2>2
         DEF ReleaseResult, othersOfWorker, loadVars, summaryVars, Bit
  <1>24. ASSUME NEW t \in Tasks, DecrementCount(t) \/ ReleaseWorker(t)
         PROVE  n' = n
    <2>1. Releasing' = Releasing
      BY <1>24, Zenon DEF DecrementCount, ReleaseWorker, Releasing, TypeOK
    <2> QED
      BY <2>1, Zenon DEF n
  <1>25. CASE \E t \in Tasks : DecrementCount(t) \/ ReleaseWorker(t)
    <2>1. PICK t \in Tasks : DecrementCount(t) \/ ReleaseWorker(t)
      BY <1>25, Zenon
    <2>2. n' = n
      BY <2>1, <1>24, Zenon
    <2> QED
      BY <1>2, <1>3, <1>6, <1>7, <2>1, <2>2
         DEF DecrementCount, ReleaseWorker, othersOfWorker, loadVars, summaryVars, Bit
  <1>26. CASE SummaryDequeue \/ SummaryTimeout \/ SignalSummaryDone
    BY <1>1, <1>2, <1>3, <1>5, <1>6, <1>7, <1>26
       DEF SummaryDequeue, SummaryTimeout, SignalSummaryDone, othersOfSummary, loadVars,
           processVars, Bit
  <1>27. CASE Commit
    <2>1. q' = q - 1
      BY <1>27, <1>9, Zenon DEF Commit, TypeOK, q
    <2>2. spc = "pop" /\ spc' # "pop" /\ UNCHANGED <<othersOfSummary, summaryAval>>
      BY <1>27, Zenon DEF Commit
    <2> QED
      BY <1>1, <1>2, <1>3, <1>5, <1>6, <2>1, <2>2 DEF othersOfSummary, loadVars, processVars, Bit
  <1> QED
    BY StepCases, <1>10, <1>11, <1>12, <1>13, <1>14, <1>15, <1>16, <1>17, <1>18, <1>19, <1>21,
       <1>23, <1>25, <1>26, <1>27

-----------------------------------------------------------------------------
(* No worker runs at first, and thread_count is zero.                      *)
LEMMA CountInit == Init => CountExact
  <1> SUFFICES ASSUME Init PROVE CountExact
    BY Zenon
  <1>1. AtWork = {}
    BY Zenon DEF Init, AtWork, Running
  <1>2. Cardinality(AtWork) = 0
    BY <1>1, FS_EmptySet, Zenon
  <1> QED
    BY <1>2 DEF Init, CountExact, Bit

(* ProcessQueue.thread_count counts the workers that run and the one that  *)
(* is being started.                                                       *)
LEMMA CountNext ==
  ASSUME TypeOK, LoopInv, PlacesInv, CountExact, [Next]_vars
  PROVE  CountExact'
  <1> DEFINE n == Cardinality(AtWork)
  <1>1. n \in Nat /\ AtWork \in SUBSET Tasks
    BY WorkersFinite, Zenon DEF AtWork
  <1>2. thread_count = n + Bit(ppc = "start") + Bit(start_raised)
    BY Zenon DEF CountExact
  <1>3. SUFFICES thread_count' = n' + Bit(ppc' = "start") + Bit(start_raised')
    BY Zenon DEF CountExact, AtWork, Running, Bit
  <1>4. wpc' = wpc => n' = n
    BY Zenon DEF AtWork, Running
  <1> HIDE DEF n
  <1>5. CASE UNCHANGED vars
    BY <1>2, <1>4, <1>5, Zenon DEF vars, loadVars, processVars, summaryVars, Bit
  <1>6. CASE LoadTask \/ ReleaseTask \/ LoadError \/ ReleaseError \/ LogError
             \/ FullyLoaded \/ MainWaits
    <2>1. UNCHANGED <<processVars, thread_count, wpc>>
      BY <1>6, Zenon DEF LoadTask, ReleaseTask, LoadError, ReleaseError, LogError, FullyLoaded, MainWaits
    <2> QED
      BY <1>2, <1>4, <2>1, Zenon DEF processVars, Bit
  <1>7. CASE TestLoop \/ Dequeue \/ PopTask \/ Drain \/ SignalWorkersDone
    <2>1. UNCHANGED <<thread_count, wpc, start_raised>> /\ ppc # "start" /\ ppc' # "start"
      BY <1>7, Zenon DEF TestLoop, Dequeue, PopTask, Drain, SignalWorkersDone
    <2> QED
      BY <1>2, <1>4, <2>1, Zenon DEF Bit
  <1>8. CASE AcquireWorker
    BY <1>1, <1>2, <1>4, <1>8 DEF AcquireWorker, Bit
  <1>9. CASE StartWorker
    <2>1. ppc = "start" /\ ppc' # "start" /\ thread_count' = thread_count /\ ~start_raised
      BY <1>9, Zenon DEF StartWorker, LoopInv
    <2>2. CASE UNCHANGED wpc /\ start_raised'
      BY <1>1, <1>2, <1>4, <2>1, <2>2 DEF Bit
    <2>3. CASE wpc' = [wpc EXCEPT ![item] = "run"] /\ UNCHANGED start_raised
      <3>1. item \in Tasks /\ wpc[item] = "none"
        BY <2>1, Zenon DEF TypeOK, PlacesInv, ItemHeld
      <3>2. AtWork' = AtWork \cup {item} /\ item \notin AtWork
        BY <2>3, <3>1, Zenon DEF AtWork, Running, TypeOK
      <3>3. n' = n + 1
        BY <1>1, <3>1, <3>2, OneMoreWorker, Zenon DEF n
      <3> QED
        BY <1>1, <1>2, <2>1, <2>3, <3>3 DEF Bit
    <2> QED
      BY <1>9, <2>2, <2>3, Zenon DEF StartWorker
  <1>10. ASSUME NEW t \in Tasks, RunTask(t) \/ ReleaseResult(t) \/ ReleaseWorker(t)
         PROVE  thread_count' = n' + Bit(ppc' = "start") + Bit(start_raised')
    <2>1. AtWork' = AtWork
      <3>1. CASE RunTask(t)
        BY <3>1, Zenon DEF RunTask, AtWork, Running, TypeOK
      <3>2. CASE ReleaseResult(t)
        BY <3>2, Zenon DEF ReleaseResult, AtWork, Running, TypeOK
      <3>3. CASE ReleaseWorker(t)
        BY <3>3, Zenon DEF ReleaseWorker, AtWork, Running, TypeOK
      <3> QED
        BY <1>10, <3>1, <3>2, <3>3, Zenon
    <2>2. n' = n
      BY <2>1, Zenon DEF n
    <2> QED
      BY <1>2, <1>10, <2>2 DEF RunTask, ReleaseResult, ReleaseWorker, othersOfWorker, Bit
  <1>11. ASSUME NEW t \in Tasks, DecrementCount(t)
         PROVE  thread_count' = n' + Bit(ppc' = "start") + Bit(start_raised')
    <2>1. AtWork' = AtWork \ {t} /\ t \in AtWork
      BY <1>11, Zenon DEF DecrementCount, AtWork, Running, TypeOK
    <2>2. n' = n - 1
      BY <1>1, <2>1, OneWorkerLess, Zenon DEF n
    <2> QED
      BY <1>1, <1>2, <1>11, <2>2 DEF DecrementCount, othersOfWorker, Bit
  <1>12. CASE SummaryDequeue \/ SummaryTimeout \/ Commit \/ SignalSummaryDone
    <2>1. UNCHANGED othersOfSummary
      BY <1>12, Zenon DEF SummaryDequeue, SummaryTimeout, Commit, SignalSummaryDone
    <2> QED
      BY <1>2, <1>4, <2>1, Zenon DEF othersOfSummary, processVars, Bit
  <1> QED
    BY StepCases, <1>5, <1>6, <1>7, <1>8, <1>9, <1>10, <1>11, <1>12

-----------------------------------------------------------------------------
(* ProcessThread starts in its loop.                                       *)
LEMMA LoopInit == Init => LoopInv
  BY Zenon DEF Init, LoopInv, Running

(* The loop of ProcessThread leaves only when everything is loaded and     *)
(* taken.                                                                  *)
LEMMA LoopNext ==
  ASSUME TypeOK, CountExact, LoopInv, [Next]_vars
  PROVE  LoopInv'
  <1>1. CASE UNCHANGED vars
    BY <1>1, Zenon DEF vars, loadVars, processVars, summaryVars, LoopInv, Running
  <1>2. CASE LoadTask
    BY <1>2, Zenon DEF LoadTask, processVars, summaryVars, LoopInv, Running
  <1>3. CASE ReleaseTask \/ ReleaseError
    BY <1>3 DEF ReleaseTask, ReleaseError, processVars, summaryVars, LoopInv, Running
  <1>4. CASE LoadError
    BY <1>4, Zenon DEF LoadError, processVars, summaryVars, LoopInv, Running
  <1>5. CASE LogError
    BY <1>5, Zenon DEF LogError, processVars, summaryVars, LoopInv, Running
  <1>6. CASE FullyLoaded \/ MainWaits
    BY <1>6 DEF FullyLoaded, MainWaits, processVars, summaryVars, LoopInv, Running
  <1>7. CASE TestLoop
    BY <1>7, Zenon DEF TestLoop, othersOfProcess, loadVars, summaryVars, LoopInv, Running
  <1>8. CASE Dequeue
    BY <1>8, Zenon DEF Dequeue, othersOfProcess, loadVars, summaryVars, LoopInv, Running
  <1>9. CASE PopTask
    BY <1>9, Zenon DEF PopTask, othersOfProcess, loadVars, summaryVars, LoopInv, Running
  <1>10. CASE AcquireWorker
    BY <1>10, Zenon DEF AcquireWorker, othersOfProcess, loadVars, summaryVars, LoopInv, Running
  <1>11. CASE StartWorker
    BY <1>11 DEF StartWorker, othersOfProcess, loadVars, summaryVars, LoopInv, Running
  <1>12. CASE Drain
    <2>1. ~start_raised /\ thread_count = 0 /\ ppc = "drain"
      BY <1>12, Zenon DEF Drain, LoopInv
    <2>2. Cardinality(AtWork) = 0
      BY <2>1, WorkersFinite DEF CountExact, Bit, AtWork
    <2>3. AtWork = {}
      BY <2>2, WorkersFinite, FS_EmptySet, Zenon DEF AtWork
    <2>4. \A t \in Tasks : ~Running(t)
      BY <2>3, Zenon DEF AtWork
    <2> QED
      BY <1>12, <2>1, <2>4, Zenon DEF Drain, othersOfProcess, loadVars, summaryVars, LoopInv, Running
  <1>13. CASE SignalWorkersDone
    BY <1>13, Zenon DEF SignalWorkersDone, othersOfProcess, loadVars, summaryVars, LoopInv, Running
  <1>14. ASSUME NEW t \in Tasks,
                RunTask(t) \/ ReleaseResult(t) \/ DecrementCount(t) \/ ReleaseWorker(t)
         PROVE  LoopInv'
    <2>1. UNCHANGED othersOfWorker /\ wpc[t] # "none"
      BY <1>14, Zenon DEF RunTask, ReleaseResult, DecrementCount, ReleaseWorker
    <2>2. (\A u \in Tasks : ~Running(u)) => \A u \in Tasks : ~Running(u)'
      BY <1>14, Zenon DEF RunTask, ReleaseResult, DecrementCount, ReleaseWorker, Running, TypeOK
    <2> QED
      BY <2>1, <2>2, Zenon DEF othersOfWorker, loadVars, summaryVars, LoopInv
  <1>15. CASE SummaryDequeue \/ SummaryTimeout \/ SignalSummaryDone \/ Commit
    <2>1. UNCHANGED othersOfSummary
      BY <1>15, Zenon DEF SummaryDequeue, SummaryTimeout, SignalSummaryDone, Commit
    <2>2. terminated => terminated'
      <3>1. CASE SummaryDequeue \/ SummaryTimeout \/ SignalSummaryDone
        BY <3>1, Zenon DEF SummaryDequeue, SummaryTimeout, SignalSummaryDone
      <3>2. CASE Commit
        BY <3>2, Zenon DEF Commit, HandleOnFail
      <3> QED
        BY <1>15, <3>1, <3>2, Zenon
    <2> QED
      BY <2>1, <2>2, Zenon DEF othersOfSummary, loadVars, processVars, LoopInv, Running
  <1> QED
    BY StepCases, <1>1, <1>2, <1>3, <1>4, <1>5, <1>6, <1>7, <1>8, <1>9, <1>10, <1>11, <1>12,
       <1>13, <1>14, <1>15

-----------------------------------------------------------------------------
(* At first no task is loaded, queued or run.                              *)
LEMMA PlacesInit == Init => PlacesInv
  <1> SUFFICES ASSUME Init PROVE PlacesInv
    BY Zenon
  <1>1. Range(processQueue) = {} /\ Range(summaryQueue) = {} /\ Len(processQueue) = 0
        /\ Len(summaryQueue) = 0
    <2>1. DOMAIN (<<>>) = {} /\ Len(<<>>) = 0
      OBVIOUS
    <2> QED
      BY <2>1, Zenon DEF Init, Range
  <1>2. Results = {} /\ Committed = {} /\ logged = {}
    BY <1>1, Zenon DEF Init, Results, Committed
  <1>3. Loaded = {} /\ wpc = [t \in Tasks |-> "none"] /\ ppc = "loop"
    BY DEF Init, Loaded, Tasks
  <1> QED
    <2>1. QueuesDistinct
      BY <1>1 DEF QueuesDistinct, Distinct
    <2>2. ResultsApart /\ LoggedBehind /\ QueuedWaits /\ ResultsLoaded
      BY <1>1, <1>2, Zenon DEF ResultsApart, LoggedBehind, QueuedWaits, ResultsLoaded
    <2>3. TasksPlaced /\ ItemHeld
      BY <1>3, Zenon DEF TasksPlaced, ItemHeld
    <2> QED
      BY <2>1, <2>2, <2>3, Zenon DEF PlacesInv

(* What the main thread does to the set of loaded tasks.                   *)
LEMMA LoadedChanges ==
  ASSUME TypeOK, PlacesInv
  PROVE  /\ LoadTask \/ LoadError =>
               next \in Tasks /\ next \notin Loaded /\ Loaded' = Loaded \cup {next}
         /\ ReleaseTask \/ ReleaseError \/ LogError => Loaded' = Loaded
         /\ FullyLoaded \/ MainWaits => Loaded' = Loaded
         /\ UNCHANGED loadVars => Loaded' = Loaded
  <1>1. /\ next \in Nat /\ NumTasks \in Nat
        /\ \A t \in logged : t < next
        /\ mpc \in {"release", "releaseError"} => next \in Tasks
    BY ConstantsAssumption DEF TypeOK, PlacesInv, LoggedBehind
  <1>2. ASSUME LoadTask \/ LoadError
        PROVE  next \in Tasks /\ next \notin Loaded /\ Loaded' = Loaded \cup {next}
    <2>1. /\ next \in Tasks /\ next \notin logged /\ mpc = "load" /\ next' = next
          /\ logged' = logged /\ mpc' \in {"release", "releaseError"}
      BY <1>1, <1>2 DEF LoadTask, LoadError
    <2> QED
      BY <1>1, <2>1 DEF Loaded, Tasks
  <1>3. ASSUME ReleaseTask \/ ReleaseError
        PROVE  Loaded' = Loaded
    BY <1>1, <1>3 DEF ReleaseTask, ReleaseError, Loaded, Tasks
  <1>4. ASSUME LogError
        PROVE  Loaded' = Loaded
    BY <1>1, <1>4 DEF LogError, Loaded, Tasks
  <1>5. ASSUME FullyLoaded \/ MainWaits \/ UNCHANGED loadVars
        PROVE  Loaded' = Loaded
    BY <1>5, Zenon DEF FullyLoaded, MainWaits, loadVars, Loaded
  <1> QED
    BY <1>2, <1>3, <1>4, <1>5, Zenon

(* A result that is new is queued.                                         *)
LEMMA ResultQueued ==
  ASSUME TypeOK, PlacesInv, NEW r \in ResultType, ~HasResult(r.task),
         summaryQueue' = Append(summaryQueue, r), UNCHANGED <<tasks, errors>>
  PROVE  /\ Distinct(summaryQueue') /\ ResultsApart'
         /\ Results' = Results \cup {r}
         /\ \A t : HasResult(t)' <=> HasResult(t) \/ t = r.task
  <1>1. r \notin Results
    BY Zenon DEF HasResult
  <1>2. r \notin Range(summaryQueue) /\ r \notin Committed
    BY <1>1, Zenon DEF Results
  <1>3. /\ Range(summaryQueue') = Range(summaryQueue) \cup {r}
        /\ Distinct(summaryQueue')
    <2>1. summaryQueue \in Seq(ResultType) /\ Distinct(summaryQueue)
      BY Zenon DEF TypeOK, PlacesInv, QueuesDistinct
    <2>2. Added(summaryQueue, summaryQueue', r)
      BY <1>2, <2>1, PushBack, Zenon
    <2> QED
      BY <2>2, Zenon DEF Added
  <1>4. Committed' = Committed
    BY Zenon DEF Committed
  <1>5. Results' = Results \cup {r}
    BY <1>3, <1>4, Zenon DEF Results
  <1>6. (Range(summaryQueue) \cap Committed)' = {}
    BY <1>2, <1>3, <1>4, Zenon DEF PlacesInv, ResultsApart
  <1>7. \A s, u \in Results' : s.task = u.task => s = u
    BY <1>5, Zenon DEF PlacesInv, ResultsApart, HasResult
  <1>8. \A t : HasResult(t)' <=> HasResult(t) \/ t = r.task
    BY <1>5, Zenon DEF HasResult
  <1> QED
    BY <1>3, <1>5, <1>6, <1>7, <1>8, Zenon DEF ResultsApart

(* Steps that touch no result keep them.                                   *)
LEMMA SameResults ==
  ASSUME UNCHANGED <<summaryQueue, tasks, errors>>
  PROVE  /\ Results' = Results /\ Committed' = Committed
         /\ Range(summaryQueue') = Range(summaryQueue)
         /\ \A t : HasResult(t)' <=> HasResult(t)
  BY Zenon DEF Results, Committed, HasResult

(* Steps that move no task: the process thread holds on to what it holds.  *)
LEMMA PlacesKept ==
  ASSUME PlacesInv, UNCHANGED <<mMode, processQueue, summaryQueue, tasks, errors, wpc>>,
         Loaded' = Loaded, LoggedBehind',
         ppc' \in {"acquire", "start"} => ppc \in {"acquire", "start"} /\ item' = item,
         ppc \in {"acquire", "start", "signal", "done"} =>
            ppc' \in {"acquire", "start", "signal", "done"} /\ item' = item
  PROVE  PlacesInv'
  <1>1. /\ Results' = Results /\ Committed' = Committed
        /\ Range(summaryQueue') = Range(summaryQueue)
        /\ \A t : HasResult(t)' <=> HasResult(t)
    BY SameResults, Zenon
  <1>2. Range(processQueue') = Range(processQueue)
    BY Zenon
  <1>3. QueuesDistinct' /\ ResultsApart'
    BY <1>1, Zenon DEF PlacesInv, QueuesDistinct, ResultsApart
  <1>4. QueuedWaits' /\ ResultsLoaded'
    BY <1>1, <1>2, Zenon DEF PlacesInv, QueuedWaits, ResultsLoaded
  <1>5. TasksPlaced'
    BY <1>1, <1>2, Zenon DEF PlacesInv, TasksPlaced
  <1>6. ItemHeld'
    BY <1>1, <1>2, Zenon DEF PlacesInv, ItemHeld
  <1> QED
    BY <1>3, <1>4, <1>5, <1>6, Zenon DEF PlacesInv

(* A task that is loaded is queued and nowhere else.                       *)
LEMMA LoadTaskKeepsPlaces ==
  ASSUME TypeOK, PlacesInv, LoadTask, UNCHANGED mMode
  PROVE  PlacesInv'
  <1>1. next \in Tasks /\ next \notin Loaded /\ Loaded' = Loaded \cup {next}
    BY LoadedChanges, Zenon
  <1>2. UNCHANGED <<summaryQueue, tasks, errors, wpc, ppc, item, logged, next>>
    BY Zenon DEF LoadTask, processVars, summaryVars
  <1>3. /\ Results' = Results /\ Committed' = Committed
        /\ Range(summaryQueue') = Range(summaryQueue)
        /\ \A t : HasResult(t)' <=> HasResult(t)
    BY <1>2, SameResults, Zenon
  <1>4. next \notin Range(processQueue) /\ wpc[next] = "none" /\ ~HasResult(next)
    BY <1>1, Zenon DEF PlacesInv, QueuedWaits, ResultsLoaded, TasksPlaced, HasResult
  <1>5. /\ Range(processQueue') = Range(processQueue) \cup {next}
        /\ Distinct(processQueue')
    <2>1. processQueue \in Seq(Tasks) /\ processQueue' = Append(processQueue, next)
      BY Zenon DEF LoadTask, TypeOK
    <2>2. Distinct(processQueue)
      BY Zenon DEF PlacesInv, QueuesDistinct
    <2>3. Added(processQueue, processQueue', next)
      BY <1>1, <1>4, <2>1, <2>2, PushBack, Zenon
    <2> QED
      BY <2>3, Zenon DEF Added
  <1>6. QueuedWaits'
    BY <1>1, <1>2, <1>3, <1>4, <1>5, Zenon DEF PlacesInv, QueuedWaits
  <1>7. TasksPlaced'
    BY <1>1, <1>2, <1>3, <1>4, <1>5, Zenon DEF PlacesInv, TasksPlaced
  <1>8. ItemHeld'
    BY <1>1, <1>2, <1>3, <1>5, Zenon DEF PlacesInv, ItemHeld
  <1>9. ResultsLoaded'
    BY <1>1, <1>2, <1>3, Zenon DEF PlacesInv, ResultsLoaded
  <1>10. QueuesDistinct' /\ ResultsApart' /\ LoggedBehind'
    BY <1>2, <1>3, <1>5, Zenon DEF PlacesInv, QueuesDistinct, ResultsApart, LoggedBehind
  <1> QED
    BY <1>6, <1>7, <1>8, <1>9, <1>10, Zenon DEF PlacesInv

(* A task that cannot be loaded has its error as its one result.           *)
LEMMA LoadErrorKeepsPlaces ==
  ASSUME TypeOK, PlacesInv, LoadError, UNCHANGED mMode
  PROVE  PlacesInv'
  <1> DEFINE r == Result(next, "error")
  <1>1. next \in Tasks /\ next \notin Loaded /\ Loaded' = Loaded \cup {next}
    BY LoadedChanges, Zenon
  <1>2. UNCHANGED <<processQueue, tasks, errors, wpc, ppc, item, logged, next>>
    BY Zenon DEF LoadError, processVars, summaryVars
  <1>3. r \in ResultType /\ r.task = next
    BY <1>1, Zenon DEF Result, ResultType, AllOutcomes
  <1>4. next \notin Range(processQueue) /\ wpc[next] = "none" /\ ~HasResult(next)
    BY <1>1, Zenon DEF PlacesInv, QueuedWaits, ResultsLoaded, TasksPlaced, HasResult
  <1>5. summaryQueue' = Append(summaryQueue, r)
    BY Zenon DEF LoadError
  <1> HIDE DEF r
  <1>6. /\ Distinct(summaryQueue') /\ ResultsApart' /\ Results' = Results \cup {r}
        /\ \A t : HasResult(t)' <=> HasResult(t) \/ t = next
    BY <1>2, <1>3, <1>4, <1>5, ResultQueued, Zenon
  <1>7. Range(processQueue') = Range(processQueue)
    BY <1>2, Zenon
  <1>8. QueuedWaits'
    BY <1>1, <1>2, <1>4, <1>6, <1>7, Zenon DEF PlacesInv, QueuedWaits
  <1>9. ResultsLoaded'
    BY <1>1, <1>2, <1>3, <1>4, <1>6, Zenon DEF PlacesInv, ResultsLoaded
  <1>10. TasksPlaced'
    BY <1>1, <1>2, <1>4, <1>6, <1>7, Zenon DEF PlacesInv, TasksPlaced
  <1>11. ItemHeld'
    BY <1>1, <1>2, <1>6, <1>7, Zenon DEF PlacesInv, ItemHeld
  <1>12. QueuesDistinct' /\ LoggedBehind'
    BY <1>2, <1>6, Zenon DEF PlacesInv, QueuesDistinct, LoggedBehind
  <1> QED
    BY <1>6, <1>8, <1>9, <1>10, <1>11, <1>12, Zenon DEF PlacesInv

(* A task that is dequeued moves from the queue to the process thread.     *)
LEMMA PopTaskKeepsPlaces ==
  ASSUME TypeOK, PlacesInv, PopTask, UNCHANGED mMode
  PROVE  PlacesInv'
  <1> DEFINE h == Head(processQueue)
  <1>1. UNCHANGED <<summaryQueue, tasks, errors, wpc, logged, next>>
    BY Zenon DEF PopTask, othersOfProcess, loadVars, summaryVars
  <1>2. Loaded' = Loaded
    BY LoadedChanges, Zenon DEF PopTask, othersOfProcess
  <1>3. /\ Results' = Results /\ Committed' = Committed
        /\ Range(summaryQueue') = Range(summaryQueue)
        /\ \A t : HasResult(t)' <=> HasResult(t)
    BY <1>1, SameResults, Zenon
  <1>4. /\ h \in Range(processQueue) /\ Range(processQueue') = Range(processQueue) \ {h}
        /\ Distinct(processQueue')
    <2>1. /\ processQueue \in Seq(Tasks) /\ processQueue # <<>> /\ Distinct(processQueue)
          /\ processQueue' = Tail(processQueue)
      BY Zenon DEF PopTask, TypeOK, PlacesInv, QueuesDistinct
    <2>2. Taken(processQueue, processQueue', h)
      BY <2>1, PopFront, Zenon
    <2> QED
      BY <2>2, Zenon DEF Taken
  <1>5. item' = h /\ ppc' = IF mMode = "count" THEN "loop" ELSE "acquire"
    BY Zenon DEF PopTask
  <1> HIDE DEF h
  <1>6. TasksPlaced'
    <2>1. ppc = "pop"
      BY Zenon DEF PopTask
    <2> QED
      BY <1>1, <1>2, <1>3, <1>4, <1>5, <2>1, Zenon DEF PlacesInv, TasksPlaced
  <1>7. /\ item' \in Loaded' /\ wpc'[item'] = "none"
        /\ item' \notin Range(processQueue') /\ ~HasResult(item)'
    <2>1. h \in Loaded /\ wpc[h] = "none" /\ ~HasResult(h)
      BY <1>4, Zenon DEF PlacesInv, QueuedWaits
    <2>2. ~HasResult(item)'
      BY <1>3, <1>5, <2>1, Zenon DEF HasResult
    <2> QED
      BY <1>1, <1>2, <1>4, <1>5, <2>1, <2>2, Zenon
  <1>8. /\ QueuedWaits'
        /\ ResultsLoaded'
    BY <1>1, <1>2, <1>3, <1>4, Zenon DEF PlacesInv, QueuedWaits, ResultsLoaded
  <1>9. QueuesDistinct' /\ ResultsApart' /\ LoggedBehind'
    BY <1>1, <1>3, <1>4, Zenon DEF PlacesInv, QueuesDistinct, ResultsApart, LoggedBehind
  <1>10. ItemHeld'
    BY <1>7, Zenon DEF ItemHeld
  <1> QED
    BY <1>6, <1>8, <1>9, <1>10, Zenon DEF PlacesInv

(* A task that is started moves on to its worker; one whose start raises   *)
(* stays without a result.                                                 *)
LEMMA StartWorkerKeepsPlaces ==
  ASSUME TypeOK, PlacesInv, StartWorker, UNCHANGED mMode
  PROVE  PlacesInv'
  <1>1. UNCHANGED <<processQueue, summaryQueue, tasks, errors, logged, next, item>> /\ ppc = "start"
    BY Zenon DEF StartWorker, othersOfProcess, loadVars, summaryVars
  <1>2. Loaded' = Loaded
    BY LoadedChanges, Zenon DEF StartWorker, othersOfProcess
  <1>3. CASE ppc' = "signal" /\ UNCHANGED wpc
    BY <1>1, <1>2, <1>3, PlacesKept, Zenon DEF PlacesInv, LoggedBehind
  <1>4. CASE ppc' = "loop" /\ wpc' = [wpc EXCEPT ![item] = "run"]
    <2>1. /\ item \in Tasks /\ item \in Loaded /\ wpc[item] = "none"
          /\ item \notin Range(processQueue) /\ ~HasResult(item)
      BY <1>1, Zenon DEF TypeOK, PlacesInv, ItemHeld
    <2>2. /\ Results' = Results /\ Committed' = Committed
          /\ Range(summaryQueue') = Range(summaryQueue)
          /\ \A t : HasResult(t)' <=> HasResult(t)
      BY <1>1, SameResults, Zenon
    <2>3. \A t \in Tasks : wpc'[t] = IF t = item THEN "run" ELSE wpc[t]
      BY <1>4, <2>1, Zenon DEF TypeOK
    <2>4. Range(processQueue') = Range(processQueue) /\ Range(processQueue) \subseteq Tasks
          /\ \A r \in Results : r.task \in Tasks
      <3>1. Loaded \subseteq Tasks
        BY Zenon DEF Loaded
      <3> QED
        BY <1>1, <3>1, Zenon DEF PlacesInv, QueuedWaits, ResultsLoaded
    <2>5. QueuedWaits'
      BY <1>2, <2>1, <2>2, <2>3, <2>4, Zenon DEF PlacesInv, QueuedWaits
    <2>6. ResultsLoaded'
      <3>1. \A r \in Results : r.task # item
        BY <2>1, Zenon DEF HasResult
      <3> QED
        BY <1>2, <2>2, <2>3, <2>4, <3>1, Zenon DEF PlacesInv, ResultsLoaded
    <2>7. TasksPlaced'
      BY <1>1, <1>2, <2>1, <2>2, <2>3, <2>4, Zenon DEF PlacesInv, TasksPlaced
    <2>8. QueuesDistinct' /\ ResultsApart' /\ LoggedBehind'
      BY <1>1, <2>2, Zenon DEF PlacesInv, QueuesDistinct, ResultsApart, LoggedBehind
    <2>9. ItemHeld'
      BY <1>4, Zenon DEF ItemHeld
    <2> QED
      BY <2>5, <2>6, <2>7, <2>8, <2>9, Zenon DEF PlacesInv
  <1> QED
    BY <1>3, <1>4, Zenon DEF StartWorker

(* A worker delivers the one result of its task, whatever raises.          *)
LEMMA RunTaskKeepsPlaces ==
  ASSUME TypeOK, PlacesInv, NEW t \in Tasks, RunTask(t), UNCHANGED mMode
  PROVE  PlacesInv'
  <1>1. PICK outcome \in Outcomes : summaryQueue' = Append(summaryQueue, Result(t, outcome))
    BY Zenon DEF RunTask
  <1> DEFINE r == Result(t, outcome)
  <1>2. r \in ResultType /\ r.task = t
    BY ConstantsAssumption, Zenon DEF Result, ResultType
  <1>3. UNCHANGED <<processQueue, tasks, errors, ppc, item, logged, next>>
    BY Zenon DEF RunTask, othersOfWorker, loadVars, summaryVars
  <1>4. Loaded' = Loaded
    BY LoadedChanges, Zenon DEF RunTask, othersOfWorker
  <1>5. wpc[t] = "run" /\ ~HasResult(t) /\ t \in Loaded /\ t \notin Range(processQueue)
    BY Zenon DEF RunTask, PlacesInv, QueuedWaits, ResultsLoaded, TasksPlaced, HasResult
  <1>6. \A u \in Tasks : wpc'[u] = IF u = t THEN "release" ELSE wpc[u]
    BY Zenon DEF RunTask, TypeOK
  <1> HIDE DEF r
  <1>7. /\ Distinct(summaryQueue') /\ ResultsApart' /\ Results' = Results \cup {r}
        /\ \A u : HasResult(u)' <=> HasResult(u) \/ u = t
    BY <1>1, <1>2, <1>3, <1>5, ResultQueued DEF r
  <1>8. Range(processQueue') = Range(processQueue) /\ Range(processQueue) \subseteq Tasks
        /\ \A s \in Results : s.task \in Tasks
    <2>1. Loaded \subseteq Tasks
      BY Zenon DEF Loaded
    <2> QED
      BY <1>3, <2>1, Zenon DEF PlacesInv, QueuedWaits, ResultsLoaded
  <1>9. QueuedWaits'
    BY <1>4, <1>5, <1>6, <1>7, <1>8, Zenon DEF PlacesInv, QueuedWaits
  <1>10. ResultsLoaded'
    BY <1>2, <1>4, <1>5, <1>6, <1>7, <1>8, Zenon DEF PlacesInv, ResultsLoaded
  <1>11. TasksPlaced'
    BY <1>3, <1>4, <1>5, <1>6, <1>7, <1>8, Zenon DEF PlacesInv, TasksPlaced
  <1>12. ItemHeld'
    <2> SUFFICES ASSUME ppc \in {"acquire", "start"}
                 PROVE  /\ item' \in Loaded' /\ wpc'[item'] = "none"
                        /\ item' \notin Range(processQueue') /\ ~HasResult(item)'
      BY <1>3, Zenon DEF ItemHeld
    <2>1. /\ item \in Tasks /\ item # t /\ item \in Loaded /\ wpc[item] = "none"
          /\ item \notin Range(processQueue) /\ ~HasResult(item)
      BY <1>5, Zenon DEF TypeOK, PlacesInv, ItemHeld
    <2> QED
      BY <1>3, <1>4, <1>6, <1>7, <1>8, <2>1, Zenon
  <1>13. QueuesDistinct' /\ LoggedBehind'
    BY <1>3, <1>7, Zenon DEF PlacesInv, QueuesDistinct, LoggedBehind
  <1> QED
    BY <1>7, <1>9, <1>10, <1>11, <1>12, <1>13, Zenon DEF PlacesInv

(* A worker that has put its result on the queue goes on to its end.       *)
LEMMA WorkerEndKeepsPlaces ==
  ASSUME TypeOK, PlacesInv, NEW t \in Tasks, UNCHANGED mMode,
         ReleaseResult(t) \/ DecrementCount(t) \/ ReleaseWorker(t)
  PROVE  PlacesInv'
  <1>1. UNCHANGED <<processQueue, summaryQueue, tasks, errors, ppc, item, logged, next>>
    BY Zenon DEF ReleaseResult, DecrementCount, ReleaseWorker, othersOfWorker, loadVars, summaryVars
  <1>2. Loaded' = Loaded
    BY LoadedChanges, Zenon DEF ReleaseResult, DecrementCount, ReleaseWorker, othersOfWorker
  <1>3. /\ Results' = Results /\ Committed' = Committed
        /\ Range(summaryQueue') = Range(summaryQueue)
        /\ \A u : HasResult(u)' <=> HasResult(u)
    BY <1>1, SameResults, Zenon
  <1>4. /\ wpc[t] \in {"release", "count", "done"} /\ wpc'[t] \in {"count", "done", "ended"}
        /\ \A u \in Tasks : u # t => wpc'[u] = wpc[u]
    BY Zenon DEF ReleaseResult, DecrementCount, ReleaseWorker, TypeOK
  <1>5. Range(processQueue') = Range(processQueue) /\ Loaded \subseteq Tasks
    BY <1>1, Zenon DEF Loaded
  <1>6. /\ QueuedWaits'
        /\ ResultsLoaded'
    BY <1>2, <1>3, <1>4, <1>5, Zenon DEF PlacesInv, QueuedWaits, ResultsLoaded
  <1>7. TasksPlaced'
    BY <1>1, <1>2, <1>3, <1>4, <1>5, Zenon DEF PlacesInv, TasksPlaced
  <1>8. ItemHeld'
    BY <1>1, <1>2, <1>3, <1>4, <1>5, Zenon DEF PlacesInv, ItemHeld
  <1>9. QueuesDistinct' /\ ResultsApart' /\ LoggedBehind'
    BY <1>1, <1>3, Zenon DEF PlacesInv, QueuesDistinct, ResultsApart, LoggedBehind
  <1> QED
    BY <1>6, <1>7, <1>8, <1>9, Zenon DEF PlacesInv

(* The summary thread moves a result from the queue to the summary.        *)
LEMMA CommitKeepsPlaces ==
  ASSUME TypeOK, PlacesInv, Commit, UNCHANGED mMode
  PROVE  PlacesInv'
  <1> DEFINE h == Head(summaryQueue)
  <1>1. UNCHANGED <<processQueue, wpc, ppc, item, logged, next>>
    BY Zenon DEF Commit, othersOfSummary, loadVars, processVars
  <1>2. Loaded' = Loaded
    BY LoadedChanges, Zenon DEF Commit, othersOfSummary
  <1>3. /\ h \in Range(summaryQueue) /\ Range(summaryQueue') = Range(summaryQueue) \ {h}
        /\ Distinct(summaryQueue')
    <2>1. /\ summaryQueue \in Seq(ResultType) /\ summaryQueue # <<>> /\ Distinct(summaryQueue)
          /\ summaryQueue' = Tail(summaryQueue)
      BY Zenon DEF Commit, TypeOK, PlacesInv, QueuesDistinct
    <2>2. Taken(summaryQueue, summaryQueue', h)
      BY <2>1, PopFront, Zenon
    <2> QED
      BY <2>2, Zenon DEF Taken
  <1>4. Committed' = Committed \cup {h}
    BY Zenon DEF Commit, Committed
  <1> HIDE DEF h
  <1>5. Results' = Results /\ Range(summaryQueue') \cap Committed' = {}
    BY <1>3, <1>4, Zenon DEF Results, PlacesInv, ResultsApart
  <1>6. \A t : HasResult(t)' <=> HasResult(t)
    BY <1>5, Zenon DEF HasResult
  <1>7. Range(processQueue') = Range(processQueue)
    BY <1>1, Zenon
  <1>8. QueuesDistinct' /\ ResultsApart' /\ LoggedBehind'
    BY <1>1, <1>3, <1>5, Zenon DEF PlacesInv, QueuesDistinct, ResultsApart, LoggedBehind
  <1>9. QueuedWaits' /\ ResultsLoaded'
    BY <1>1, <1>2, <1>5, <1>6, <1>7, Zenon DEF PlacesInv, QueuedWaits, ResultsLoaded
  <1>10. TasksPlaced'
    BY <1>1, <1>2, <1>6, <1>7, Zenon DEF PlacesInv, TasksPlaced
  <1>11. ItemHeld'
    BY <1>1, <1>2, <1>6, <1>7, Zenon DEF PlacesInv, ItemHeld
  <1> QED
    BY <1>8, <1>9, <1>10, <1>11, Zenon DEF PlacesInv

(* Every step keeps each task in one place.                                *)
LEMMA PlacesNext ==
  ASSUME TypeOK, PlacesInv, [Next]_vars
  PROVE  PlacesInv'
  <1>1. CASE UNCHANGED vars
    <2>1. Loaded' = Loaded
      BY <1>1, LoadedChanges, Zenon DEF vars
    <2> QED
      BY <1>1, <2>1, PlacesKept, Zenon DEF vars, loadVars, processVars, summaryVars, PlacesInv, LoggedBehind
  <1>2. ASSUME UNCHANGED mMode, ReleaseTask \/ ReleaseError \/ LogError PROVE PlacesInv'
    <2>1. Loaded' = Loaded
      BY <1>2, LoadedChanges, Zenon
    <2>2. LoggedBehind'
      <3>1. next \in Nat /\ logged \subseteq Nat /\ \A t \in logged : t < next
        <4>1. next \in Nat /\ logged \subseteq Tasks
          BY ConstantsAssumption DEF TypeOK
        <4>2. Tasks \subseteq Nat
          BY DEF Tasks
        <4> QED
          BY <4>1, <4>2, Zenon DEF PlacesInv, LoggedBehind
      <3>2. next' = next + 1 /\ logged' \subseteq logged \cup {next}
        BY <1>2, Zenon DEF ReleaseTask, ReleaseError, LogError
      <3> QED
        BY <3>1, <3>2 DEF LoggedBehind
    <2>3. UNCHANGED <<processQueue, summaryQueue, tasks, errors, wpc, ppc, item>>
      BY <1>2, Zenon DEF ReleaseTask, ReleaseError, LogError, processVars, summaryVars
    <2> QED
      BY <1>2, <2>1, <2>2, <2>3, PlacesKept, Zenon
  <1>3. ASSUME UNCHANGED mMode, FullyLoaded \/ MainWaits PROVE PlacesInv'
    <2>1. Loaded' = Loaded
      BY <1>3, LoadedChanges, Zenon
    <2>2. UNCHANGED <<processQueue, summaryQueue, tasks, errors, wpc, ppc, item, logged, next>>
      BY <1>3, Zenon DEF FullyLoaded, MainWaits, processVars, summaryVars
    <2> QED
      BY <1>3, <2>1, <2>2, PlacesKept, Zenon DEF PlacesInv, LoggedBehind
  <1>4. ASSUME UNCHANGED mMode,
               TestLoop \/ Dequeue \/ AcquireWorker \/ Drain \/ SignalWorkersDone
        PROVE PlacesInv'
    <2>1. UNCHANGED <<processQueue, othersOfProcess, wpc, item>>
      BY <1>4, Zenon DEF TestLoop, Dequeue, AcquireWorker, Drain, SignalWorkersDone
    <2>2. Loaded' = Loaded
      BY <2>1, LoadedChanges, Zenon DEF othersOfProcess
    <2>3. /\ ppc' \in {"acquire", "start"} => ppc \in {"acquire", "start"}
          /\ ppc \in {"acquire", "start", "signal", "done"} =>
                ppc' \in {"acquire", "start", "signal", "done"}
      BY <1>4, Zenon DEF TestLoop, Dequeue, AcquireWorker, Drain, SignalWorkersDone
    <2> QED
      BY <1>4, <2>1, <2>2, <2>3, PlacesKept, Zenon DEF PlacesInv, LoggedBehind, othersOfProcess, loadVars, summaryVars
  <1>5. ASSUME UNCHANGED mMode, SummaryDequeue \/ SummaryTimeout \/ SignalSummaryDone
        PROVE PlacesInv'
    <2>1. UNCHANGED <<othersOfSummary, summaryQueue, tasks, errors>>
      BY <1>5, Zenon DEF SummaryDequeue, SummaryTimeout, SignalSummaryDone
    <2>2. Loaded' = Loaded
      BY <2>1, LoadedChanges, Zenon DEF othersOfSummary
    <2> QED
      BY <1>5, <2>1, <2>2, PlacesKept, Zenon DEF PlacesInv, LoggedBehind, othersOfSummary, loadVars, processVars
  <1> QED
    BY StepCases, <1>1, <1>2, <1>3, <1>4, <1>5, LoadTaskKeepsPlaces, LoadErrorKeepsPlaces,
       PopTaskKeepsPlaces, StartWorkerKeepsPlaces, RunTaskKeepsPlaces, WorkerEndKeepsPlaces,
       CommitKeepsPlaces, Zenon

-----------------------------------------------------------------------------
(* A set no two elements of which differ has at most one.                  *)
LEMMA AtMostOne ==
  ASSUME NEW S, \A x, y \in S : x = y
  PROVE  Cardinality(S) = IF S = {} THEN 0 ELSE 1
  <1>1. CASE S = {}
    BY <1>1, FS_EmptySet, Zenon
  <1>2. ASSUME NEW x \in S PROVE Cardinality(S) = 1
    <2>1. S = {x}
      BY <1>2, Zenon
    <2> QED
      BY <2>1, FS_Singleton, Zenon
  <1> QED
    BY <1>1, <1>2, Zenon

(* The places counted by EachTaskOnce.                                     *)
LEMMA PlacesCounted ==
  ASSUME TypeOK, PlacesInv, NEW t \in Tasks
  PROVE  /\ Waiting(t) = IF t \in Range(processQueue) THEN 1 ELSE 0
         /\ Resulted(t) = IF HasResult(t) THEN 1 ELSE 0
  <1> DEFINE W == {i \in DOMAIN processQueue : processQueue[i] = t}
             Q == {i \in DOMAIN summaryQueue : summaryQueue[i].task = t}
             C == {r \in tasks \cup errors : r.task = t}
  <1>1. DOMAIN processQueue = 1 .. Len(processQueue) /\ DOMAIN summaryQueue = 1 .. Len(summaryQueue)
    BY DEF TypeOK
  <1>2. \A i, j \in W : i = j
    BY <1>1, Zenon DEF PlacesInv, QueuesDistinct, Distinct
  <1>3. W # {} <=> t \in Range(processQueue)
    BY Zenon DEF Range
  <1>4. \A i \in DOMAIN summaryQueue : summaryQueue[i] \in Range(summaryQueue)
    BY Zenon DEF Range
  <1>5. \A i, j \in Q : i = j
    <2> SUFFICES ASSUME NEW i \in Q, NEW j \in Q PROVE i = j
      BY Zenon
    <2>1. summaryQueue[i] = summaryQueue[j]
      BY <1>4, Zenon DEF PlacesInv, ResultsApart, Results
    <2> QED
      BY <1>1, <2>1, Zenon DEF PlacesInv, QueuesDistinct, Distinct
  <1>6. \A r, s \in C : r = s
    BY Zenon DEF PlacesInv, ResultsApart, Results, Committed
  <1>7. HasResult(t) <=> Q # {} \/ C # {}
    BY Zenon DEF HasResult, Results, Committed, Range
  <1>8. ~(Q # {} /\ C # {})
    <2> SUFFICES ASSUME NEW i \in Q, NEW r \in C PROVE FALSE
      BY Zenon
    <2>1. summaryQueue[i] = r
      BY <1>4, Zenon DEF PlacesInv, ResultsApart, Results, Committed
    <2> QED
      BY <2>1, <1>4, Zenon DEF PlacesInv, ResultsApart, Committed
  <1>9. Cardinality(W) = IF W = {} THEN 0 ELSE 1
    BY <1>2, AtMostOne, Zenon
  <1>10. Cardinality(Q) = IF Q = {} THEN 0 ELSE 1
    BY <1>5, AtMostOne, Zenon
  <1>11. Cardinality(C) = IF C = {} THEN 0 ELSE 1
    BY <1>6, AtMostOne, Zenon
  <1>12. Waiting(t) = Cardinality(W) /\ Resulted(t) = Cardinality(Q) + Cardinality(C)
    BY Zenon DEF Waiting, Resulted
  <1> HIDE DEF W, Q, C
  <1> QED
    BY <1>3, <1>7, <1>8, <1>9, <1>10, <1>11, <1>12

-----------------------------------------------------------------------------
(* The inductive invariant holds of every regression.                      *)
THEOREM Invariance == Spec => []IInv
  <1>1. Init => IInv
    BY TypeInit, SemaphoresInit, CountInit, LoopInit, PlacesInit, Zenon DEF IInv
  <1>2. IInv /\ [Next]_vars => IInv'
    BY TypeNext, SemaphoresNext, CountNext, LoopNext, PlacesNext, Zenon DEF IInv
  <1> QED
    BY <1>1, <1>2, PTL DEF Spec

(* pop(0) of HiThreadedProducerConsumerQueue.dequeue finds an item, with   *)
(* any number of workers that put results on the summary queue.            *)
THEOREM DequeuesFindItems == Spec => []DequeueFindsItem
  <1>1. IInv => DequeueFindsItem
    <2> SUFFICES ASSUME IInv PROVE DequeueFindsItem
      BY Zenon
    <2>1. processAval \in Nat /\ summaryAval \in Nat /\ Cardinality(Releasing) \in Nat
      BY WorkersFinite DEF IInv, TypeOK, Releasing
    <2> QED
      BY <2>1 DEF IInv, SemaphoresExact, Bit, DequeueFindsItem
  <1> QED
    BY <1>1, Invariance, PTL

(* No task of a regression is lost, run twice or reported twice, whatever  *)
(* its worker, the loading thread or the summary thread raise.             *)
THEOREM TasksOnce == Spec => []EachTaskOnce
  <1>1. IInv => EachTaskOnce
    <2> SUFFICES ASSUME IInv, NEW t \in Tasks
                 PROVE  /\ Waiting(t) + Resulted(t) <= 1
                        /\ wpc[t] # "none" => Waiting(t) = 0
                        /\ wpc[t] \in {"release", "count", "done", "ended"} => Resulted(t) = 1
                        /\ t \in Loaded /\ mMode # "count" /\ wpc[t] = "none"
                              /\ Waiting(t) + Resulted(t) = 0
                             => item = t /\ ppc \in {"acquire", "start", "signal", "done"}
      BY Zenon DEF EachTaskOnce
    <2>1. /\ Waiting(t) = IF t \in Range(processQueue) THEN 1 ELSE 0
          /\ Resulted(t) = IF HasResult(t) THEN 1 ELSE 0
      BY PlacesCounted, Zenon DEF IInv
    <2>2. /\ t \in Range(processQueue) => wpc[t] = "none" /\ ~HasResult(t)
          /\ wpc[t] \in {"release", "count", "done", "ended"} => HasResult(t)
          /\ t \in Loaded /\ mMode # "count" /\ wpc[t] = "none"
                /\ t \notin Range(processQueue) /\ ~HasResult(t)
               => item = t /\ ppc \in {"acquire", "start", "signal", "done"}
      BY Zenon DEF IInv, PlacesInv, QueuedWaits, TasksPlaced
    <2> QED
      BY <2>1, <2>2
  <1> QED
    BY <1>1, Invariance, PTL

(* ProcessThread signals workers_done_event only when no worker runs and,  *)
(* if nothing terminated the regression, no task is left to be run, though *)
(* its loop reads fully_loaded, thread_count and the queue one by one.     *)
THEOREM DoneIsDone == Spec => []DoneMeansAllRun
  <1>1. IInv => DoneMeansAllRun
    BY Zenon DEF IInv, LoopInv, DoneMeansAllRun
  <1> QED
    BY <1>1, Invariance, PTL
=============================================================================

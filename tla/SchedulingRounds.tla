-------------------------- MODULE SchedulingRounds --------------------------
(***************************************************************************)
(* RequestTurns with history variables that follow the rounds of           *)
(* ShuffledRoundRobinSchedulingStrategy: a round begins when               *)
(* RefreshSchedule shuffles mActiveThreadIds and ends at the next shuffle. *)
(* With PastBarriers false they follow the rounds up to the first barrier. *)
(***************************************************************************)
EXTENDS RequestTurns

CONSTANT PastBarriers

ASSUME PastBarriersAssumption == PastBarriers \in BOOLEAN

VARIABLES
    followed,   \* the rounds are followed
    served,     \* threads that were made current in this round
    eligible,   \* threads active since the round began
    skipped     \* eligible threads the last round ended without serving

roundVars == <<followed, served, eligible, skipped>>

RInit == Init /\ followed = TRUE /\ served = {} /\ eligible = {} /\ skipped = {}

(* NextThread, called with the vector at this length and this index, after *)
(* the threads in left stopped being eligible.                             *)
Advance(length, index, left) ==
    IF ~followed
    THEN UNCHANGED roundVars
    ELSE IF index >= length
    THEN /\ followed' = TRUE
         /\ served' = {mCurrentThreadId'}
         /\ eligible' = Range(mActiveThreadIds')
         /\ skipped' = (eligible \ left) \ served
    ELSE /\ followed' = TRUE
         /\ served' = served \cup {mCurrentThreadId'}
         /\ eligible' = eligible \ left
         /\ UNCHANGED skipped

RStart == Start /\ Advance(0, 0, {})

RFinish ==
    /\ Finish
    /\ IF mState = "Locked" \/ failure' # NoFailure
       THEN UNCHANGED roundVars
       ELSE Advance(Len(mActiveThreadIds), mNextIndex, {})

RSynchronize(t, S) ==
    /\ Synchronize(t, S)
    /\ followed' = (PastBarriers /\ followed)
    /\ eligible' = IF followed' THEN eligible \ {t} ELSE {}
    /\ served' = IF followed' THEN served ELSE {}
    /\ UNCHANGED skipped

RReportThreadDone(t) ==
    /\ ReportThreadDone(t)
    /\ IF failure' # NoFailure \/ mActiveThreadIds' = <<>>
       THEN UNCHANGED roundVars
       ELSE Advance(Len(mActiveThreadIds'), Decrement(mNextIndex), {t})

ROther ==
    /\ \/ FinishNoAdvance
       \/ Stop
       \/ Destroy
       \/ Ended
       \/ \E t \in Threads : Setup(t) \/ Request(t) \/ Lock(t) \/ Unlock(t)
    /\ UNCHANGED roundVars

RNext ==
    \/ RStart
    \/ RFinish
    \/ \E t \in Threads :
          \/ \E S \in SyncSets : RSynchronize(t, S)
          \/ RReportThreadDone(t)
    \/ ROther

RSpec == RInit /\ [][RNext]_<<vars, roundVars>>

(* Round robin: a thread that was active through a whole round was made    *)
(* current in it (mNextIndex walks mActiveThreadIds while RemoveThreadId   *)
(* and DeactivateThread take ids out of it).                               *)
EveryRoundServesAll == skipped = {}
=============================================================================

--------------------------- MODULE DetectDeadLock ---------------------------
(***************************************************************************)
(* The loop of SynchronizeBarrierManager::DetectDeadLock                   *)
(* (base/src/SynchronizeBarrier.cc).  Its inputs, the barriers and the     *)
(* scheduled and active threads, are arbitrary and do not change.  A step  *)
(* is one pass through the body of the inner loop.  The loop visits the    *)
(* barriers in vector order; here it may visit them in any order, so what  *)
(* holds does not depend on the order in which barriers were created.      *)
(***************************************************************************)
EXTENDS SynchronizeBarrier

CONSTANT Threads

VARIABLES
    mBarriers, scheduled_threads, active_threads,   \* inputs
    barriers,                \* the copy barriers are removed from
    free_threads,
    blocked,                 \* barriers the current inner loop found blocked
    result                   \* "running", "deadlock" or "none"

loopVars == <<mBarriers, scheduled_threads, active_threads, barriers, free_threads,
          blocked, result>>

inputs == <<mBarriers, scheduled_threads, active_threads>>

(* The fields of a barrier that the loop reads.                            *)
InputBarriers ==
    {b \in [synchronized : SUBSET Threads, reached : SUBSET Threads] :
        b.reached # {} /\ b.reached \subseteq b.synchronized}

(* The inputs: as the scheduler calls it, threads of a barrier are unique  *)
(* to it, a scheduled thread waits at one barrier at most, and it is       *)
(* active if it waits at none.                                             *)
LoopInit ==
    /\ mBarriers \in SUBSET InputBarriers
    /\ scheduled_threads \in SUBSET Threads
    /\ \A b, c \in mBarriers : b # c =>
          /\ b.synchronized # c.synchronized
          /\ b.reached \cap c.reached \cap scheduled_threads = {}
    /\ active_threads = scheduled_threads \ UNION {b.reached : b \in mBarriers}
    /\ barriers = mBarriers
    /\ free_threads = active_threads
    /\ blocked = {}
    /\ result = "running"

(* usable_threads.ContainsConstraintSet(synchronized_threads)              *)
NonBlocked(b) ==
    b.synchronized \cap scheduled_threads \subseteq free_threads \cup b.reached

(* non_blocked_barrier: the barrier is erased, the inner loop starts anew. *)
EraseBarrier(b) ==
    /\ result = "running"
    /\ b \in barriers \ blocked
    /\ NonBlocked(b)
    /\ barriers' = barriers \ {b}
    /\ free_threads' = free_threads \cup b.reached
    /\ blocked' = {}
    /\ UNCHANGED <<inputs, result>>

SkipBarrier(b) ==
    /\ result = "running"
    /\ b \in barriers \ blocked
    /\ ~NonBlocked(b)
    /\ blocked' = blocked \cup {b}
    /\ UNCHANGED <<inputs, barriers, free_threads, result>>

Return ==
    /\ result = "running"
    /\ barriers = blocked
    /\ result' = IF barriers = {} THEN "none" ELSE "deadlock"
    /\ UNCHANGED <<inputs, barriers, free_threads, blocked>>

LoopNext ==
    \/ \E b \in barriers : EraseBarrier(b) \/ SkipBarrier(b)
    \/ Return

LoopSpec == LoopInit /\ [][LoopNext]_loopVars

-----------------------------------------------------------------------------

(* Why the loop is right: threads are free exactly if they are active or   *)
(* reached a barrier removed so far, no barrier of a blocked set has been  *)
(* removed, and barriers passed over since the last removal are blocked.   *)
LoopInvariant ==
    /\ barriers \subseteq mBarriers
    /\ free_threads = active_threads \cup UNION {b.reached : b \in mBarriers \ barriers}
    /\ \A rest \in SUBSET mBarriers :
          Blocked(rest, mBarriers, scheduled_threads, active_threads) => rest \subseteq barriers
    /\ blocked \subseteq barriers
    /\ \A b \in blocked : ~NonBlocked(b)
    /\ result \in {"running", "deadlock", "none"}
    /\ result # "running" =>
          barriers = blocked /\ (result = "deadlock" <=> barriers # {})

(* What the loop returns is what DeadLock, by which the scheduler is       *)
(* modelled, says of the same barriers and threads.                        *)
ReturnsDeadLock ==
    result # "running" =>
        (result = "deadlock" <=> DeadLock(mBarriers, scheduled_threads, active_threads))

(* Every pass removes a barrier, or leaves the barriers and finds one more *)
(* of them blocked, or returns; none follows the return.  So the loop ends *)
(* for any finite set of barriers, although each removal starts it anew.   *)
EveryPassCounts ==
    [][/\ result = "running"
       /\ \/ \E b \in barriers : barriers' = barriers \ {b}
          \/ barriers' = barriers /\ \E b \in barriers \ blocked : blocked' = blocked \cup {b}
          \/ result' # "running"]_loopVars
=============================================================================

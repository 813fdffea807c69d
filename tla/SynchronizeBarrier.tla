------------------------- MODULE SynchronizeBarrier -------------------------
(***************************************************************************)
(* SynchronizeBarrier and SynchronizeBarrierManager                        *)
(* (base/src/SynchronizeBarrier.cc): the barriers generator threads wait   *)
(* at.  A barrier is a value; the manager's mBarriers is a set of them,    *)
(* because Query looks a barrier up by its synchronized threads and no     *)
(* other method depends on the vector's order, except for the order in     *)
(* which the threads of two barriers released together are activated.      *)
(***************************************************************************)
EXTENDS Integers, FiniteSets

(* A barrier: the threads that synchronize, the ones that reached it and   *)
(* mUnreachedCount.                                                        *)
Barriers(threads) ==
    [synchronized : SUBSET threads, reached : SUBSET threads, unreached : Nat]

CreateSynchronizeBarrier_OffByOne(threads, unreachedCount) ==
    [synchronized |-> threads, reached |-> {}, unreached |-> unreachedCount - 1]

CreateSynchronizeBarrier(threads, unreachedCount) ==
    [synchronized |-> threads, reached |-> {}, unreached |-> unreachedCount]

CreateSynchronizeBarrierError(threads, unreachedCount) ==
    IF unreachedCount > Cardinality(threads)
    THEN "count-larger-than-synchronized-threads-size" ELSE "none"

AddReachedThreadError(barrier, t) ==
    IF t \notin barrier.synchronized THEN "not-include-thread"
    ELSE IF t \in barrier.reached THEN "thread-has-reached"
    ELSE IF barrier.unreached = 0 THEN "unreached-count-has-reached-to-zero"
    ELSE "none"

AddReachedThread(barrier, t) ==
    [synchronized |-> barrier.synchronized,
     reached |-> barrier.reached \cup {t},
     unreached |-> barrier.unreached - 1]

Query(barriers, threads) == {b \in barriers : b.synchronized = threads}

GetParticipatingBarriers(barriers, t) == {b \in barriers : t \in b.synchronized}

(***************************************************************************)
(* DetectDeadLock works on a copy of the barriers and removes, as long as  *)
(* it finds one, a barrier all of whose scheduled threads are free or have *)
(* reached it; the threads waiting at a removed barrier become free.  It   *)
(* reports a deadlock if barriers are left.  Blocked(rest, ...) is the     *)
(* exit condition of that loop when rest are the barriers left.  A set of  *)
(* barriers that is blocked once the others are gone loses none of its     *)
(* members in any order of removal, so the loop leaves some barrier        *)
(* exactly if there is such a set; module DetectDeadLock has the loop      *)
(* itself.                                                                 *)
(***************************************************************************)
Blocked_ByActiveOnly(rest, barriers, scheduled, active) ==
    LET free == active \cup UNION {b.reached : b \in barriers}
    IN  \A b \in rest : ~(b.synchronized \cap scheduled \subseteq free)

Blocked(rest, barriers, scheduled, active) ==
    LET free == active \cup UNION {b.reached : b \in barriers \ rest}
    IN  \A b \in rest : ~(b.synchronized \cap scheduled \subseteq free \cup b.reached)

DeadLock(barriers, scheduled, active) ==
    \E rest \in SUBSET barriers :
        rest # {} /\ Blocked(rest, barriers, scheduled, active)
=============================================================================

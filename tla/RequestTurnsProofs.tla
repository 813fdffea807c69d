------------------------- MODULE RequestTurnsProofs -------------------------
(***************************************************************************)
(* The invariants of RequestTurns and SchedulingRounds hold for any number *)
(* of threads, any sets of threads to synchronize and any depth of         *)
(* locking.                                                                *)
(*                                                                         *)
(* First come facts about the operators the scheduler's model is built     *)
(* from: what the vectors of thread ids hold after erase, push_back and    *)
(* shuffle, and what arrivals at barriers, releases and ends of threads do *)
(* to barriers, scheduled and active threads.  The inductive invariant and *)
(* one lemma for each operation follow.                                    *)
(***************************************************************************)
EXTENDS SchedulingRounds, FiniteSetTheorems, TLAPS

(* The elements of a part of a vector.                                     *)
LEMMA PartElements ==
  ASSUME NEW S, NEW s \in Seq(S), NEW m \in 1 .. Len(s) + 1, NEW n \in m - 1 .. Len(s)
  PROVE  /\ SubSeq(s, m, n) \in Seq(S)
         /\ Len(SubSeq(s, m, n)) = n - m + 1
         /\ \A i \in 1 .. n - m + 1 : SubSeq(s, m, n)[i] = s[m + i - 1]
  OBVIOUS

(* The elements of two vectors joined.                                     *)
LEMMA ConcatElements ==
  ASSUME NEW S, NEW s \in Seq(S), NEW t \in Seq(S)
  PROVE  /\ s \o t \in Seq(S)
         /\ Len(s \o t) = Len(s) + Len(t)
         /\ \A i \in 1 .. Len(s) + Len(t) : (s \o t)[i] = IF i <= Len(s) THEN s[i] ELSE t[i - Len(s)]
  OBVIOUS

(* A vector of distinct ids of T.                                          *)
Vector(ids, T) == ids \in Seq(T) /\ IsInjective(ids)

(* An empty vector holds no id.                                            *)
LEMMA RangeEmpty ==
  ASSUME NEW T, NEW ids \in Seq(T)
  PROVE  ids = <<>> <=> Range(ids) = {}
  BY DEF Range

(* A vector's ids are in T, and a vector of T' that holds ids of T only is *)
(* one of T.                                                               *)
LEMMA RangeSeq ==
  ASSUME NEW S, NEW ids \in Seq(S), NEW T, Range(ids) \subseteq T
  PROVE  ids \in Seq(T)
  <1>1. \A i \in 1..Len(ids) : ids[i] \in T
    BY DEF Range
  <1> QED
    BY <1>1

(* push_back of a new id, in SchedulingStrategy::AddThreadId.              *)
LEMMA AppendVector ==
  ASSUME NEW T, NEW ids, Vector(ids, T), NEW t \in T, t \notin Range(ids)
  PROVE  Vector(Append(ids, t), T) /\ Range(Append(ids, t)) = Range(ids) \cup {t}
  <1> DEFINE new == Append(ids, t)
  <1>1. /\ new \in Seq(T) /\ Len(new) = Len(ids) + 1
        /\ \A i \in 1..Len(ids) : new[i] = ids[i]
        /\ new[Len(ids) + 1] = t
    BY DEF Vector
  <1>2. DOMAIN new = 1..(Len(ids) + 1) /\ DOMAIN ids = 1..Len(ids) /\ Len(ids) \in Nat
    BY <1>1 DEF Vector
  <1> HIDE DEF new
  <1>3. IsInjective(new)
    BY <1>1, <1>2 DEF Vector, IsInjective, Range
  <1>4. Range(new) = Range(ids) \cup {t}
    BY <1>1, <1>2 DEF Range
  <1> QED
    BY <1>1, <1>3, <1>4, Zenon DEF Vector, new

(* erase(remove(...)) of an id: the ids behind it move up by one place.    *)
LEMMA EraseElements ==
  ASSUME NEW T, NEW ids, Vector(ids, T), NEW k \in 1..Len(ids)
  PROVE  LET new == Erase(ids, ids[k])
         IN  /\ new \in Seq(T)
             /\ Len(new) = Len(ids) - 1
             /\ \A i \in 1..(Len(ids) - 1) : new[i] = IF i < k THEN ids[i] ELSE ids[i + 1]
  <1> DEFINE new == Erase(ids, ids[k])
  <1>0. DOMAIN ids = 1..Len(ids) /\ Len(ids) \in Nat /\ ids \in Seq(T)
    BY DEF Vector
  <1>1. new = SubSeq(ids, 1, k - 1) \o SubSeq(ids, k + 1, Len(ids))
    <2>1. k = CHOOSE i \in DOMAIN ids : ids[i] = ids[k]
      BY <1>0, Zenon DEF Vector, IsInjective
    <2>2. ids[k] \in Range(ids)
      BY <1>0, Zenon DEF Range
    <2> QED
      BY <2>1, <2>2, Zenon DEF Erase
  <1>2. /\ new \in Seq(T)
        /\ Len(new) = Len(ids) - 1
        /\ \A i \in 1..(Len(ids) - 1) : new[i] = IF i < k THEN ids[i] ELSE ids[i + 1]
    <2> DEFINE front == SubSeq(ids, 1, k - 1)
               back  == SubSeq(ids, k + 1, Len(ids))
    <2>1. \A i \in 1..Len(ids) : ids[i] \in T
      BY <1>0
    <2>2. /\ front \in Seq(T) /\ Len(front) = k - 1
          /\ \A i \in 1..(k - 1) : front[i] = ids[i]
      BY <1>0, PartElements
    <2>3. /\ back \in Seq(T) /\ Len(back) = Len(ids) - k
          /\ \A i \in 1..(Len(ids) - k) : back[i] = ids[k + i]
      <3>1. k + 1 \in 1..(Len(ids) + 1) /\ Len(ids) \in ((k + 1) - 1)..Len(ids)
        <4>1. k \in 1..Len(ids)
          BY <1>0, Zenon
        <4> HIDE DEF new, front, back
        <4> QED
          BY <1>0, <4>1
      <3>2. /\ back \in Seq(T) /\ Len(back) = Len(ids) - (k + 1) + 1
            /\ \A i \in 1..(Len(ids) - (k + 1) + 1) : back[i] = ids[(k + 1) + i - 1]
        BY <1>0, <3>1, PartElements, Zenon
      <3> HIDE DEF back
      <3>3. Len(ids) - (k + 1) + 1 = Len(ids) - k
        BY <1>0
      <3>4. ASSUME NEW i \in 1..(Len(ids) - k) PROVE back[i] = ids[k + i]
        <4>1. (k + 1) + i - 1 = k + i
          BY <1>0
        <4> QED
          BY <3>2, <3>3, <4>1, Zenon
      <3> QED
        BY <3>2, <3>3, <3>4, Zenon
    <2> HIDE DEF front, back
    <2>4. /\ front \o back \in Seq(T)
          /\ Len(front \o back) = Len(ids) - 1
          /\ \A i \in 1..(Len(ids) - 1) :
               (front \o back)[i] = IF i <= k - 1 THEN front[i] ELSE back[i - (k - 1)]
      <3>1. Len(front) + Len(back) = Len(ids) - 1
        BY <2>2, <2>3, <1>0
      <3>2. /\ front \o back \in Seq(T)
            /\ Len(front \o back) = Len(front) + Len(back)
            /\ \A i \in 1..(Len(front) + Len(back)) :
                 (front \o back)[i] = IF i <= Len(front) THEN front[i] ELSE back[i - Len(front)]
        BY <2>2, <2>3, ConcatElements, Zenon
      <3>3. Len(front) = k - 1
        BY <2>2, Zenon
      <3> QED
        BY <3>1, <3>2, <3>3, Zenon
    <2>5. new = front \o back
      <3> HIDE DEF new
      <3> QED BY <1>1, Zenon DEF front, back
    <2>6. ASSUME NEW i \in 1..(Len(ids) - 1)
          PROVE  (front \o back)[i] = IF i < k THEN ids[i] ELSE ids[i + 1]
      <3>1. CASE i < k
        BY <3>1, <2>2, <2>4, <1>0
      <3>2. CASE ~(i < k)
        <4>1. i - (k - 1) \in 1..(Len(ids) - k) /\ k + (i - (k - 1)) = i + 1 /\ ~(i <= k - 1)
          BY <3>2, <1>0
        <4>2. (front \o back)[i] = back[i - (k - 1)]
          BY <4>1, <2>4, Zenon
        <4> QED
          BY <4>1, <4>2, <2>3, <3>2, Zenon
      <3> QED
        BY <3>1, <3>2, Zenon
    <2> QED
      BY <2>4, <2>5, <2>6, Zenon
  <1> QED
    BY <1>2, Zenon

(* erase(remove(...)) of an id takes out that id and no other.             *)
LEMMA EraseVector ==
  ASSUME NEW T, NEW ids, Vector(ids, T), NEW t
  PROVE  Vector(Erase(ids, t), T) /\ Range(Erase(ids, t)) = Range(ids) \ {t}
  <1>1. CASE t \notin Range(ids)
    BY <1>1, Zenon DEF Erase
  <1>2. CASE t \in Range(ids)
    <2>0. DOMAIN ids = 1..Len(ids) /\ Len(ids) \in Nat /\ ids \in Seq(T)
      BY DEF Vector
    <2> DEFINE k == CHOOSE i \in DOMAIN ids : ids[i] = t
               new == Erase(ids, t)
    <2>1. k \in 1..Len(ids) /\ ids[k] = t
      BY <1>2, <2>0, Zenon DEF Range
    <2> HIDE DEF k
    <2>2. /\ new \in Seq(T)
          /\ Len(new) = Len(ids) - 1
          /\ \A i \in 1..(Len(ids) - 1) : new[i] = IF i < k THEN ids[i] ELSE ids[i + 1]
      BY <2>1, EraseElements, Zenon
    <2>3. DOMAIN new = 1..(Len(ids) - 1)
      BY <2>2
    <2> HIDE DEF new
    <2>4. IsInjective(new)
      <3> SUFFICES ASSUME NEW i \in 1..(Len(ids) - 1), NEW j \in 1..(Len(ids) - 1),
                          new[i] = new[j]
                   PROVE  i = j
        BY <2>3, Zenon DEF IsInjective
      <3> DEFINE at(n) == IF n < k THEN n ELSE n + 1
      <3>1. at(i) \in DOMAIN ids /\ at(j) \in DOMAIN ids /\ ids[at(i)] = ids[at(j)]
        BY <2>0, <2>1, <2>2
      <3>2. at(i) = at(j)
        BY <3>1, Zenon DEF Vector, IsInjective
      <3> QED
        BY <3>2, <2>0, <2>1
    <2>5. ASSUME NEW x \in Range(new) PROVE x \in Range(ids) \ {t}
      <3>1. PICK i \in 1..(Len(ids) - 1) : x = new[i]
        BY <2>3, Zenon DEF Range
      <3>2. PICK j \in 1..Len(ids) : j # k /\ x = ids[j]
        BY <3>1, <2>0, <2>1, <2>2
      <3> QED
        BY <3>2, <2>0, <2>1, Zenon DEF Range, Vector, IsInjective
    <2>6. ASSUME NEW x \in Range(ids) \ {t} PROVE x \in Range(new)
      <3>1. PICK j \in 1..Len(ids) : x = ids[j] /\ j # k
        BY <2>0, <2>1, Zenon DEF Range
      <3>2. CASE j < k
        <4>1. j \in DOMAIN new /\ new[j] = x
          BY <3>1, <3>2, <2>0, <2>1, <2>2, <2>3
        <4> QED BY <4>1, Zenon DEF Range
      <3>3. CASE j > k
        <4>1. j - 1 \in DOMAIN new /\ new[j - 1] = x
          BY <3>1, <3>3, <2>0, <2>1, <2>2, <2>3
        <4> QED BY <4>1, Zenon DEF Range
      <3> QED
        BY <3>1, <3>2, <3>3, <2>1, <2>0
    <2> QED
      BY <2>2, <2>4, <2>5, <2>6, Zenon DEF Vector, new
  <1> QED
    BY <1>1, <1>2, Zenon

(* push_back of vectors of other ids, in ActivateThread.                   *)
LEMMA ConcatVector ==
  ASSUME NEW T, NEW r, NEW s, Vector(r, T), Vector(s, T), Range(r) \cap Range(s) = {}
  PROVE  Vector(PushBack(r, s), T) /\ Range(PushBack(r, s)) = Range(r) \cup Range(s)
  <1> DEFINE c == r \o s
  <1>1. /\ c \in Seq(T) /\ Len(c) = Len(r) + Len(s)
        /\ Len(r) \in Nat /\ Len(s) \in Nat
        /\ DOMAIN r = 1..Len(r) /\ DOMAIN s = 1..Len(s) /\ DOMAIN c = 1..Len(c)
        /\ \A i \in 1..Len(c) : c[i] = IF i <= Len(r) THEN r[i] ELSE s[i - Len(r)]
    BY DEF Vector
  <1> HIDE DEF c
  <1>2. \A i \in 1..Len(c) : (i <= Len(r) /\ i \in DOMAIN r /\ c[i] = r[i])
                          \/ (i > Len(r) /\ i - Len(r) \in DOMAIN s /\ c[i] = s[i - Len(r)])
    BY <1>1
  <1>3. \A i \in DOMAIN r : i \in DOMAIN c /\ c[i] = r[i]
    BY <1>1
  <1>4. \A i \in DOMAIN s : i + Len(r) \in DOMAIN c /\ c[i + Len(r)] = s[i]
    BY <1>1
  <1>5. Range(c) = Range(r) \cup Range(s)
    <2>1. \A x \in Range(c) : x \in Range(r) \cup Range(s)
      BY <1>1, <1>2, Zenon DEF Range
    <2>2. \A x \in Range(r) : x \in Range(c)
      BY <1>3, Zenon DEF Range
    <2>3. \A x \in Range(s) : x \in Range(c)
      BY <1>4, Zenon DEF Range
    <2> QED
      BY <2>1, <2>2, <2>3, Zenon
  <1>6. IsInjective(c)
    <2> SUFFICES ASSUME NEW i \in 1..Len(c), NEW j \in 1..Len(c), c[i] = c[j]
                 PROVE  i = j
      BY <1>1, Zenon DEF IsInjective
    <2>1. CASE i <= Len(r) /\ j <= Len(r)
      <3>1. i \in DOMAIN r /\ j \in DOMAIN r /\ r[i] = r[j]
        BY <2>1, <1>2, <1>1
      <3> QED BY <3>1, Zenon DEF Vector, IsInjective
    <2>2. CASE i > Len(r) /\ j > Len(r)
      <3>1. i - Len(r) \in DOMAIN s /\ j - Len(r) \in DOMAIN s /\ s[i - Len(r)] = s[j - Len(r)]
        BY <2>2, <1>2, <1>1
      <3>2. i - Len(r) = j - Len(r)
        BY <3>1, Zenon DEF Vector, IsInjective
      <3> QED BY <3>2, <1>1
    <2>3. CASE (i <= Len(r)) # (j <= Len(r))
      <3>1. \/ i \in DOMAIN r /\ j - Len(r) \in DOMAIN s /\ r[i] = s[j - Len(r)]
            \/ j \in DOMAIN r /\ i - Len(r) \in DOMAIN s /\ r[j] = s[i - Len(r)]
        BY <2>3, <1>2, <1>1
      <3> QED BY <3>1, Zenon DEF Range
    <2> QED
      BY <2>1, <2>2, <2>3, <1>1
  <1> QED
    BY <1>1, <1>5, <1>6, Zenon DEF Vector, c, PushBack

(* std::shuffle keeps the ids.                                             *)
LEMMA ShuffleVector ==
  ASSUME NEW T, NEW ids, Vector(ids, T), NEW new \in Shuffles(ids)
  PROVE  Vector(new, T) /\ Range(new) = Range(ids) /\ Len(new) = Len(ids)
  <1>1. PICK p \in Bijection(1..Len(ids), 1..Len(ids)) :
               new = [i \in 1..Len(ids) |-> ids[p[i]]]
    BY Zenon DEF Shuffles
  <1>2. /\ p \in [1..Len(ids) -> 1..Len(ids)]
        /\ \A i, j \in 1..Len(ids) : p[i] = p[j] => i = j
        /\ \A k \in 1..Len(ids) : \E i \in 1..Len(ids) : p[i] = k
    BY Zenon DEF Bijection, Injection, Surjection, IsInjective
  <1>3. Len(ids) \in Nat /\ DOMAIN ids = 1..Len(ids) /\ \A i \in 1..Len(ids) : ids[i] \in T
    BY DEF Vector
  <1>4. new \in Seq(T) /\ Len(new) = Len(ids) /\ DOMAIN new = 1..Len(ids)
    <2>1. \A i \in 1..Len(ids) : p[i] \in 1..Len(ids)
      BY <1>2, Zenon
    <2>2. \A i \in 1..Len(ids) : ids[p[i]] \in T
      BY <2>1, <1>3, Zenon
    <2>3. new \in [1..Len(ids) -> T]
      BY <2>2, <1>1, Zenon
    <2> HIDE <1>1, <1>2
    <2> QED
      BY <2>3, <1>3
  <1>5. IsInjective(new)
    <2> SUFFICES ASSUME NEW i \in 1..Len(ids), NEW j \in 1..Len(ids), new[i] = new[j]
                 PROVE  i = j
      BY <1>4, Zenon DEF IsInjective
    <2>1. p[i] \in DOMAIN ids /\ p[j] \in DOMAIN ids /\ ids[p[i]] = ids[p[j]]
      BY <1>1, <1>2, <1>3, Zenon
    <2>2. p[i] = p[j]
      BY <2>1, Zenon DEF Vector, IsInjective
    <2> QED
      BY <2>2, <1>2, Zenon
  <1>6. Range(new) = Range(ids)
    <2>1. \A i \in DOMAIN new : p[i] \in DOMAIN ids /\ new[i] = ids[p[i]]
      BY <1>1, <1>2, <1>3, <1>4, Zenon
    <2>2. \A k \in DOMAIN ids : \E i \in DOMAIN new : new[i] = ids[k]
      BY <1>1, <1>2, <1>3, <1>4, Zenon
    <2> QED
      BY <2>1, <2>2 DEF Range
  <1> QED
    BY <1>4, <1>5, <1>6, Zenon DEF Vector

(* What ActivateSynchronizedThreads pushes: the groups' threads, once each.*)
LEMMA ReleasedVector ==
  ASSUME NEW groups, NEW released \in ActivationOrders(groups),
         IsFiniteSet(UNION {g.threads : g \in groups})
  PROVE  LET all == UNION {g.threads : g \in groups}
         IN  Vector(released, all) /\ Range(released) = all
  <1> DEFINE all == UNION {g.threads : g \in groups}
  <1>1. Cardinality(all) \in Nat
    BY FS_CardinalityType, Zenon
  <1>2. /\ released \in [1..Cardinality(all) -> all]
        /\ Range(released) = all
        /\ IsInjective(released)
    BY Zenon DEF ActivationOrders
  <1> HIDE DEF all
  <1>3. released \in Seq(all)
    BY <1>1, <1>2
  <1> QED
    BY <1>2, <1>3, Zenon DEF Vector, all

-----------------------------------------------------------------------------
(* Barriers, scheduled and active threads *)

(* How barriers, scheduled and active threads go together.                 *)
Consistent(barriers, scheduled, active) ==
    /\ barriers \subseteq Barriers(Threads)
    /\ scheduled \subseteq Threads
    /\ active \subseteq scheduled
    /\ \A b \in barriers :
          /\ b.reached \subseteq b.synchronized
          /\ b.unreached = Cardinality((b.synchronized \cap scheduled) \ b.reached)
          /\ b.unreached > 0
    /\ \A b, c \in barriers : b.synchronized = c.synchronized => b = c
    /\ \A t \in scheduled :
          /\ t \notin active => \E b \in barriers : t \in b.reached
          /\ \A b \in barriers : t \in b.reached =>
                /\ t \notin active
                /\ \A c \in barriers : t \in c.reached => c = b

(* Threads of a barrier that are still to come make a finite set.          *)
LEMMA FiniteThreads ==
  ASSUME NEW S \in SUBSET Threads
  PROVE  IsFiniteSet(S) /\ Cardinality(S) \in Nat
  BY ThreadsAssumption, FS_Subset, FS_CardinalityType, Zenon

(* Without a deadlock not every thread waits: all barriers together would  *)
(* be a blocked set.                                                       *)
LEMMA NoDeadLockSomeActive ==
  ASSUME NEW barriers, NEW scheduled, NEW active,
         Consistent(barriers, scheduled, active),
         ~DeadLock(barriers, scheduled, active),
         scheduled # {}
  PROVE  active # {}
  <1> SUFFICES ASSUME active = {} PROVE FALSE
    BY Zenon
  <1>1. barriers # {}
    BY Zenon DEF Consistent
  <1>2. ASSUME NEW b \in barriers
        PROVE  ~(b.synchronized \cap scheduled \subseteq b.reached)
    <2> DEFINE rest == (b.synchronized \cap scheduled) \ b.reached
    <2>1. rest \in SUBSET Threads /\ Cardinality(rest) # 0
      BY DEF Consistent
    <2>2. rest # {}
      BY <2>1, FS_EmptySet, Zenon
    <2> QED
      BY <2>2, Zenon
  <1>3. Blocked(barriers, barriers, scheduled, active)
    BY <1>2, Zenon DEF Blocked
  <1> QED
    BY <1>1, <1>3, Zenon DEF DeadLock

(* AddReachedThread counts right, for a thread t among those to come.      *)
LEMMA CountOneLess ==
  ASSUME NEW S \in SUBSET Threads, NEW t \in S
  PROVE  /\ Cardinality(S) \in Nat
         /\ Cardinality(S) > 0
         /\ Cardinality(S \ {t}) = Cardinality(S) - 1
         /\ Cardinality(S \ {t}) = 0 <=> S \ {t} = {}
  <1>1. IsFiniteSet(S) /\ Cardinality(S) \in Nat /\ IsFiniteSet(S \ {t})
    BY FiniteThreads, Zenon
  <1>2. Cardinality(S \ {t}) = Cardinality(S) - 1
    BY <1>1, FS_RemoveElement, Zenon
  <1>3. Cardinality(S \ {t}) = 0 <=> S \ {t} = {}
    BY <1>1, FS_EmptySet, Zenon
  <1>4. Cardinality(S) # 0
    BY <1>1, FS_EmptySet, Zenon
  <1> QED
    BY <1>1, <1>2, <1>3, <1>4

(* A barrier that is one of the barriers, or may become one.               *)
Fits(barrier, barriers, scheduled) ==
    /\ barrier \in Barriers(Threads)
    /\ barrier.reached \subseteq barrier.synchronized
    /\ barrier.unreached = Cardinality((barrier.synchronized \cap scheduled) \ barrier.reached)
    /\ \/ barrier \in barriers
       \/ /\ barrier.reached = {}
          /\ \A b \in barriers : b.synchronized # barrier.synchronized

(* What follows when t reaches the barrier: its arrival is no error; t     *)
(* waits, or the barrier is gone and all its threads, none of them active  *)
(* before, are active.                                                     *)
Arrives(t, barrier, barriers, scheduled, active) ==
    LET reached == AddReachedThread(barrier, t)
        others  == barriers \ {barrier}
        all     == barrier.synchronized \cap scheduled
    IN  /\ AddReachedThreadError(barrier, t) = NoFailure
        /\ reached.synchronized = barrier.synchronized
        /\ reached.unreached # 0 =>
              Consistent(others \cup {reached}, scheduled, active \ {t})
        /\ reached.unreached = 0 =>
              /\ all \cap (active \ {t}) = {}
              /\ Consistent(others, scheduled, (active \ {t}) \cup all)

(* The thread whose arrival brings the count to 0 is the last one.         *)
LEMMA LastArrival ==
  ASSUME NEW barriers, NEW scheduled, NEW active,
         Consistent(barriers, scheduled, active),
         NEW t \in active,
         NEW barrier, Fits(barrier, barriers, scheduled), t \in barrier.synchronized,
         AddReachedThread(barrier, t).unreached = 0
  PROVE  barrier.synchronized \cap scheduled \subseteq barrier.reached \cup {t}
  <1> DEFINE rest == (barrier.synchronized \cap scheduled) \ barrier.reached
  <1>1. t \in rest
    BY Zenon DEF Consistent, Fits
  <1>2. rest \in SUBSET Threads
    BY Zenon DEF Consistent
  <1>3. barrier.unreached = Cardinality(rest) /\ barrier.unreached - 1 = 0
    BY Zenon DEF Fits, AddReachedThread
  <1> HIDE DEF rest
  <1>4. /\ Cardinality(rest) \in Nat /\ Cardinality(rest \ {t}) = Cardinality(rest) - 1
        /\ Cardinality(rest \ {t}) = 0 => rest \ {t} = {}
    BY <1>1, <1>2, CountOneLess, Zenon
  <1>5. rest \ {t} = {}
    BY <1>3, <1>4, Zenon
  <1> QED
    BY <1>5, Zenon DEF rest

(* SynchronizeWithBarrier: the current thread t arrives at a barrier, that *)
(* exists or is new, and the last one to arrive releases the others.       *)
LEMMA SynchronizeConsistent ==
  ASSUME NEW barriers, NEW scheduled, NEW active,
         Consistent(barriers, scheduled, active),
         NEW t \in active,
         NEW barrier, Fits(barrier, barriers, scheduled), t \in barrier.synchronized
  PROVE  Arrives(t, barrier, barriers, scheduled, active)
  <1> DEFINE S == barrier.synchronized
             reached == AddReachedThread(barrier, t)
             others == barriers \ {barrier}
             all == S \cap scheduled
  <1>0. /\ barrier \in Barriers(Threads)
        /\ barrier.reached \subseteq barrier.synchronized
        /\ barrier.unreached = Cardinality(all \ barrier.reached)
        /\ \/ barrier \in barriers
           \/ /\ barrier.reached = {}
              /\ \A b \in barriers : b.synchronized # barrier.synchronized
    BY Zenon DEF Fits
  <1>1. /\ S \in SUBSET Threads /\ barrier.reached \in SUBSET S
        /\ scheduled \in SUBSET Threads /\ active \subseteq scheduled
        /\ t \in S \cap scheduled
    BY <1>0, Zenon DEF Consistent, Barriers
  <1>2. t \notin barrier.reached /\ \A u \in barrier.reached \cap scheduled : u \notin active
    BY <1>0, <1>1, Zenon DEF Consistent
  <1>3. /\ barrier.unreached \in Nat /\ barrier.unreached > 0
        /\ Cardinality(all \ (barrier.reached \cup {t})) = barrier.unreached - 1
        /\ Cardinality(all \ (barrier.reached \cup {t})) = 0
              <=> all \ (barrier.reached \cup {t}) = {}
    <2> DEFINE old == all \ barrier.reached
    <2>1. old \in SUBSET Threads /\ t \in old
      BY <1>1, <1>2, Zenon
    <2>2. all \ (barrier.reached \cup {t}) = old \ {t}
      BY Zenon
    <2>3. barrier.unreached = Cardinality(old)
      BY <1>0, Zenon
    <2> HIDE DEF old
    <2> QED
      BY <2>1, <2>2, <2>3, CountOneLess
  <1>4. AddReachedThreadError(barrier, t) = NoFailure
    BY <1>2, <1>3 DEF AddReachedThreadError, NoFailure
  <1>5. /\ reached.synchronized = S
        /\ reached.reached = barrier.reached \cup {t}
        /\ reached.unreached = Cardinality(all \ reached.reached)
        /\ reached \in [synchronized : SUBSET Threads, reached : SUBSET Threads, unreached : Nat]
    BY <1>1, <1>3 DEF AddReachedThread
  <1>6. \A b \in others : b.synchronized # S /\ b \in barriers
    BY <1>0, Zenon DEF Consistent
  <1>7. \A u \in barrier.reached \cap scheduled : \A b \in others : u \notin b.reached
    BY <1>0, Zenon DEF Consistent
  <1>8. \A b \in others : t \notin b.reached
    BY <1>1, <1>6, Zenon DEF Consistent
  <1> HIDE DEF reached
  <1>9. ASSUME reached.unreached # 0
        PROVE  Consistent(others \cup {reached}, scheduled, active \ {t})
    <2> DEFINE new == others \cup {reached}
    <2>1. \A b \in new :
            /\ b \in Barriers(Threads)
            /\ b.reached \subseteq b.synchronized
            /\ b.unreached = Cardinality((b.synchronized \cap scheduled) \ b.reached)
            /\ b.unreached > 0
      <3>1. \A b \in others :
              /\ b \in Barriers(Threads)
              /\ b.reached \subseteq b.synchronized
              /\ b.unreached = Cardinality((b.synchronized \cap scheduled) \ b.reached)
              /\ b.unreached > 0
        BY Zenon DEF Consistent
      <3>2. /\ reached \in Barriers(Threads)
            /\ reached.reached \subseteq reached.synchronized
            /\ reached.unreached = Cardinality((reached.synchronized \cap scheduled) \ reached.reached)
            /\ reached.unreached > 0
        BY <1>1, <1>5, <1>9 DEF Barriers
      <3> QED
        BY <3>1, <3>2, Zenon
    <2>2. \A b, c \in new : b.synchronized = c.synchronized => b = c
      BY <1>5, <1>6, Zenon DEF Consistent
    <2>3. \A u \in scheduled : u \notin active \ {t} => \E b \in new : u \in b.reached
      BY <1>0, <1>5, Zenon DEF Consistent
    <2>4. \A u \in scheduled : \A b \in new : u \in b.reached =>
            /\ u \notin active \ {t}
            /\ \A c \in new : u \in c.reached => c = b
      BY <1>1, <1>2, <1>5, <1>6, <1>7, <1>8 DEF Consistent
    <2> HIDE DEF new
    <2>5. scheduled \subseteq Threads /\ active \ {t} \subseteq scheduled
      BY <1>1, Zenon
    <2>6. Consistent(new, scheduled, active \ {t})
      BY <2>1, <2>2, <2>3, <2>4, <2>5, Zenon DEF Consistent
    <2> QED
      BY <2>6, Zenon DEF new
  <1>10. ASSUME reached.unreached = 0
         PROVE  /\ all \cap (active \ {t}) = {}
                /\ Consistent(others, scheduled, (active \ {t}) \cup all)
    <2>1. all \subseteq barrier.reached \cup {t}
      BY <1>3, <1>5, <1>10, Zenon
    <2>2. all \cap (active \ {t}) = {}
      BY <2>1, <1>2, Zenon
    <2>3. \A u \in scheduled :
            u \notin (active \ {t}) \cup all => \E b \in others : u \in b.reached
      BY <1>0, <1>1, Zenon DEF Consistent
    <2>4. \A u \in scheduled : \A b \in others : u \in b.reached =>
            /\ u \notin (active \ {t}) \cup all
            /\ \A c \in others : u \in c.reached => c = b
      BY <2>1, <1>7, <1>8 DEF Consistent
    <2>5. \A b \in others :
            /\ b \in Barriers(Threads)
            /\ b.reached \subseteq b.synchronized
            /\ b.unreached = Cardinality((b.synchronized \cap scheduled) \ b.reached)
            /\ b.unreached > 0
      BY Zenon DEF Consistent
    <2>6. \A b, c \in others : b.synchronized = c.synchronized => b = c
      BY Zenon DEF Consistent
    <2>7. (active \ {t}) \cup all \subseteq scheduled
      BY <1>1, Zenon
    <2> HIDE DEF others, all
    <2>8. Consistent(others, scheduled, (active \ {t}) \cup all)
      BY <1>1, <2>3, <2>4, <2>5, <2>6, <2>7, Zenon DEF Consistent
    <2> QED
      BY <2>2, <2>8, Zenon
  <1> QED
    BY <1>4, <1>5, <1>9, <1>10, Zenon DEF reached, Arrives

(* What follows when t ends: its arrivals are no errors, the threads of    *)
(* the released barriers, none of them active before, are active.          *)
Ends(t, barriers, scheduled, active) ==
    LET part    == GetParticipatingBarriers(barriers, t)
        reached == {AddReachedThread(b, t) : b \in part}
        done    == {b \in reached : b.unreached = 0}
        left    == (barriers \ part) \cup (reached \ done)
        groups  == ReleasedGroups(done, scheduled \ {t})
        all     == UNION {g.threads : g \in groups}
    IN  /\ \A b \in part : AddReachedThreadError(b, t) = NoFailure
        /\ \A g \in groups :
              g.threads \cap (active \ {t}) = {} /\ g.threads \subseteq scheduled \ {t}
        /\ \A g, h \in groups : g # h => g.threads \cap h.threads = {}
        /\ Consistent(left, scheduled \ {t}, (active \ {t}) \cup all)

(* RemoveThreadId: the current thread t ends, which counts as its arrival  *)
(* at every barrier it takes part in.                                      *)
LEMMA RemoveConsistent ==
  ASSUME NEW barriers, NEW scheduled, NEW active,
         Consistent(barriers, scheduled, active),
         NEW t \in active
  PROVE  Ends(t, barriers, scheduled, active)
  <1> DEFINE part    == GetParticipatingBarriers(barriers, t)
             rest    == scheduled \ {t}
             Add(b)  == AddReachedThread(b, t)
             reached == {Add(b) : b \in part}
             done    == {b \in reached : b.unreached = 0}
             left    == (barriers \ part) \cup (reached \ done)
             groups  == ReleasedGroups(done, rest)
             all     == UNION {g.threads : g \in groups}
  <1>1. t \in scheduled /\ active \subseteq scheduled /\ scheduled \subseteq Threads
    BY Zenon DEF Consistent
  <1>2. \A b \in part : b \in barriers /\ t \in b.synchronized
    BY Zenon DEF GetParticipatingBarriers
  <1>3. \A b \in barriers : t \notin b.reached
    BY <1>1, Zenon DEF Consistent
  <1>4. ASSUME NEW b \in part
        PROVE  /\ b.unreached \in Nat /\ b.unreached > 0
               /\ Add(b).synchronized = b.synchronized
               /\ Add(b).reached = b.reached \cup {t}
               /\ Add(b).unreached = b.unreached - 1
               /\ Add(b).unreached = Cardinality((b.synchronized \cap rest) \ Add(b).reached)
               /\ Add(b).unreached = 0 => b.synchronized \cap rest \subseteq b.reached
               /\ Add(b) \in Barriers(Threads)
               /\ Add(b).reached \subseteq Add(b).synchronized
    <2> DEFINE old == (b.synchronized \cap scheduled) \ b.reached
    <2>1. /\ b \in Barriers(Threads) /\ b.reached \subseteq b.synchronized
          /\ b.unreached = Cardinality(old)
      BY <1>2, Zenon DEF Consistent
    <2>2. /\ b.synchronized \in SUBSET Threads /\ b.reached \in SUBSET Threads
          /\ t \in Threads /\ t \in b.synchronized
      BY <2>1, <1>1, <1>2, Zenon DEF Barriers
    <2>3. old \in SUBSET Threads /\ t \in old
      BY <2>2, <1>1, <1>2, <1>3, Zenon
    <2>4. old \ {t} = (b.synchronized \cap rest) \ (b.reached \cup {t})
      BY Zenon
    <2>5. old \ {t} = {} => b.synchronized \cap rest \subseteq b.reached
      BY Zenon
    <2>6. /\ Cardinality(old) \in Nat /\ Cardinality(old) > 0
          /\ Cardinality(old \ {t}) = Cardinality(old) - 1
          /\ Cardinality(old \ {t}) = 0 <=> old \ {t} = {}
      <3> HIDE DEF old
      <3> QED
        BY <2>3, CountOneLess, Zenon
    <2>7. /\ Add(b).synchronized = b.synchronized
          /\ Add(b).reached = b.reached \cup {t}
          /\ Add(b).unreached = b.unreached - 1
          /\ Add(b) = [synchronized |-> b.synchronized, reached |-> b.reached \cup {t},
                       unreached |-> b.unreached - 1]
      BY Zenon DEF AddReachedThread
    <2> HIDE DEF old, Add, rest
    <2>8. b.unreached \in Nat /\ b.unreached > 0 /\ b.unreached - 1 \in Nat
      BY <2>1, <2>6
    <2>9. Add(b) \in Barriers(Threads)
      BY <2>2, <2>7, <2>8, Zenon DEF Barriers
    <2> QED
      BY <2>1, <2>2, <2>4, <2>5, <2>6, <2>7, <2>8, <2>9, Zenon
  <1> HIDE DEF Add
  <1>5. \A b \in part : AddReachedThreadError(b, t) = NoFailure
    <2> SUFFICES ASSUME NEW b \in part PROVE AddReachedThreadError(b, t) = NoFailure
      BY Zenon
    <2>1. t \in b.synchronized /\ t \notin b.reached
      BY <1>2, <1>3, Zenon
    <2>2. b.unreached \in Nat /\ b.unreached > 0
      BY <1>4, Zenon
    <2>3. b.unreached # 0
      BY <2>2
    <2> QED
      BY <2>1, <2>3, Zenon DEF AddReachedThreadError, NoFailure
  <1>6. \A g \in groups : \E b \in part :
           /\ Add(b).unreached = 0
           /\ g = [barrier |-> Add(b), threads |-> b.synchronized \cap rest]
           /\ g.threads = b.synchronized \cap rest
           /\ g.threads \subseteq b.reached
    <2> SUFFICES ASSUME NEW g \in groups
                 PROVE  \E b \in part :
                           /\ Add(b).unreached = 0
                           /\ g = [barrier |-> Add(b), threads |-> b.synchronized \cap rest]
                           /\ g.threads = b.synchronized \cap rest
                           /\ g.threads \subseteq b.reached
      BY Zenon
    <2>1. PICK r \in done : g = [barrier |-> r, threads |-> r.synchronized \cap rest]
      BY Zenon DEF ReleasedGroups
    <2>2. PICK b \in part : r = Add(b) /\ Add(b).unreached = 0
      BY <2>1, Zenon
    <2>3. Add(b).synchronized = b.synchronized /\ b.synchronized \cap rest \subseteq b.reached
      BY <2>2, <1>4, Zenon
    <2> QED
      BY <2>1, <2>2, <2>3, Zenon
  <1>7. \A g \in groups : g.threads \cap (active \ {t}) = {} /\ g.threads \subseteq rest
    BY <1>1, <1>2, <1>6 DEF Consistent
  <1>8. \A g, h \in groups : g # h => g.threads \cap h.threads = {}
    <2> SUFFICES ASSUME NEW g \in groups, NEW h \in groups, NEW u,
                        u \in g.threads, u \in h.threads
                 PROVE  g = h
      BY Zenon
    <2>1. PICK b \in part : /\ g = [barrier |-> Add(b), threads |-> b.synchronized \cap rest]
                            /\ g.threads \subseteq b.reached
      BY <1>6, Zenon
    <2>2. PICK c \in part : /\ h = [barrier |-> Add(c), threads |-> c.synchronized \cap rest]
                            /\ h.threads \subseteq c.reached
      BY <1>6, Zenon
    <2>3. u \in scheduled /\ u \in b.reached /\ u \in c.reached
      BY <1>7, <2>1, <2>2, Zenon
    <2>4. b = c
      BY <2>3, <1>2, Zenon DEF Consistent
    <2> QED
      BY <2>1, <2>2, <2>4, Zenon
  <1>9. \A u \in all : \E b \in part :
           /\ Add(b).unreached = 0
           /\ u \in b.synchronized \cap rest
           /\ u \in b.reached
    BY <1>6, Zenon
  <1>10. \A b \in part : Add(b).unreached = 0 => b.synchronized \cap rest \subseteq all
    <2> SUFFICES ASSUME NEW b \in part, Add(b).unreached = 0, NEW u \in b.synchronized \cap rest
                 PROVE  u \in all
      BY Zenon
    <2> DEFINE g == [barrier |-> Add(b), threads |-> b.synchronized \cap rest]
    <2>1. g \in groups
      BY <1>4, Zenon DEF ReleasedGroups
    <2>2. u \in g.threads
      BY Zenon
    <2> QED
      BY <2>1, <2>2, Zenon
  <1>11. \A b \in left :
           \/ b \in barriers /\ t \notin b.synchronized
           \/ \E c \in part : b = Add(c) /\ Add(c).unreached # 0
    BY Zenon DEF GetParticipatingBarriers
  <1>12. \A b \in part : Add(b).unreached # 0 => Add(b) \in left
    BY Zenon
  <1>13. \A b \in barriers : b \notin part => b \in left
    BY Zenon
  <1> HIDE DEF left, groups, all
  <1>14. \A b \in left :
           /\ b \in Barriers(Threads)
           /\ b.reached \subseteq b.synchronized
           /\ b.unreached = Cardinality((b.synchronized \cap rest) \ b.reached)
           /\ b.unreached > 0
    <2> SUFFICES ASSUME NEW b \in left
                 PROVE  /\ b \in Barriers(Threads)
                        /\ b.reached \subseteq b.synchronized
                        /\ b.unreached = Cardinality((b.synchronized \cap rest) \ b.reached)
                        /\ b.unreached > 0
      BY Zenon
    <2>1. CASE b \in barriers /\ t \notin b.synchronized
      <3>1. b.synchronized \cap rest = b.synchronized \cap scheduled
        BY <2>1, Zenon
      <3> QED
        BY <2>1, <3>1, Zenon DEF Consistent
    <2>2. CASE \E c \in part : b = Add(c) /\ Add(c).unreached # 0
      <3>1. PICK c \in part : b = Add(c) /\ Add(c).unreached # 0
        BY <2>2, Zenon
      <3>2. /\ c.unreached \in Nat /\ c.unreached > 0 /\ b.unreached = c.unreached - 1
            /\ b.synchronized = c.synchronized
            /\ b.unreached = Cardinality((c.synchronized \cap rest) \ b.reached)
            /\ b \in Barriers(Threads) /\ b.reached \subseteq b.synchronized
        BY <3>1, <1>4, Zenon
      <3> QED
        BY <3>1, <3>2
    <2> QED
      BY <2>1, <2>2, <1>11, Zenon
  (* The barrier of the old ones that b of left comes from.                *)
  <1> DEFINE Old(b) == CHOOSE c \in barriers : c.synchronized = b.synchronized
  <1>15. \A b \in left :
           /\ Old(b) \in barriers
           /\ Old(b).synchronized = b.synchronized
           /\ b = IF t \in b.synchronized THEN Add(Old(b)) ELSE Old(b)
           /\ b.reached \ {t} = Old(b).reached \ {t}
    <2> SUFFICES ASSUME NEW b \in left
                 PROVE  \E c \in barriers :
                           /\ c.synchronized = b.synchronized
                           /\ b = IF t \in b.synchronized THEN Add(c) ELSE c
                           /\ b.reached \ {t} = c.reached \ {t}
      BY DEF Consistent
    <2>1. CASE b \in barriers /\ t \notin b.synchronized
      BY <2>1, Zenon
    <2>2. CASE \E c \in part : b = Add(c) /\ Add(c).unreached # 0
      <3>1. PICK c \in part : b = Add(c)
        BY <2>2, Zenon
      <3>2. c \in barriers /\ t \in c.synchronized
        BY <1>2, Zenon
      <3>3. b.synchronized = c.synchronized /\ b.reached = c.reached \cup {t}
        BY <3>1, <1>4, Zenon
      <3> QED
        BY <3>1, <3>2, <3>3, Zenon
    <2> QED
      BY <2>1, <2>2, <1>11, Zenon
  <1> HIDE DEF Old
  <1>16. \A b, c \in left : b.synchronized = c.synchronized => b = c
    BY <1>15 DEF Consistent
  <1>17. \A u \in rest : u \notin (active \ {t}) \cup all => \E b \in left : u \in b.reached
    <2> SUFFICES ASSUME NEW u \in rest, u \notin (active \ {t}) \cup all
                 PROVE  \E b \in left : u \in b.reached
      BY Zenon
    <2>1. PICK b \in barriers : u \in b.reached
      BY Zenon DEF Consistent
    <2>2. u \in b.synchronized
      BY <2>1, Zenon DEF Consistent
    <2>3. CASE b \in part
      BY <2>1, <2>2, <2>3, <1>4, <1>10, <1>12, Zenon
    <2>4. CASE b \notin part
      BY <2>1, <2>4, <1>13, Zenon
    <2> QED
      BY <2>3, <2>4, Zenon
  <1>18. \A u \in rest : \A b \in left : u \in b.reached =>
           /\ u \notin (active \ {t}) \cup all
           /\ \A c \in left : u \in c.reached => c = b
    <2> SUFFICES ASSUME NEW u \in rest, NEW b \in left, u \in b.reached
                 PROVE  /\ u \notin active
                        /\ u \notin all
                        /\ \A c \in left : u \in c.reached => c = b
      BY Zenon
    <2>1. u \in scheduled /\ Old(b) \in barriers /\ u \in Old(b).reached
      BY <1>15, Zenon
    <2>2. u \notin active
      BY <2>1, Zenon DEF Consistent
    <2>3. \A c \in left : u \in c.reached => c = b
      <3> SUFFICES ASSUME NEW c \in left, u \in c.reached PROVE c = b
        BY Zenon
      <3>1. Old(c) \in barriers /\ u \in Old(c).reached
        BY <1>15, Zenon
      <3>2. Old(c) = Old(b)
        BY <2>1, <3>1, Zenon DEF Consistent
      <3>3. c.synchronized = b.synchronized
        BY <3>2, <1>15, Zenon
      <3> QED
        BY <3>3, <1>16, Zenon
    <2>4. u \notin all
      <3> SUFFICES ASSUME u \in all PROVE FALSE
        BY Zenon
      <3>1. PICK c \in part : Add(c).unreached = 0 /\ u \in c.reached
        BY <1>9, Zenon
      <3>2. c = Old(b)
        BY <3>1, <2>1, <1>2, Zenon DEF Consistent
      <3>3. b = Add(c)
        BY <3>2, <1>2, <1>15, Zenon
      <3>4. b.unreached > 0
        BY <1>14, Zenon
      <3> QED
        BY <3>1, <3>3, <3>4
    <2> QED
      BY <2>2, <2>3, <2>4, Zenon
  <1>19. (active \ {t}) \cup all \subseteq rest /\ rest \subseteq Threads
    BY <1>1, <1>9, Zenon
  <1>20. Consistent(left, rest, (active \ {t}) \cup all)
    <2> HIDE DEF rest
    <2> QED
      BY <1>14, <1>16, <1>17, <1>18, <1>19, Zenon DEF Consistent
  <1> QED
    BY <1>5, <1>7, <1>8, <1>20, Zenon DEF left, groups, all, Add, Ends

-----------------------------------------------------------------------------
(* The inductive invariant: the properties need each other.                *)
IInv ==
    /\ TypeOK
    /\ UnreachedCountExact
    /\ InactiveWaitsAtOneBarrier
    /\ CurrentThreadCanRun
    /\ LockHolderIsCurrent
    /\ NextIndexPositive
    /\ NoInternalFailure
    /\ SchedulerConsistent

(* The same, sorted by the variables a call changes: barriers and threads, *)
(* the schedule lock, and where the turns have got.                        *)
BarriersPart ==
    /\ Consistent(mBarriers, mThreadIds, Range(mActiveThreadIds))
    /\ Vector(mActiveThreadIds, mThreadIds)
    /\ ~DeadLock(mBarriers, mThreadIds, Range(mActiveThreadIds))

LockPart ==
    /\ mState \in ESchedulingState
    /\ mLockingState \in ESchedulingState
    /\ mLockingState # "Locked"
    /\ mLockingLevel \in Nat
    /\ mLockingThreadId \in Threads \cup {NoThread}
    /\ mState = "Locked" =>
          /\ mLockingLevel > 0
          /\ mLockingThreadId = mCurrentThreadId
          /\ mCurrentThreadId \in mThreadIds
    /\ mLockingThreadId \in mThreadIds => mState = "Locked"

TurnPart ==
    /\ mCurrentThreadId \in Threads \cup {NoThread, 0}
    /\ mNextIndex \in Nat
    /\ phase \in Phases
    /\ failure \in {NoFailure} \cup RequestFailures
    /\ phase = "failed" <=> failure # NoFailure
    /\ phase = "setup" => mBarriers = {} /\ mState = "Random" /\ mLockingThreadId = NoThread
    /\ phase = "synced" => mState # "Locked"
    /\ phase \in {"open", "synced"} => mCurrentThreadId \in mThreadIds
    /\ phase \in {"stopped", "destroyed"} => mThreadIds = {}
    /\ phase \in {"idle", "open", "synced"} /\ mThreadIds # {} => mNextIndex > 0
    /\ phase \in {"idle", "open"} /\ mThreadIds # {} =>
          mCurrentThreadId \in Range(mActiveThreadIds)

Parts == BarriersPart /\ LockPart /\ TurnPart

(* Failures a request can cause are not internal ones.                     *)
LEMMA FailuresDiffer ==
  ({NoFailure} \cup RequestFailures) \cap InternalFailures = {} /\ NoFailure \notin RequestFailures
  BY Zenon DEF NoFailure, RequestFailures, InternalFailures

(* The two forms of the invariant are the same.                            *)
LEMMA PartsAreIInv == Parts <=> IInv
  <1>1. ASSUME Parts PROVE IInv
    <2>1. mThreadIds \subseteq Threads /\ mBarriers \subseteq Barriers(Threads)
      BY <1>1, Zenon DEF Parts, BarriersPart, Consistent
    <2>2. TypeOK
      BY <1>1, <2>1, Zenon DEF Parts, BarriersPart, LockPart, TurnPart, TypeOK, Vector
    <2>3. UnreachedCountExact /\ InactiveWaitsAtOneBarrier
      BY Zenon, <1>1 DEF Parts, BarriersPart, Consistent, UnreachedCountExact,
                  InactiveWaitsAtOneBarrier, Active
    <2>4. CurrentThreadCanRun /\ LockHolderIsCurrent /\ NextIndexPositive /\ NoInternalFailure
      BY <1>1, FailuresDiffer, Zenon DEF Parts, LockPart, TurnPart, CurrentThreadCanRun, LockHolderIsCurrent,
                  NextIndexPositive, NoInternalFailure, Running, Active
    <2>5. /\ IsInjective(mActiveThreadIds)
          /\ \A b \in mBarriers : b.reached \subseteq b.synchronized
          /\ \A b, c \in mBarriers : b.synchronized = c.synchronized => b = c
          /\ ~DeadLock(mBarriers, mThreadIds, Active)
      BY <1>1, Zenon DEF Parts, BarriersPart, Consistent, Vector, Active
    <2>6. SchedulerConsistent
      BY <1>1, <2>5, Zenon DEF Parts, LockPart, TurnPart, SchedulerConsistent
    <2> QED
      BY <2>2, <2>3, <2>4, <2>6, Zenon DEF IInv
  <1>2. ASSUME IInv PROVE Parts
    <2>1. Range(mActiveThreadIds) \subseteq mThreadIds
      BY <1>2 DEF IInv, TypeOK, Range
    <2>2. Consistent(mBarriers, mThreadIds, Range(mActiveThreadIds))
      BY <1>2, <2>1, Zenon DEF IInv, TypeOK, UnreachedCountExact, InactiveWaitsAtOneBarrier,
                        SchedulerConsistent, Consistent, Active
    <2>3. BarriersPart
      BY <1>2, <2>2, Zenon DEF IInv, TypeOK, SchedulerConsistent, BarriersPart, Vector, Active
    <2>4. LockPart
      BY <1>2, Zenon DEF IInv, TypeOK, SchedulerConsistent, LockHolderIsCurrent, LockPart
    <2>5. TurnPart
      BY <1>2, Zenon DEF IInv, TypeOK, SchedulerConsistent, CurrentThreadCanRun, NextIndexPositive,
                  NoInternalFailure, TurnPart, Running, Active
    <2> QED
      BY <2>3, <2>4, <2>5, Zenon DEF Parts
  <1> QED
    BY <1>1, <1>2, Zenon

(* All hold before the first thread is added.                              *)
LEMMA PartsInit == Init => Parts
  <1> SUFFICES ASSUME Init PROVE Parts
    BY Zenon
  <1>1. /\ mBarriers = {} /\ mThreadIds = {} /\ mActiveThreadIds = <<>>
        /\ mState = "Random" /\ mLockingState = "Random" /\ mLockingLevel = 0
        /\ mLockingThreadId = NoThread /\ mCurrentThreadId = NoThread /\ mNextIndex = 0
        /\ phase = "setup" /\ failure = NoFailure
    BY Zenon DEF Init, SchedulerInit, StrategyInit
  <1>2. Range(mActiveThreadIds) = {}
    BY <1>1 DEF Range
  <1>3. BarriersPart
    <2>1. Consistent({}, {}, {}) /\ ~DeadLock({}, {}, {})
      BY Zenon DEF Consistent, DeadLock
    <2>2. Vector(<<>>, {})
      BY DEF Vector, IsInjective
    <2> QED
      BY <1>1, <1>2, <2>1, <2>2, Zenon DEF BarriersPart
  <1>4. LockPart
    BY <1>1, ThreadsAssumption, Zenon DEF LockPart, ESchedulingState
  <1>5. TurnPart
    BY <1>1, Zenon DEF TurnPart, Phases
  <1> QED
    BY <1>3, <1>4, <1>5, Zenon DEF Parts

(* A call that FAILs leaves the scheduler as it was and ends the process.  *)
LEMMA FailKeepsParts ==
  ASSUME Parts, UNCHANGED <<strategyVars, mBarriers>>, phase' = "failed",
         failure' \in RequestFailures
  PROVE  Parts'
  <1>1. BarriersPart'
    BY Zenon DEF Parts, BarriersPart, strategyVars
  <1>2. LockPart'
    BY Zenon DEF Parts, LockPart, strategyVars
  <1>3. TurnPart'
    BY FailuresDiffer, Zenon DEF Parts, TurnPart, strategyVars, Phases
  <1> QED
    BY <1>1, <1>2, <1>3, Zenon DEF Parts

(* A step that changes the phase only, to one that says no more of the     *)
(* state than is known.                                                    *)
LEMMA PhaseKeepsParts ==
  ASSUME Parts, UNCHANGED <<strategyVars, mBarriers, failure>>,
         phase' \in Phases \ {"setup", "synced", "failed"}, phase # "failed",
         phase' \in {"idle", "open"} => phase \in {"idle", "open"},
         phase' = "open" => mCurrentThreadId \in mThreadIds,
         phase' \in {"stopped", "destroyed"} => mThreadIds = {}
  PROVE  Parts'
  <1>1. BarriersPart'
    BY Zenon DEF Parts, BarriersPart, strategyVars
  <1>2. LockPart'
    BY Zenon DEF Parts, LockPart, strategyVars
  <1>3. TurnPart'
    BY Zenon DEF Parts, TurnPart, strategyVars, Phases
  <1> QED
    BY <1>1, <1>2, <1>3, Zenon DEF Parts

-----------------------------------------------------------------------------
(* The steps *)

(* AddThreadId, before the schedule starts.                                *)
LEMMA SetupKeepsParts ==
  ASSUME Parts, NEW t \in Threads, Setup(t)
  PROVE  Parts'
  <1>1. /\ phase = "setup" /\ phase' = "setup" /\ failure' = failure
        /\ mBarriers = {} /\ mBarriers' = {}
        /\ mThreadIds' = mThreadIds \cup {t}
        /\ mActiveThreadIds' = IF t \in mThreadIds THEN mActiveThreadIds
                                                   ELSE Append(mActiveThreadIds, t)
        /\ UNCHANGED <<mState, mCurrentThreadId, mNextIndex, mLockingState, mLockingLevel,
                       mLockingThreadId>>
    BY Zenon DEF Parts, TurnPart, Setup, AddThreadId, AddThread, lockVars
  <1>2. /\ Vector(mActiveThreadIds, mThreadIds)
        /\ Range(mActiveThreadIds) = mThreadIds /\ mThreadIds \subseteq Threads
    BY <1>1, Zenon DEF Parts, BarriersPart, Consistent
  <1>3. Vector(mActiveThreadIds', mThreadIds') /\ Range(mActiveThreadIds') = mThreadIds'
    <2>1. CASE t \in mThreadIds
      <3>1. mThreadIds' = mThreadIds /\ mActiveThreadIds' = mActiveThreadIds
        BY <2>1, <1>1, Zenon
      <3> QED
        BY <3>1, <1>2, Zenon
    <2>2. CASE t \notin mThreadIds
      <3>1. Vector(mActiveThreadIds, mThreadIds')
        BY <1>1, <1>2 DEF Vector
      <3> QED
        BY <2>2, <3>1, <1>1, <1>2, AppendVector
    <2> QED
      BY <2>1, <2>2, Zenon
  <1>4. BarriersPart'
    <2>1. Consistent({}, mThreadIds', mThreadIds')
      BY <1>1, <1>2, Zenon DEF Consistent
    <2>2. ~DeadLock({}, mThreadIds', mThreadIds')
      BY Zenon DEF DeadLock
    <2> QED
      BY <1>1, <1>3, <2>1, <2>2, Zenon DEF BarriersPart
  <1>5. LockPart'
    BY <1>1, ThreadsAssumption, Zenon DEF Parts, LockPart, TurnPart
  <1>6. TurnPart'
    BY <1>1, Zenon DEF Parts, TurnPart
  <1> QED
    BY <1>4, <1>5, <1>6, Zenon DEF Parts

(* What a call of NextThread that chooses a thread does.                   *)
LEMMA NextThreadChooses ==
  ASSUME NEW T, NEW state, state # "Locked", NEW ids, Vector(ids, T), ids # <<>>,
         NEW index \in Nat, NextThreadFrom(state, ids, index)
  PROVE  /\ Vector(mActiveThreadIds', T)
         /\ Range(mActiveThreadIds') = Range(ids)
         /\ mCurrentThreadId' \in Range(ids)
         /\ mNextIndex' \in Nat /\ mNextIndex' > 0
  <1>0. Len(ids) \in Nat /\ Len(ids) > 0 /\ DOMAIN ids = 1..Len(ids)
    BY DEF Vector
  <1>1. CASE index < Len(ids) /\ SimpleNextThread(ids, index)
    <2>1. /\ mActiveThreadIds' = ids /\ mCurrentThreadId' = ids[index + 1]
          /\ mNextIndex' = index + 1 /\ index + 1 \in DOMAIN ids
      BY <1>0, <1>1 DEF SimpleNextThread
    <2> QED
      BY <2>1 DEF Range
  <1>2. CASE \E shuffled \in Shuffles(ids) : SimpleNextThread(shuffled, 0)
    <2>1. PICK shuffled \in Shuffles(ids) :
                 /\ mActiveThreadIds' = shuffled
                 /\ mCurrentThreadId' = shuffled[1]
                 /\ mNextIndex' = 1
      BY <1>2 DEF SimpleNextThread
    <2>2. Vector(shuffled, T) /\ Range(shuffled) = Range(ids) /\ Len(shuffled) = Len(ids)
      BY ShuffleVector, Zenon
    <2>3. 1 \in DOMAIN shuffled
      BY <2>2, <1>0 DEF Vector
    <2>4. shuffled[1] \in Range(shuffled)
      BY <2>3, Zenon DEF Range
    <2> QED
      BY <2>1, <2>2, <2>4
  <1> QED
    BY <1>1, <1>2, Zenon DEF NextThreadFrom

(* RefreshSchedule, with at least one thread.                              *)
LEMMA StartKeepsParts ==
  ASSUME Parts, Start
  PROVE  Parts'
  <1>1. /\ phase = "setup" /\ mThreadIds = Threads /\ mBarriers = {}
        /\ failure = NoFailure
    BY Zenon DEF Parts, TurnPart, Start
  <1>2. Range(mActiveThreadIds) = Threads /\ Vector(mActiveThreadIds, Threads)
    BY <1>1, Zenon DEF Parts, BarriersPart, Consistent
  <1>3. mActiveThreadIds # <<>>
    BY <1>2, ThreadsAssumption, RangeEmpty, Zenon DEF Vector
  <1>4. /\ RefreshSchedule
        /\ mBarriers' = mBarriers /\ failure' = NoFailure /\ phase' = "idle"
    BY <1>1, <1>3, Zenon DEF Start, StartSchedule, RefreshScheduleError, EnterPhase, NoFailure
  <1>5. PICK shuffled \in Shuffles(mActiveThreadIds) :
               /\ mActiveThreadIds' = shuffled
               /\ mCurrentThreadId' = shuffled[1]
               /\ mNextIndex' = 1
    BY <1>4 DEF RefreshSchedule, SimpleNextThread
  <1>6. UNCHANGED <<mState, mThreadIds, mLockingState, mLockingLevel, mLockingThreadId>>
    BY <1>4, Zenon DEF RefreshSchedule, lockVars
  <1>7. /\ Vector(mActiveThreadIds', Threads) /\ Range(mActiveThreadIds') = Threads
        /\ Len(shuffled) = Len(mActiveThreadIds)
    BY <1>2, <1>5, ShuffleVector, Zenon
  <1>8. mCurrentThreadId' \in Threads
    <2>1. 1 \in DOMAIN shuffled
      BY <1>2, <1>3, <1>5, <1>7 DEF Vector
    <2> QED
      BY <2>1, <1>5, <1>7, Zenon DEF Range
  <1>9. BarriersPart'
    BY <1>1, <1>2, <1>4, <1>6, <1>7, Zenon DEF Parts, BarriersPart
  <1>10. LockPart'
    BY <1>1, <1>6, Zenon DEF Parts, LockPart, TurnPart
  <1>11. TurnPart'
    BY <1>1, <1>4, <1>5, <1>6, <1>7, <1>8 DEF TurnPart, Phases
  <1> QED
    BY <1>9, <1>10, <1>11, Zenon DEF Parts

(* The barrier SynchronizeWithBarrier finds or creates.                    *)
LEMMA CurrentBarrierFacts ==
  ASSUME Parts, NEW S \in SUBSET Threads
  PROVE  /\ Fits(CurrentBarrier(S), mBarriers, mThreadIds)
         /\ CurrentBarrier(S).synchronized = S
         /\ CreateSynchronizeBarrierError(S, CurrentBarrier(S).unreached) = NoFailure
  <1> DEFINE barrier == CurrentBarrier(S)
  <1>1. Fits(barrier, mBarriers, mThreadIds) /\ barrier.synchronized = S
    <2>1. CASE Query(mBarriers, S) # {}
      <3>1. barrier \in mBarriers /\ barrier.synchronized = S
        BY <2>1, Zenon DEF CurrentBarrier, Query
      <3> QED
        BY <3>1, Zenon DEF Parts, BarriersPart, Consistent, Fits
    <2>2. CASE Query(mBarriers, S) = {}
      <3> DEFINE n == Cardinality(mThreadIds \cap S)
      <3>1. n \in Nat
        BY FiniteThreads, Zenon
      <3>2. barrier = [synchronized |-> S, reached |-> {}, unreached |-> n]
        BY <2>2, Zenon DEF CurrentBarrier, CreateSynchronizeBarrier
      <3>3. n = Cardinality((S \cap mThreadIds) \ {})
        <4>1. mThreadIds \cap S = (S \cap mThreadIds) \ {}
          BY Zenon
        <4> QED BY <4>1, Zenon
      <3> HIDE DEF n, barrier
      <3>4. barrier \in Barriers(Threads)
        BY <3>1, <3>2, Zenon DEF Barriers
      <3> QED
        BY <2>2, <3>2, <3>3, <3>4, Zenon DEF Query, Fits
    <2> QED
      BY <2>1, <2>2, Zenon
  <1> HIDE DEF barrier
  <1>2. CreateSynchronizeBarrierError(S, barrier.unreached) = NoFailure
    <2> DEFINE rest == (S \cap mThreadIds) \ barrier.reached
    <2>1. IsFiniteSet(S) /\ Cardinality(S) \in Nat /\ rest \in SUBSET S
      BY FiniteThreads, Zenon
    <2>2. Cardinality(rest) \in Nat
      BY FiniteThreads, Zenon
    <2>3. Cardinality(rest) <= Cardinality(S)
      <3> HIDE DEF rest
      <3> QED BY <2>1, FS_Subset, Zenon
    <2>4. barrier.unreached = Cardinality(rest)
      BY <1>1, Zenon DEF Fits
    <2> HIDE DEF rest
    <2>5. ~(barrier.unreached > Cardinality(S))
      BY <2>1, <2>2, <2>3, <2>4
    <2> QED
      BY <2>5, Zenon DEF CreateSynchronizeBarrierError, NoFailure
  <1> QED
    BY <1>1, <1>2, Zenon DEF barrier

(* In a turn of its own a thread is scheduled and active.                  *)
LEMMA OpenTurn ==
  ASSUME Parts, phase = "open"
  PROVE  /\ mCurrentThreadId \in Range(mActiveThreadIds)
         /\ mCurrentThreadId \in mThreadIds
         /\ failure = NoFailure
  BY Zenon DEF Parts, TurnPart

(* The current thread's arrival at its barrier.                            *)
LEMMA ArrivalConsistent ==
  ASSUME Parts, phase = "open", NEW t, t = mCurrentThreadId,
         NEW S \in SUBSET Threads, t \in S
  PROVE  Arrives(t, CurrentBarrier(S), mBarriers, mThreadIds, Range(mActiveThreadIds))
  <1>1. Consistent(mBarriers, mThreadIds, Range(mActiveThreadIds)) /\ t \in Range(mActiveThreadIds)
    BY OpenTurn, Zenon DEF Parts, BarriersPart
  <1>2. Fits(CurrentBarrier(S), mBarriers, mThreadIds) /\ t \in CurrentBarrier(S).synchronized
    BY CurrentBarrierFacts, Zenon
  <1> QED
    BY <1>1, <1>2, SynchronizeConsistent, Zenon

(* SynchronizeWithBarrier fails only for what the request asks.            *)
LEMMA SynchronizeErrors ==
  ASSUME Parts, phase = "open", NEW t, t = mCurrentThreadId, NEW S
  PROVE  /\ SynchronizeError(t, S) \in {NoFailure} \cup RequestFailures
         /\ SynchronizeError(t, S) = NoFailure =>
               S \subseteq Threads /\ t \in S /\ mState # "Locked"
  <1> DEFINE barrier == CurrentBarrier(S)
             reached == AddReachedThread(barrier, t)
             active  == Range(mActiveThreadIds)
  <1>1. t \in active /\ t \in mThreadIds
    BY OpenTurn, Zenon
  <1>2. CASE ~(S \subseteq Threads)
    BY <1>2, Zenon DEF SynchronizeError, RequestFailures, NoFailure
  <1>3. CASE S \subseteq Threads /\ t \notin S
    BY <1>3, Zenon DEF SynchronizeError, RequestFailures, NoFailure
  <1>4. CASE S \subseteq Threads /\ t \in S
    <2>1. CreateSynchronizeBarrierError(S, barrier.unreached) = NoFailure
      BY <1>4, CurrentBarrierFacts, Zenon
    <2>2. CASE mState = "Locked"
      <3>1. DeactivateThreadError(t) = "thread-deactivated-while-locked"
        BY <1>1, <2>2, Zenon DEF DeactivateThreadError
      <3> QED
        BY <1>4, <2>1, <3>1, Zenon DEF SynchronizeError, RequestFailures, NoFailure
    <2>3. CASE mState # "Locked"
      <3>1. DeactivateThreadError(t) = NoFailure
        BY <1>1, <2>3, Zenon DEF DeactivateThreadError
      <3>2. /\ AddReachedThreadError(barrier, t) = NoFailure
            /\ reached.synchronized = S
            /\ reached.unreached = 0 => (S \cap mThreadIds) \cap (active \ {t}) = {}
        BY <1>4, ArrivalConsistent, CurrentBarrierFacts, Zenon DEF Arrives
      <3>3. ASSUME reached.unreached = 0
            PROVE  ActivateThreadsError(ReleasedGroups({reached}, mThreadIds), mThreadIds,
                                        Erase(mActiveThreadIds, t)) = NoFailure
        <4> HIDE DEF reached
        <4>1. Range(Erase(mActiveThreadIds, t)) = active \ {t}
          BY EraseVector, Zenon DEF Parts, BarriersPart
        <4>2. \A g \in ReleasedGroups({reached}, mThreadIds) :
                 g = [barrier |-> reached, threads |-> S \cap mThreadIds]
          BY <3>2, Zenon DEF ReleasedGroups
        <4>3. \A g \in ReleasedGroups({reached}, mThreadIds) : g.threads = S \cap mThreadIds
          BY <4>2
        <4> QED
          BY <3>2, <3>3, <4>1, <4>2, <4>3, Zenon DEF ActivateThreadsError
      <3>4. SynchronizeError(t, S) = NoFailure
        BY <1>4, <2>1, <3>1, <3>2, <3>3, Zenon DEF SynchronizeError, NoFailure
      <3> QED
        BY <1>4, <2>3, <3>4, Zenon
    <2> QED
      BY <2>2, <2>3, Zenon
  <1> QED
    BY <1>2, <1>3, <1>4, Zenon

(* The vector ids holds the threads of active, all of them from T.         *)
Lists(ids, active, T) == Vector(ids, T) /\ Range(ids) = active

(* The threads ActivateSynchronizedThreads pushes are added to the active  *)
(* ones, t is taken off: what mActiveThreadIds holds then.                 *)
LEMMA ActiveAfterRelease ==
  ASSUME NEW T \in SUBSET Threads, NEW ids, Vector(ids, T), NEW t,
         NEW groups, NEW released \in ActivationOrders(groups),
         \A g \in groups : g.threads \subseteq T /\ g.threads \cap (Range(ids) \ {t}) = {}
  PROVE  Lists(PushBack(Erase(ids, t), released),
               (Range(ids) \ {t}) \cup UNION {g.threads : g \in groups}, T)
  <1> DEFINE all == UNION {g.threads : g \in groups}
  <1>1. all \in SUBSET T /\ all \cap (Range(ids) \ {t}) = {}
    BY Zenon
  <1>2. IsFiniteSet(all)
    BY <1>1, FiniteThreads, Zenon
  <1>3. Vector(released, all) /\ Range(released) = all
    BY <1>2, ReleasedVector, Zenon
  <1> HIDE DEF all
  <1>4. Vector(released, T)
    BY <1>1, <1>3 DEF Vector
  <1>5. Vector(Erase(ids, t), T) /\ Range(Erase(ids, t)) = Range(ids) \ {t}
    BY EraseVector, Zenon
  <1>6. Range(Erase(ids, t)) \cap Range(released) = {}
    BY <1>1, <1>3, <1>5, Zenon
  <1>7. Vector(PushBack(Erase(ids, t), released), T)
    BY <1>4, <1>5, <1>6, ConcatVector, Zenon
  <1>8. Range(PushBack(Erase(ids, t), released)) = Range(Erase(ids, t)) \cup Range(released)
    BY <1>4, <1>5, <1>6, <1>7, ConcatVector
  <1> QED
    BY <1>3, <1>5, <1>7, <1>8, Zenon DEF all, Lists

(* The threads that leave the barrier for S when t arrives there.          *)
Released(t, S) ==
    IF AddReachedThread(CurrentBarrier(S), t).unreached = 0 THEN S \cap mThreadIds ELSE {}

(* SynchronizeWithBarrier when no check fails: t arrives.                  *)
Arrived(t, S) ==
    /\ S \subseteq Threads /\ t \in S /\ mState # "Locked"
    /\ Vector(mActiveThreadIds', mThreadIds)
    /\ Range(mActiveThreadIds') = (Range(mActiveThreadIds) \ {t}) \cup Released(t, S)
    /\ Consistent(mBarriers', mThreadIds, Range(mActiveThreadIds'))
    /\ ~DeadLock(mBarriers', mThreadIds, Range(mActiveThreadIds'))
    /\ UNCHANGED <<mState, mCurrentThreadId, mNextIndex, mLockingState, mLockingLevel,
                   mLockingThreadId, mThreadIds, failure>>

(* What a call of SynchronizeWithBarrier does.                             *)
LEMMA SynchronizeArrives ==
  ASSUME Parts, NEW t \in Threads, NEW S \in SyncSets, Synchronize(t, S)
  PROVE  \/ failure' \in RequestFailures /\ UNCHANGED <<strategyVars, mBarriers>>
         \/ Arrived(t, S)
  <1> DEFINE barrier == CurrentBarrier(S)
             reached == AddReachedThread(barrier, t)
             done    == reached.unreached = 0
             others  == mBarriers \ {barrier}
             left    == IF done THEN others ELSE others \cup {reached}
             groups  == IF done THEN ReleasedGroups({reached}, mThreadIds) ELSE {}
             ids     == Erase(mActiveThreadIds, t)
             active  == Range(mActiveThreadIds)
             Goes(released) ==
                /\ ~DeadLock(left, mThreadIds, Range(PushBack(ids, released)))
                /\ mActiveThreadIds' = PushBack(ids, released)
                /\ mBarriers' = left
                /\ UNCHANGED <<mState, mCurrentThreadId, mNextIndex, lockVars,
                               mThreadIds, failure>>
  <1>1. phase = "open" /\ t = mCurrentThreadId /\ failure = NoFailure
    BY OpenTurn, Zenon DEF Synchronize
  <1>3. ASSUME NEW reason \in RequestFailures, Fail(reason)
        PROVE  failure' \in RequestFailures /\ UNCHANGED <<strategyVars, mBarriers>>
    BY <1>3, Zenon DEF Fail
  <1>4. \/ SynchronizeError(t, S) # NoFailure /\ Fail(SynchronizeError(t, S))
        \/ /\ SynchronizeError(t, S) = NoFailure
           /\ \E released \in ActivationOrders(groups) :
                 Fail("invalid-barriers-state") \/ Goes(released)
    BY Zenon DEF Synchronize, SynchronizeWithBarrier
  <1>5. CASE SynchronizeError(t, S) # NoFailure /\ Fail(SynchronizeError(t, S))
    <2>1. SynchronizeError(t, S) \in RequestFailures
      BY <1>1, <1>5, SynchronizeErrors, Zenon
    <2> QED
      BY <1>3, <1>5, <2>1, Zenon
  <1>6. CASE Fail("invalid-barriers-state")
    BY <1>3, <1>6, Zenon DEF RequestFailures
  <1>7. ASSUME SynchronizeError(t, S) = NoFailure,
               NEW released \in ActivationOrders(groups), Goes(released)
        PROVE  Arrived(t, S)
    <2>1. S \in SUBSET Threads /\ t \in S /\ mState # "Locked"
      BY <1>1, <1>7, SynchronizeErrors, Zenon
    <2>2. /\ Arrives(t, barrier, mBarriers, mThreadIds, active)
          /\ barrier.synchronized = S
      BY <1>1, <2>1, ArrivalConsistent, CurrentBarrierFacts, Zenon
    <2>3. /\ Consistent(left, mThreadIds, (active \ {t}) \cup UNION {g.threads : g \in groups})
          /\ \A g \in groups : g.threads \subseteq mThreadIds /\ g.threads \cap (active \ {t}) = {}
          /\ UNION {g.threads : g \in groups} = Released(t, S)
      <3>1. CASE done
        <4>1. /\ Consistent(others, mThreadIds, (active \ {t}) \cup (S \cap mThreadIds))
              /\ (S \cap mThreadIds) \cap (active \ {t}) = {}
              /\ reached.synchronized = S
          BY <2>2, <3>1, Zenon DEF Arrives
        <4> HIDE DEF reached
        <4>2. groups = {[barrier |-> reached, threads |-> S \cap mThreadIds]}
          BY <3>1, <4>1, Zenon DEF ReleasedGroups
        <4>3. /\ UNION {g.threads : g \in groups} = S \cap mThreadIds
              /\ \A g \in groups : g.threads = S \cap mThreadIds
          <5> HIDE DEF groups
          <5> QED BY <4>2
        <4>4. left = others
          BY <3>1, Zenon
        <4>5. Released(t, S) = S \cap mThreadIds
          BY <3>1, Zenon DEF Released, reached
        <4> HIDE DEF groups, left, others, active
        <4> QED
          BY <4>1, <4>3, <4>4, <4>5, Zenon
      <3>2. CASE ~done
        <4>1. Consistent(others \cup {reached}, mThreadIds, active \ {t})
          BY <2>2, <3>2, Zenon DEF Arrives
        <4>2. /\ left = others \cup {reached} /\ groups = {}
              /\ (active \ {t}) \cup UNION {g.threads : g \in groups} = active \ {t}
          BY <3>2, Zenon
        <4>3. Released(t, S) = {} /\ UNION {g.threads : g \in groups} = {}
          BY <3>2, <4>2, Zenon DEF Released
        <4> QED
          BY <4>1, <4>2, <4>3, Zenon
      <3> QED
        BY <3>1, <3>2, Zenon
    <2> HIDE DEF left, groups
    <2>4. Vector(mActiveThreadIds, mThreadIds) /\ mThreadIds \in SUBSET Threads
      BY Zenon DEF Parts, BarriersPart, Consistent
    <2>5. /\ Vector(PushBack(ids, released), mThreadIds)
          /\ Range(PushBack(ids, released)) = (active \ {t}) \cup UNION {g.threads : g \in groups}
      <3>1. Lists(PushBack(ids, released), (active \ {t}) \cup UNION {g.threads : g \in groups},
                  mThreadIds)
        BY <2>3, <2>4, ActiveAfterRelease, Zenon
      <3> HIDE DEF ids, active
      <3> QED
        BY <3>1, Zenon DEF Lists
    <2>6. /\ mActiveThreadIds' = PushBack(ids, released) /\ mBarriers' = left
          /\ ~DeadLock(left, mThreadIds, Range(PushBack(ids, released)))
          /\ mThreadIds' = mThreadIds /\ mState' = mState /\ mNextIndex' = mNextIndex
          /\ mCurrentThreadId' = mCurrentThreadId /\ failure' = NoFailure
          /\ mLockingState' = mLockingState /\ mLockingLevel' = mLockingLevel
          /\ mLockingThreadId' = mLockingThreadId
      BY <1>1, <1>7, Zenon DEF lockVars
    <2> HIDE DEF ids
    <2>7. /\ Vector(mActiveThreadIds', mThreadIds)
          /\ Range(mActiveThreadIds') = (Range(mActiveThreadIds) \ {t}) \cup Released(t, S)
      BY <2>3, <2>5, <2>6, Zenon
    <2>8. /\ Consistent(mBarriers', mThreadIds, Range(mActiveThreadIds'))
          /\ ~DeadLock(mBarriers', mThreadIds, Range(mActiveThreadIds'))
      BY <2>3, <2>5, <2>6, Zenon
    <2> QED
      BY <1>1, <2>1, <2>6, <2>7, <2>8, Zenon DEF Arrived
  <1> HIDE DEF Goes, groups
  <1> QED
    BY <1>4, <1>5, <1>6, <1>7, Zenon

(* SynchronizeWithBarrier.                                                 *)
LEMMA SynchronizeKeepsParts ==
  ASSUME Parts, NEW t \in Threads, NEW S \in SyncSets, Synchronize(t, S)
  PROVE  Parts'
  <1>1. phase = "open" /\ t = mCurrentThreadId /\ failure = NoFailure
    BY OpenTurn DEF Synchronize
  <1>2. EnterPhase("synced")
    BY Zenon DEF Synchronize
  <1>3. CASE failure' \in RequestFailures /\ UNCHANGED <<strategyVars, mBarriers>>
    <2>1. phase' = "failed"
      BY <1>2, <1>3, FailuresDiffer, Zenon DEF EnterPhase
    <2> QED
      BY <1>3, <2>1, FailKeepsParts, Zenon
  <1>4. CASE Arrived(t, S)
    <2>1. phase' = "synced" /\ failure' = NoFailure
      BY <1>1, <1>2, <1>4, Zenon DEF EnterPhase, Arrived
    <2>2. BarriersPart'
      BY <1>4, Zenon DEF BarriersPart, Arrived
    <2>3. LockPart'
      BY <1>4, Zenon DEF Parts, LockPart, Arrived
    <2>4. TurnPart'
      BY <1>1, <1>4, <2>1, Zenon DEF Parts, TurnPart, Phases, Arrived
    <2> QED
      BY <2>2, <2>3, <2>4, Zenon DEF Parts
  <1> QED
    BY <1>3, <1>4, SynchronizeArrives, Zenon

(* Barriers at which t, when it ends, is the last to arrive, and the       *)
(* threads that leave them.                                                *)
LastAt(t) ==
    {b \in GetParticipatingBarriers(mBarriers, t) : AddReachedThread(b, t).unreached = 0}

Freed(t) == UNION {b.synchronized \cap (mThreadIds \ {t}) : b \in LastAt(t)}

(* The groups RemoveThreadId activates are the ones of these barriers.     *)
LEMMA FreedThreads ==
  ASSUME NEW t, NEW scheduled, scheduled = mThreadIds \ {t}, NEW done,
         done = {b \in {AddReachedThread(b, t) : b \in GetParticipatingBarriers(mBarriers, t)} :
                    b.unreached = 0}
  PROVE  UNION {g.threads : g \in ReleasedGroups(done, scheduled)} = Freed(t)
  <1>1. \A b \in LastAt(t) :
           /\ AddReachedThread(b, t) \in done
           /\ AddReachedThread(b, t).synchronized = b.synchronized
    BY Zenon DEF LastAt, AddReachedThread
  <1>2. \A d \in done : \E b \in LastAt(t) : d = AddReachedThread(b, t)
    BY Zenon DEF LastAt
  <1>3. \A g \in ReleasedGroups(done, scheduled) :
           \E b \in LastAt(t) : g.threads = b.synchronized \cap scheduled
    <2> SUFFICES ASSUME NEW g \in ReleasedGroups(done, scheduled)
                 PROVE  \E b \in LastAt(t) : g.threads = b.synchronized \cap scheduled
      BY Zenon
    <2>1. PICK d \in done : g = [barrier |-> d, threads |-> d.synchronized \cap scheduled]
      BY Zenon DEF ReleasedGroups
    <2>2. PICK b \in LastAt(t) : d = AddReachedThread(b, t)
      BY <1>2, Zenon
    <2>3. g.threads = d.synchronized \cap scheduled
      BY <2>1, Zenon
    <2>4. d.synchronized = b.synchronized
      BY <1>1, <2>2, Zenon
    <2> QED
      BY <2>3, <2>4, Zenon
  <1>4. \A b \in LastAt(t) :
           \E g \in ReleasedGroups(done, scheduled) : g.threads = b.synchronized \cap scheduled
    <2> SUFFICES ASSUME NEW b \in LastAt(t)
                 PROVE  \E g \in ReleasedGroups(done, scheduled) :
                           g.threads = b.synchronized \cap scheduled
      BY Zenon
    <2> DEFINE d == AddReachedThread(b, t)
               g == [barrier |-> d, threads |-> d.synchronized \cap scheduled]
    <2>1. d \in done /\ d.synchronized = b.synchronized
      BY <1>1, Zenon
    <2> HIDE DEF d
    <2>2. g \in ReleasedGroups(done, scheduled)
      BY <2>1, Zenon DEF ReleasedGroups
    <2>3. g.threads = b.synchronized \cap scheduled
      BY <2>1, Zenon
    <2> QED
      BY <2>2, <2>3, Zenon
  <1>5. ASSUME NEW u PROVE (\E g \in ReleasedGroups(done, scheduled) : u \in g.threads)
                              <=> \E b \in LastAt(t) : u \in b.synchronized \cap scheduled
    <2> DEFINE R == ReleasedGroups(done, scheduled)
    <2>1. ASSUME NEW g \in R, u \in g.threads
          PROVE  \E b \in LastAt(t) : u \in b.synchronized \cap scheduled
      BY <1>3, <2>1, Zenon
    <2>2. ASSUME NEW b \in LastAt(t), u \in b.synchronized \cap scheduled
          PROVE  \E g \in R : u \in g.threads
      BY <1>4, <2>2, Zenon
    <2> HIDE DEF R
    <2>3. (\E g \in R : u \in g.threads) <=> \E b \in LastAt(t) : u \in b.synchronized \cap scheduled
      BY <2>1, <2>2, Zenon
    <2> QED
      BY <2>3, Zenon DEF R
  <1> DEFINE freed == UNION {g.threads : g \in ReleasedGroups(done, scheduled)}
  <1>6. ASSUME NEW u
        PROVE  /\ u \in freed <=> \E g \in ReleasedGroups(done, scheduled) : u \in g.threads
               /\ u \in Freed(t) <=> \E b \in LastAt(t) : u \in b.synchronized \cap scheduled
    BY Zenon DEF Freed
  <1> HIDE DEF freed
  <1>7. freed = Freed(t)
    BY <1>5, <1>6, Zenon
  <1> QED
    BY <1>7, Zenon DEF freed

(* ReportThreadDone when no check fails: t is taken off, the threads in    *)
(* released are activated and NextThread chooses the next thread.          *)
Removed(t, released) ==
    LET new == PushBack(Erase(mActiveThreadIds, t), released)
    IN  /\ Vector(released, Freed(t))
        /\ Vector(new, mThreadIds \ {t})
        /\ Range(new) = (Range(mActiveThreadIds) \ {t}) \cup Freed(t)
        /\ NextThreadFrom("Finishing", new, Decrement(mNextIndex))
        /\ mThreadIds' = mThreadIds \ {t} /\ mState' = "Finishing"
        /\ Consistent(mBarriers', mThreadIds', Range(new))
        /\ ~DeadLock(mBarriers', mThreadIds', Range(new))
        /\ UNCHANGED <<mLockingState, mLockingLevel, mLockingThreadId, failure>>

(* What a call of ReportThreadDone does.                                   *)
LEMMA ReportThreadDoneRemoves ==
  ASSUME Parts, NEW t \in Threads, ReportThreadDone(t)
  PROVE  \/ failure' = "invalid-barriers-state" /\ UNCHANGED <<strategyVars, mBarriers>>
         \/ \E released : Removed(t, released)
  <1> DEFINE scheduled == mThreadIds \ {t}
             ids       == Erase(mActiveThreadIds, t)
             active    == Range(mActiveThreadIds)
             barriers  == GetParticipatingBarriers(mBarriers, t)
             bad       == {b \in barriers : AddReachedThreadError(b, t) # NoFailure}
             reached   == {AddReachedThread(b, t) : b \in barriers}
             done      == {b \in reached : b.unreached = 0}
             left      == (mBarriers \ barriers) \cup (reached \ done)
             groups    == ReleasedGroups(done, scheduled)
             all       == UNION {g.threads : g \in groups}
             Goes(released) ==
                /\ ~DeadLock(left, scheduled, Range(PushBack(ids, released)))
                /\ mThreadIds' = scheduled
                /\ mBarriers' = left
                /\ mState' = "Finishing"
                /\ NextThreadFrom("Finishing", PushBack(ids, released), Decrement(mNextIndex))
                /\ UNCHANGED <<lockVars, failure>>
  <1>1. /\ phase = "idle" /\ t = mCurrentThreadId /\ failure = NoFailure
        /\ t \in mThreadIds /\ t \in active
    BY Zenon DEF Parts, TurnPart, ReportThreadDone
  <1>2. Vector(mActiveThreadIds, mThreadIds) /\ mThreadIds \in SUBSET Threads
    BY Zenon DEF Parts, BarriersPart, Consistent
  <1>3. Ends(t, mBarriers, mThreadIds, active)
    BY <1>1, RemoveConsistent, Zenon DEF Parts, BarriersPart
  <1>4. /\ bad = {}
        /\ \A g \in groups : g.threads \cap (active \ {t}) = {} /\ g.threads \subseteq scheduled
        /\ \A g, h \in groups : g # h => g.threads \cap h.threads = {}
        /\ Consistent(left, scheduled, (active \ {t}) \cup all)
    BY <1>3, Zenon DEF Ends
  <1>5. Vector(ids, scheduled) /\ Range(ids) = active \ {t}
    <2>1. Vector(ids, mThreadIds) /\ Range(ids) = active \ {t}
      BY <1>2, EraseVector, Zenon
    <2>2. Range(ids) \subseteq scheduled
      BY <1>2, <2>1, Zenon DEF Parts, BarriersPart, Consistent
    <2> HIDE DEF ids
    <2>3. ids \in Seq(scheduled)
      BY <2>1, <2>2, RangeSeq, Zenon DEF Vector
    <2> QED
      BY <2>1, <2>3, Zenon DEF Vector
  <1>6. ActivateThreadsError(groups, scheduled, ids) = NoFailure
    <2> HIDE DEF groups, ids
    <2> QED
      BY <1>4, <1>5, Zenon DEF ActivateThreadsError
  <1>7. \/ \E b \in bad : Fail(AddReachedThreadError(b, t))
        \/ ActivateThreadsError(groups, scheduled, ids) # NoFailure
        \/ \E released \in ActivationOrders(groups) :
              Fail("invalid-barriers-state") \/ Goes(released)
    BY Zenon DEF ReportThreadDone, RemoveThreadId
  <1>8. Freed(t) = all
    BY FreedThreads, Zenon
  <1> HIDE DEF left, groups, bad
  <1>9. CASE Fail("invalid-barriers-state")
    BY <1>9, Zenon DEF Fail
  <1>10. ASSUME NEW released \in ActivationOrders(groups), Goes(released)
         PROVE  Removed(t, released)
    <2> DEFINE new == PushBack(ids, released)
    <2>1. /\ ~DeadLock(left, scheduled, Range(new))
          /\ mThreadIds' = scheduled /\ mBarriers' = left /\ mState' = "Finishing"
          /\ NextThreadFrom("Finishing", new, Decrement(mNextIndex))
          /\ mLockingState' = mLockingState /\ mLockingLevel' = mLockingLevel
          /\ mLockingThreadId' = mLockingThreadId /\ failure' = NoFailure
      BY <1>1, <1>10, Zenon DEF lockVars
    <2>2. Range(ids) = active \ {t} /\ Erase(ids, t) = ids
      BY <1>5, Zenon DEF Erase
    <2>3. Vector(new, scheduled) /\ Range(new) = (active \ {t}) \cup all
      <3>1. scheduled \in SUBSET Threads
        BY <1>2, Zenon
      <3>2. \A g \in groups : g.threads \subseteq scheduled /\ g.threads \cap (Range(ids) \ {t}) = {}
        BY <1>4, <2>2, Zenon
      <3>3. /\ Vector(PushBack(Erase(ids, t), released), scheduled)
            /\ Range(PushBack(Erase(ids, t), released)) = (Range(ids) \ {t}) \cup all
        <4> HIDE DEF ids, scheduled
        <4>1. Lists(PushBack(Erase(ids, t), released), (Range(ids) \ {t}) \cup all, scheduled)
          BY <3>1, <3>2, <1>5, ActiveAfterRelease, Zenon
        <4> QED
          BY <4>1, Zenon DEF Lists
      <3>4. (Range(ids) \ {t}) = active \ {t}
        BY <2>2, Zenon
      <3> HIDE DEF ids, scheduled, all
      <3> QED
        BY <3>3, <3>4, <2>2, Zenon
    <2> HIDE DEF new
    <2>4. Consistent(left, scheduled, Range(new))
      BY <1>4, <2>3, Zenon
    <2>5. Vector(released, all)
      <3>1. all \in SUBSET Threads
        BY <1>2, <1>4, Zenon
      <3>2. IsFiniteSet(all)
        BY <3>1, FiniteThreads, Zenon
      <3> QED
        BY <3>2, ReleasedVector, Zenon
    <2> HIDE DEF all
    <2> QED
      BY <1>1, <1>8, <2>1, <2>3, <2>4, <2>5 DEF Removed, new
  <1> HIDE DEF Goes, ids
  <1> QED
    BY <1>4, <1>6, <1>7, <1>9, <1>10

(* The thread chosen next can run, if any is left.                         *)
LEMMA RemovedChooses ==
  ASSUME Parts, NEW t \in Threads, NEW released, Removed(t, released)
  PROVE  LET new == PushBack(Erase(mActiveThreadIds, t), released)
         IN  /\ Vector(mActiveThreadIds', mThreadIds \ {t})
             /\ Range(mActiveThreadIds') = Range(new)
             /\ mCurrentThreadId' \in Threads \cup {0} /\ mNextIndex' \in Nat
             /\ mThreadIds \ {t} # {} => mCurrentThreadId' \in Range(new) /\ mNextIndex' > 0
  <1> DEFINE new == PushBack(Erase(mActiveThreadIds, t), released)
             scheduled == mThreadIds \ {t}
  <1>1. /\ Vector(new, scheduled) /\ NextThreadFrom("Finishing", new, Decrement(mNextIndex))
        /\ Consistent(mBarriers', scheduled, Range(new))
        /\ ~DeadLock(mBarriers', scheduled, Range(new))
    BY Zenon DEF Removed
  <1> HIDE DEF new
  <1>2. Decrement(mNextIndex) \in Nat
    BY MaxUInt32Assumption DEF Parts, TurnPart, Decrement
  <1>3. CASE new = <<>>
    <2>1. Range(new) = {}
      BY <1>3 DEF Range
    <2>2. scheduled = {}
      BY <1>1, <2>1, NoDeadLockSomeActive, Zenon
    <2>3. mActiveThreadIds' = new /\ mNextIndex' = 0 /\ mCurrentThreadId' = 0
      BY <1>1, <1>3, Zenon DEF NextThreadFrom
    <2> HIDE DEF scheduled
    <2>4. Vector(mActiveThreadIds', scheduled) /\ Range(mActiveThreadIds') = Range(new)
      BY <1>1, <2>3, Zenon
    <2> QED
      BY <2>2, <2>3, <2>4, Zenon DEF new, scheduled
  <1>4. CASE new # <<>>
    <2>1. /\ Vector(mActiveThreadIds', scheduled) /\ Range(mActiveThreadIds') = Range(new)
          /\ mCurrentThreadId' \in Range(new)
          /\ mNextIndex' \in Nat /\ mNextIndex' > 0
      <3> HIDE DEF scheduled
      <3> QED
        BY <1>1, <1>2, <1>4, NextThreadChooses
    <2>2. Range(new) \subseteq Threads
      BY <1>1, Zenon DEF Consistent
    <2> QED
      BY <2>1, <2>2, Zenon DEF new
  <1> QED
    BY <1>3, <1>4, Zenon

(* ReportThreadDone.                                                       *)
LEMMA ReportThreadDoneKeepsParts ==
  ASSUME Parts, NEW t \in Threads, ReportThreadDone(t)
  PROVE  Parts'
  <1>1. /\ phase = "idle" /\ t = mCurrentThreadId /\ failure = NoFailure /\ t \in mThreadIds
        /\ EnterPhase("idle")
    BY Zenon DEF Parts, TurnPart, ReportThreadDone
  <1>2. CASE failure' = "invalid-barriers-state" /\ UNCHANGED <<strategyVars, mBarriers>>
    <2>1. failure' \in RequestFailures /\ phase' = "failed"
      BY <1>1, <1>2, Zenon DEF EnterPhase, RequestFailures, NoFailure
    <2> QED
      BY <1>2, <2>1, FailKeepsParts, Zenon
  <1>3. ASSUME NEW released, Removed(t, released) PROVE Parts'
    <2> DEFINE new == PushBack(Erase(mActiveThreadIds, t), released)
               scheduled == mThreadIds \ {t}
    <2>1. /\ Vector(mActiveThreadIds', scheduled) /\ Range(mActiveThreadIds') = Range(new)
          /\ mCurrentThreadId' \in Threads \cup {0} /\ mNextIndex' \in Nat
          /\ scheduled # {} => mCurrentThreadId' \in Range(new) /\ mNextIndex' > 0
      BY <1>3, RemovedChooses, Zenon
    <2>2. /\ mThreadIds' = scheduled /\ mState' = "Finishing" /\ failure' = NoFailure
          /\ Consistent(mBarriers', mThreadIds', Range(new))
          /\ ~DeadLock(mBarriers', mThreadIds', Range(new))
          /\ UNCHANGED <<mLockingState, mLockingLevel, mLockingThreadId>>
      BY <1>1, <1>3, Zenon DEF Removed
    <2> HIDE DEF new
    <2>3. phase' = "idle"
      BY <1>1, <2>2, Zenon DEF EnterPhase
    <2>4. BarriersPart'
      BY <2>1, <2>2, Zenon DEF BarriersPart
    <2>5. LockPart'
      BY <1>1, <2>2, Zenon DEF Parts, LockPart, ESchedulingState
    <2>6. TurnPart'
      BY <2>1, <2>2, <2>3, Zenon DEF TurnPart, Phases
    <2> QED
      BY <2>4, <2>5, <2>6, Zenon DEF Parts
  <1> QED
    BY <1>2, <1>3, ReportThreadDoneRemoves, Zenon

(* Finish: NextThread always finds a thread.                               *)
LEMMA FinishKeepsParts ==
  ASSUME Parts, Finish
  PROVE  Parts'
  <1> DEFINE active == Range(mActiveThreadIds)
  <1>1. /\ phase \in {"open", "synced"} /\ failure = NoFailure
        /\ mCurrentThreadId \in mThreadIds
        /\ phase = "synced" => mState # "Locked"
        /\ mNextIndex \in Nat
    BY Zenon DEF Parts, TurnPart, Finish
  <1>2. /\ Consistent(mBarriers, mThreadIds, active)
        /\ ~DeadLock(mBarriers, mThreadIds, active)
        /\ Vector(mActiveThreadIds, mThreadIds)
    BY Zenon DEF Parts, BarriersPart
  <1>3. active # {}
    BY <1>1, <1>2, NoDeadLockSomeActive, Zenon
  <1>4. mActiveThreadIds # <<>>
    BY <1>2, <1>3, RangeEmpty, Zenon DEF Vector
  <1>5. NextThreadError(mState, mActiveThreadIds) = NoFailure
    BY <1>4, Zenon DEF NextThreadError
  <1>6. /\ NextThreadFrom(mState, mActiveThreadIds, mNextIndex)
        /\ UNCHANGED <<mState, mLockingState, mLockingLevel, mLockingThreadId,
                       mThreadIds, mBarriers>>
        /\ failure' = NoFailure /\ phase' = "idle"
    BY <1>1, <1>5, Zenon DEF Finish, NextThread, EnterPhase, lockVars
  <1>7. /\ Vector(mActiveThreadIds', mThreadIds) /\ Range(mActiveThreadIds') = active
        /\ mCurrentThreadId' \in active /\ mNextIndex' \in Nat /\ mNextIndex' > 0
        /\ mState = "Locked" => mCurrentThreadId' = mCurrentThreadId
    <2>1. CASE mState = "Locked"
      <3>1. /\ mActiveThreadIds' = mActiveThreadIds /\ mNextIndex' = mNextIndex
            /\ mCurrentThreadId' = mCurrentThreadId
        BY <1>6, <2>1, Zenon DEF NextThreadFrom
      <3>2. mCurrentThreadId \in active /\ mNextIndex > 0
        BY <1>1, <2>1, Zenon DEF Parts, TurnPart
      <3> QED
        BY <1>1, <1>2, <3>1, <3>2, Zenon
    <2>2. CASE mState # "Locked"
      BY <1>1, <1>2, <1>4, <1>6, <2>2, NextThreadChooses
    <2> QED
      BY <2>1, <2>2, Zenon
  <1>8. BarriersPart'
    BY <1>2, <1>6, <1>7, Zenon DEF BarriersPart
  <1>9. LockPart'
    BY <1>6, <1>7, Zenon DEF Parts, LockPart
  <1>10. TurnPart'
    <2>1. mCurrentThreadId' \in Threads
      BY <1>2, <1>7, Zenon DEF Consistent
    <2> QED
      BY <1>6, <1>7, <2>1, Zenon DEF TurnPart, Phases
  <1> QED
    BY <1>8, <1>9, <1>10, Zenon DEF Parts

(* lockThreadScheduler and unlockThreadScheduler.                          *)
LEMMA LockKeepsParts ==
  ASSUME Parts, NEW t \in Threads, Lock(t) \/ Unlock(t)
  PROVE  Parts'
  <1>1. phase = "open" /\ t = mCurrentThreadId /\ failure = NoFailure /\ t \in mThreadIds
    BY OpenTurn, Zenon DEF Lock, Unlock
  <1>2. EnterPhase("open")
    BY Zenon DEF Lock, Unlock
  <1>3. ASSUME NEW reason \in RequestFailures, Fail(reason) PROVE Parts'
    <2>1. failure' \in RequestFailures /\ UNCHANGED <<strategyVars, mBarriers>>
      BY <1>3, Zenon DEF Fail
    <2>2. phase' = "failed"
      BY <1>2, <2>1, FailuresDiffer, Zenon DEF EnterPhase
    <2> QED
      BY <2>1, <2>2, FailKeepsParts, Zenon
  <1>4. ASSUME UNCHANGED <<mCurrentThreadId, mNextIndex, mThreadIds, mActiveThreadIds,
                           mBarriers, failure>>, LockPart'
        PROVE  Parts'
    <2>1. phase' = "open"
      BY <1>1, <1>2, <1>4, Zenon DEF EnterPhase
    <2>2. BarriersPart'
      BY <1>4, Zenon DEF Parts, BarriersPart
    <2>3. TurnPart'
      BY <1>1, <1>4, <2>1, Zenon DEF Parts, TurnPart
    <2> QED
      BY <1>4, <2>2, <2>3, Zenon DEF Parts
  <1>5. CASE Lock(t)
    <2>1. CASE LockScheduleError(t) # NoFailure
      <3>1. LockScheduleError(t) \in RequestFailures
        BY <1>1, <2>1, Zenon DEF LockScheduleError, RequestFailures, Parts, LockPart
      <3> QED
        BY <1>3, <1>5, <2>1, <3>1, Zenon DEF Lock, LockThreadScheduler
    <2>2. CASE LockScheduleError(t) = NoFailure
      <3>1. /\ UNCHANGED <<mCurrentThreadId, mNextIndex, mThreadIds, mActiveThreadIds,
                           mBarriers, failure>>
            /\ LockSchedule(t)
        BY <1>5, <2>2, Zenon DEF Lock, LockThreadScheduler, LockSchedule
      <3>2. LockPart'
        <4>1. CASE mLockingLevel = 0
          BY <1>1, <3>1, <4>1 DEF LockSchedule, Parts, LockPart, ESchedulingState
        <4>2. CASE mLockingLevel # 0
          BY <3>1, <4>2 DEF LockSchedule, Parts, LockPart
        <4> QED
          BY <4>1, <4>2, Zenon
      <3> QED
        BY <1>4, <3>1, <3>2, Zenon
    <2> QED
      BY <2>1, <2>2, Zenon
  <1>6. CASE Unlock(t)
    <2>1. CASE UnlockScheduleError(t) # NoFailure
      <3>1. UnlockScheduleError(t) \in RequestFailures
        BY <1>1, <2>1 DEF UnlockScheduleError, RequestFailures, Parts, LockPart
      <3> QED
        BY <1>3, <1>6, <2>1, <3>1, Zenon DEF Unlock, UnlockThreadScheduler
    <2>2. CASE UnlockScheduleError(t) = NoFailure
      <3>1. /\ UNCHANGED <<mCurrentThreadId, mNextIndex, mThreadIds, mActiveThreadIds,
                           mBarriers, failure>>
            /\ UnlockSchedule(t)
        BY <1>6, <2>2, Zenon DEF Unlock, UnlockThreadScheduler, UnlockSchedule
      <3>2. t = mLockingThreadId /\ mState = "Locked" /\ mLockingLevel > 0 /\ mLockingLevel \in Nat
        BY <2>2, Zenon DEF UnlockScheduleError, NoFailure, Parts, LockPart
      <3>3. LockPart'
        <4>1. CASE mLockingLevel = 1
          <5>1. NoThread \notin mThreadIds
            <6>1. mThreadIds \subseteq Threads
              BY Zenon DEF Parts, BarriersPart, Consistent
            <6> QED
              BY <6>1, ThreadsAssumption, Zenon
          <5>2. /\ mLockingLevel' = 0 /\ mState' = mLockingState /\ mLockingThreadId' = NoThread
                /\ UNCHANGED <<mLockingState, mThreadIds, mCurrentThreadId>>
            BY <3>1, <4>1 DEF UnlockSchedule
          <5>3. mLockingState \in ESchedulingState /\ mLockingState # "Locked"
            BY Zenon DEF Parts, LockPart
          <5> QED
            BY <5>1, <5>2, <5>3, Zenon DEF LockPart
        <4>2. CASE mLockingLevel # 1
          BY <3>1, <3>2, <4>2 DEF UnlockSchedule, Parts, LockPart
        <4> QED
          BY <4>1, <4>2, Zenon
      <3> QED
        BY <1>4, <3>1, <3>3
    <2> QED
      BY <2>1, <2>2
  <1> QED
    BY <1>5, <1>6, Zenon

(* Stop and the destruction of the scheduler: nothing is left.             *)
LEMMA EndKeepsParts ==
  ASSUME Parts, Stop \/ Destroy
  PROVE  Parts'
  <1>1. mThreadIds = {} /\ phase # "failed" /\ UNCHANGED <<strategyVars, mBarriers>>
    BY Zenon DEF Stop, Destroy, Parts, TurnPart
  <1>2. mActiveThreadIds = <<>>
    BY <1>1, RangeEmpty, Zenon DEF Parts, BarriersPart, Consistent, Vector
  <1>3. mBarriers = {}
    <2> SUFFICES ASSUME NEW b \in mBarriers PROVE FALSE
      BY Zenon
    <2>1. b.unreached = Cardinality((b.synchronized \cap {}) \ b.reached) /\ b.unreached > 0
      BY <1>1, Zenon DEF Parts, BarriersPart, Consistent
    <2>2. (b.synchronized \cap {}) \ b.reached = {}
      BY Zenon
    <2>3. b.unreached = 0
      BY <2>1, <2>2, FS_EmptySet, Zenon
    <2> QED
      BY <2>1, <2>3
  <1>4. failure' = NoFailure /\ failure = NoFailure
    BY <1>1, <1>2, <1>3, Zenon DEF Stop, Destroy, StopError, DestroyError, Parts, TurnPart
  <1>5. phase' \in {"stopped", "destroyed"}
    BY <1>4, Zenon DEF Stop, Destroy, EnterPhase
  <1> QED
    BY <1>1, <1>4, <1>5, PhaseKeepsParts, Zenon DEF Phases

(* Every step keeps the invariant.                                         *)
LEMMA PartsNext == Parts /\ [Next]_vars => Parts'
  <1> SUFFICES ASSUME Parts, [Next]_vars PROVE Parts'
    BY Zenon
  <1>1. CASE Start
    BY <1>1, StartKeepsParts, Zenon
  <1>2. CASE Finish
    BY <1>2, FinishKeepsParts, Zenon
  <1>3. CASE FinishNoAdvance
    <2>1. /\ phase = "open" /\ phase' = "idle"
          /\ UNCHANGED <<strategyVars, mBarriers, failure>>
      BY <1>3, Zenon DEF FinishNoAdvance, schedulerVars
    <2> QED
      BY <2>1, PhaseKeepsParts, Zenon DEF Phases
  <1>4. CASE Stop \/ Destroy
    BY <1>4, EndKeepsParts, Zenon
  <1>5. CASE Ended \/ UNCHANGED vars
    <2>1. UNCHANGED <<strategyVars, mBarriers, failure, phase>>
      BY <1>5, Zenon DEF Ended, vars, schedulerVars
    <2>2. BarriersPart'
      BY <2>1, Zenon DEF Parts, BarriersPart, strategyVars
    <2>3. LockPart'
      BY <2>1, Zenon DEF Parts, LockPart, strategyVars
    <2>4. TurnPart'
      BY <2>1, Zenon DEF Parts, TurnPart, strategyVars
    <2> QED
      BY <2>2, <2>3, <2>4, Zenon DEF Parts
  <1>6. ASSUME NEW t \in Threads, Setup(t) PROVE Parts'
    BY <1>6, SetupKeepsParts, Zenon
  <1>7. ASSUME NEW t \in Threads, Request(t) PROVE Parts'
    <2>1. /\ phase = "idle" /\ phase' = "open" /\ mCurrentThreadId \in mThreadIds
          /\ UNCHANGED <<strategyVars, mBarriers, failure>>
      BY <1>7, Zenon DEF Request, schedulerVars
    <2> QED
      BY <2>1, PhaseKeepsParts, Zenon DEF Phases
  <1>8. ASSUME NEW t \in Threads, Lock(t) \/ Unlock(t) PROVE Parts'
    BY <1>8, LockKeepsParts, Zenon
  <1>9. ASSUME NEW t \in Threads, NEW S \in SyncSets, Synchronize(t, S) PROVE Parts'
    BY <1>9, SynchronizeKeepsParts, Zenon
  <1>10. ASSUME NEW t \in Threads, ReportThreadDone(t) PROVE Parts'
    BY <1>10, ReportThreadDoneKeepsParts
  <1> QED
    BY <1>1, <1>2, <1>3, <1>4, <1>5, <1>6, <1>7, <1>8, <1>9, <1>10 DEF Next

(* A step that is neither an arrival at a barrier nor a thread's end wakes *)
(* no thread: mActiveThreadIds keeps its ids, or there is no barrier yet.  *)
LEMMA OtherStepsWakeNobody ==
  ASSUME Parts, Next,
         \A t \in Threads : ~ReportThreadDone(t) /\ \A S \in SyncSets : ~Synchronize(t, S)
  PROVE  mBarriers = {} \/ Range(mActiveThreadIds') = Range(mActiveThreadIds)
  <1>1. CASE Start
    BY <1>1, Zenon DEF Start, Parts, TurnPart
  <1>2. CASE Finish
    <2>1. CASE UNCHANGED strategyVars
      BY <2>1, Zenon DEF strategyVars
    <2>2. CASE NextThreadFrom(mState, mActiveThreadIds, mNextIndex)
      <3>1. CASE mState = "Locked" \/ mActiveThreadIds = <<>>
        BY <2>2, <3>1, Zenon DEF NextThreadFrom
      <3>2. CASE mState # "Locked" /\ mActiveThreadIds # <<>>
        BY <2>2, <3>2, NextThreadChooses, Zenon DEF Parts, BarriersPart, TurnPart
      <3> QED
        BY <3>1, <3>2, Zenon
    <2> QED
      BY <1>2, <2>1, <2>2, Zenon DEF Finish, NextThread, Fail
  <1>3. CASE FinishNoAdvance \/ Ended
    BY <1>3, Zenon DEF FinishNoAdvance, Ended, vars, schedulerVars, strategyVars
  <1>4. CASE Stop \/ Destroy
    BY <1>4, Zenon DEF Stop, Destroy, strategyVars
  <1>5. ASSUME NEW t \in Threads, Setup(t) PROVE mBarriers = {}
    BY <1>5, Zenon DEF Setup, Parts, TurnPart
  <1>6. ASSUME NEW t \in Threads, Request(t) PROVE mActiveThreadIds' = mActiveThreadIds
    BY <1>6, Zenon DEF Request, schedulerVars, strategyVars
  <1>7. ASSUME NEW t \in Threads, Lock(t) PROVE mActiveThreadIds' = mActiveThreadIds
    BY <1>7, Zenon DEF Lock, LockThreadScheduler, LockSchedule, Fail, strategyVars
  <1>8. ASSUME NEW t \in Threads, Unlock(t) PROVE mActiveThreadIds' = mActiveThreadIds
    BY <1>8, Zenon DEF Unlock, UnlockThreadScheduler, UnlockSchedule, Fail, strategyVars
  <1> QED
    BY <1>1, <1>2, <1>3, <1>4, <1>5, <1>6, <1>7, <1>8 DEF Next

(* The threads a step wakes at b.                                          *)
Woken(b) == {t \in b.reached \cap mThreadIds : t \in Range(mActiveThreadIds')}

(* When the current thread t, the last one to come, arrives at barrier b,  *)
(* all threads of b leave it, and no thread of another barrier wakes.      *)
LEMMA ArrivalWakesAll ==
  ASSUME Parts, NEW t \in Threads, NEW S \in SyncSets, Synchronize(t, S), Arrived(t, S),
         NEW b \in mBarriers, NEW u \in Woken(b)
  PROVE  /\ b.synchronized \cap mThreadIds' \subseteq b.reached \cup {mCurrentThreadId}
         /\ b.synchronized \cap mThreadIds' \subseteq Range(mActiveThreadIds')
  <1> DEFINE barrier == CurrentBarrier(S)
             active == Range(mActiveThreadIds)
  <1>1. /\ phase = "open" /\ t = mCurrentThreadId /\ t \in active
        /\ S \in SUBSET Threads /\ t \in S /\ mThreadIds' = mThreadIds
    BY OpenTurn, Zenon DEF Synchronize, Arrived
  <1>2. /\ u \in b.reached \cap mThreadIds /\ u \notin active /\ u # t
        /\ u \in Range(mActiveThreadIds')
    <2>1. u \in b.reached \cap mThreadIds /\ u \in Range(mActiveThreadIds')
      BY Zenon DEF Woken
    <2>2. u \notin active
      BY <2>1, Zenon DEF Parts, BarriersPart, Consistent
    <2> QED
      BY <1>1, <2>1, <2>2, Zenon
  <1>3. AddReachedThread(barrier, t).unreached = 0 /\ u \in S \cap mThreadIds
    BY <1>2, Zenon DEF Arrived, Released
  <1>4. Fits(barrier, mBarriers, mThreadIds) /\ barrier.synchronized = S
    BY <1>1, CurrentBarrierFacts, Zenon
  <1> HIDE DEF barrier
  <1>5. S \cap mThreadIds \subseteq barrier.reached \cup {t}
    BY <1>1, <1>3, <1>4, LastArrival, Zenon DEF Parts, BarriersPart
  <1>6. u \in barrier.reached
    BY <1>2, <1>3, <1>5, Zenon
  <1>7. barrier \in mBarriers
    BY <1>4, <1>6, Zenon DEF Fits
  <1>8. barrier = b
    BY <1>2, <1>6, <1>7, Zenon DEF Parts, BarriersPart, Consistent
  <1>9. S \cap mThreadIds \subseteq Range(mActiveThreadIds')
    BY <1>3, Zenon DEF Arrived, Released, barrier
  <1> QED
    BY <1>1, <1>4, <1>5, <1>8, <1>9, Zenon

(* When the current thread t ends, the threads of every barrier at which   *)
(* it was the last one to come leave together.                             *)
LEMMA EndWakesAll ==
  ASSUME Parts, NEW t \in Threads, ReportThreadDone(t), NEW released, Removed(t, released),
         NEW b \in mBarriers, NEW u \in Woken(b)
  PROVE  /\ b.synchronized \cap mThreadIds' \subseteq b.reached \cup {mCurrentThreadId}
         /\ b.synchronized \cap mThreadIds' \subseteq Range(mActiveThreadIds')
  <1> DEFINE active == Range(mActiveThreadIds)
  <1>1. t = mCurrentThreadId /\ t \in active /\ mThreadIds' = mThreadIds \ {t}
    BY Zenon DEF ReportThreadDone, Parts, TurnPart, Removed
  <1>2. Range(mActiveThreadIds') = (active \ {t}) \cup Freed(t)
    BY RemovedChooses, Zenon DEF Removed
  <1>3. u \in b.reached \cap mThreadIds /\ u \notin active /\ u # t /\ u \in Freed(t)
    <2>1. u \in b.reached \cap mThreadIds /\ u \in Range(mActiveThreadIds')
      BY Zenon DEF Woken
    <2>2. u \notin active
      BY <2>1, Zenon DEF Parts, BarriersPart, Consistent
    <2> QED
      BY <1>1, <1>2, <2>1, <2>2, Zenon
  <1>4. PICK c \in LastAt(t) : u \in c.synchronized \cap (mThreadIds \ {t})
    BY <1>3, Zenon DEF Freed
  <1>5. c \in mBarriers /\ t \in c.synchronized /\ AddReachedThread(c, t).unreached = 0
    BY Zenon DEF LastAt, GetParticipatingBarriers
  <1>6. Fits(c, mBarriers, mThreadIds)
    BY <1>5, Zenon DEF Parts, BarriersPart, Consistent, Fits
  <1>7. c.synchronized \cap mThreadIds \subseteq c.reached \cup {t}
    BY <1>1, <1>5, <1>6, LastArrival, Zenon DEF Parts, BarriersPart
  <1>8. c = b
    BY <1>3, <1>4, <1>5, <1>7, Zenon DEF Parts, BarriersPart, Consistent
  <1>9. b.synchronized \cap (mThreadIds \ {t}) \subseteq Range(mActiveThreadIds')
    BY <1>2, <1>8, Zenon DEF Freed
  <1> QED
    BY <1>1, <1>7, <1>8, <1>9, Zenon

(* What ReleasedTogether says of one step.                                 *)
LEMMA ReleaseStep ==
  ASSUME Parts, Next, NEW b \in mBarriers, NEW u \in Woken(b)
  PROVE  /\ b.synchronized \cap mThreadIds' \subseteq b.reached \cup {mCurrentThreadId}
         /\ b.synchronized \cap mThreadIds' \subseteq Range(mActiveThreadIds')
  <1>1. u \notin Range(mActiveThreadIds) /\ u \in Range(mActiveThreadIds')
    BY Zenon DEF Woken, Parts, BarriersPart, Consistent
  <1>2. ASSUME NEW t \in Threads, NEW S \in SyncSets, Synchronize(t, S)
        PROVE  /\ b.synchronized \cap mThreadIds' \subseteq b.reached \cup {mCurrentThreadId}
               /\ b.synchronized \cap mThreadIds' \subseteq Range(mActiveThreadIds')
    <2>1. Arrived(t, S)
      BY <1>1, <1>2, SynchronizeArrives, Zenon DEF strategyVars
    <2> QED
      BY <1>2, <2>1, ArrivalWakesAll, Zenon
  <1>3. ASSUME NEW t \in Threads, ReportThreadDone(t)
        PROVE  /\ b.synchronized \cap mThreadIds' \subseteq b.reached \cup {mCurrentThreadId}
               /\ b.synchronized \cap mThreadIds' \subseteq Range(mActiveThreadIds')
    <2>1. PICK released : Removed(t, released)
      BY <1>1, <1>3, ReportThreadDoneRemoves, Zenon DEF strategyVars
    <2> QED
      BY <1>3, <2>1, EndWakesAll, Zenon
  <1> QED
    BY <1>1, <1>2, <1>3, OtherStepsWakeNobody, Zenon

(* What LockedScheduleStays says of one step.                              *)
LEMMA LockedStep ==
  ASSUME Parts, Next, mState = "Locked", mCurrentThreadId' # mCurrentThreadId
  PROVE  mCurrentThreadId \notin mThreadIds'
  <1>1. ASSUME Start PROVE FALSE
    BY <1>1, Zenon DEF Start, Parts, TurnPart
  <1>2. ASSUME Finish PROVE FALSE
    BY <1>2, Zenon DEF Finish, NextThread, NextThreadFrom, Fail, strategyVars
  <1>3. ASSUME FinishNoAdvance \/ Ended PROVE FALSE
    BY <1>3, Zenon DEF FinishNoAdvance, Ended, vars, schedulerVars, strategyVars
  <1>4. ASSUME Stop \/ Destroy PROVE FALSE
    BY <1>4, Zenon DEF Stop, Destroy, strategyVars
  <1>5. ASSUME NEW t \in Threads, Setup(t) PROVE FALSE
    BY <1>5, Zenon DEF Setup, Parts, TurnPart
  <1>6. ASSUME NEW t \in Threads, Request(t) PROVE FALSE
    BY <1>6, Zenon DEF Request, schedulerVars, strategyVars
  <1>7. ASSUME NEW t \in Threads, Lock(t) PROVE FALSE
    BY <1>7, Zenon DEF Lock, LockThreadScheduler, LockSchedule, Fail, strategyVars
  <1>8. ASSUME NEW t \in Threads, Unlock(t) PROVE FALSE
    BY <1>8, Zenon DEF Unlock, UnlockThreadScheduler, UnlockSchedule, Fail, strategyVars
  <1>9. ASSUME NEW t \in Threads, NEW S \in SyncSets, Synchronize(t, S) PROVE FALSE
    BY <1>9, SynchronizeArrives, Zenon DEF Arrived, strategyVars
  <1>10. ASSUME NEW t \in Threads, ReportThreadDone(t) PROVE mCurrentThreadId \notin mThreadIds'
    <2>1. PICK released : Removed(t, released)
      BY <1>10, ReportThreadDoneRemoves, Zenon DEF strategyVars
    <2> QED
      BY <1>10, <2>1, Zenon DEF ReportThreadDone, Removed
  <1> QED
    BY <1>1, <1>2, <1>3, <1>4, <1>5, <1>6, <1>7, <1>8, <1>9, <1>10 DEF Next

-----------------------------------------------------------------------------
(* The theorems *)

(* The inductive invariant holds throughout.                               *)
THEOREM Invariance == Spec => []IInv
  BY PartsInit, PartsNext, PartsAreIInv, PTL DEF Spec

(* Every field of the scheduler keeps its type.                            *)
THEOREM TypeCorrect == Spec => []TypeOK
  BY Invariance, PTL DEF IInv

(* mUnreachedCount is exact for every barrier, whatever threads end.       *)
THEOREM CountsExact == Spec => []UnreachedCountExact
  BY Invariance, PTL DEF IInv

(* A thread off mActiveThreadIds waits at exactly one barrier.             *)
THEOREM InactiveThreadsWait == Spec => []InactiveWaitsAtOneBarrier
  BY Invariance, PTL DEF IInv

(* The thread whose turn it is can take it.                                *)
THEOREM CurrentThreadRuns == Spec => []CurrentThreadCanRun
  BY Invariance, PTL DEF IInv

(* No FAIL that only an inconsistent scheduler can cause happens.          *)
THEOREM ChecksNeverFail == Spec => []NoInternalFailure
  BY Invariance, PTL DEF IInv

(* There is always a thread to choose.                                     *)
THEOREM ThreadsActive == Spec => []SomeThreadActive
  <1>1. Parts => SomeThreadActive
    BY NoDeadLockSomeActive, Zenon DEF Parts, BarriersPart, SomeThreadActive, Active
  <1> QED
    BY <1>1, Invariance, PartsAreIInv, PTL

(* Only the thread whose turn it is holds the schedule lock.               *)
THEOREM LockIsHeldByCurrent == Spec => []LockHolderIsCurrent
  BY Invariance, PTL DEF IInv

(* RemoveThreadId never decrements an index of zero.                       *)
THEOREM IndexNeverWraps == Spec => []NextIndexPositive
  BY Invariance, PTL DEF IInv

(* What the scheduler's methods rely on of one another.                    *)
THEOREM StaysConsistent == Spec => []SchedulerConsistent
  BY Invariance, PTL DEF IInv

(* Threads leave a barrier together, the last arrival included.            *)
THEOREM BarriersReleaseTogether == Spec => ReleasedTogether
  <1>1. Parts /\ [Next]_vars =>
          [\A b \in mBarriers :
             (\E t \in b.reached \cap mThreadIds : t \in Range(mActiveThreadIds')) =>
                /\ b.synchronized \cap mThreadIds' \subseteq b.reached \cup {mCurrentThreadId}
                /\ b.synchronized \cap mThreadIds' \subseteq Range(mActiveThreadIds')]_vars
    BY ReleaseStep, Zenon DEF Woken
  <1> QED
    BY <1>1, PartsInit, PartsNext, PTL DEF Spec, ReleasedTogether

(* A locked schedule stays with its thread for as long as that thread      *)
(* runs.                                                                   *)
THEOREM LockedScheduleKept == Spec => LockedScheduleStays
  <1>1. Parts /\ [Next]_vars =>
          [mState = "Locked" /\ mCurrentThreadId' # mCurrentThreadId =>
              mCurrentThreadId \notin mThreadIds']_vars
    BY LockedStep, Zenon
  <1> QED
    BY <1>1, PartsInit, PartsNext, PTL DEF Spec, LockedScheduleStays

-----------------------------------------------------------------------------
(* Rounds *)

(* Where a round stands: mNextIndex is behind the current thread, and      *)
(* threads the round still has to serve are at mNextIndex or behind.       *)
RoundStands ==
    /\ mNextIndex \in 1..Len(mActiveThreadIds)
    /\ mActiveThreadIds[mNextIndex] = mCurrentThreadId
    /\ \A t \in eligible \ served :
          \E i \in 1..Len(mActiveThreadIds) : i > mNextIndex /\ mActiveThreadIds[i] = t

(* The invariant of SchedulingRounds, up to the first barrier.             *)
RoundsInv ==
    /\ skipped = {}
    /\ followed => mBarriers = {}
    /\ phase = "setup" => eligible = {}
    /\ followed /\ Running /\ mThreadIds # {} => RoundStands

(* A shuffle begins a new round.                                           *)
LEMMA RoundBegins ==
  ASSUME NEW T, NEW ids, Vector(ids, T), ids # <<>>, followed,
         \E shuffled \in Shuffles(ids) : SimpleNextThread(shuffled, 0),
         NEW length, NEW index, index >= length, NEW left,
         (eligible \ left) \ served = {},
         Advance(length, index, left)
  PROVE  skipped' = {} /\ RoundStands'
  <1>1. /\ served' = {mCurrentThreadId'}
        /\ eligible' = Range(mActiveThreadIds')
        /\ skipped' = {}
    BY Zenon DEF Advance
  <1>2. PICK new \in Shuffles(ids) :
               /\ mActiveThreadIds' = new
               /\ mCurrentThreadId' = new[1]
               /\ mNextIndex' = 1
    BY DEF SimpleNextThread
  <1>3. Vector(new, T) /\ Len(new) = Len(ids)
    BY ShuffleVector, Zenon
  <1>4. Len(new) \in Nat /\ DOMAIN new = 1..Len(new) /\ 1 \in 1..Len(new)
    BY <1>3 DEF Vector
  <1>5. \A t \in Range(new) \ {new[1]} : \E i \in 1..Len(new) : i > 1 /\ new[i] = t
    BY <1>4 DEF Range
  <1>6. RoundStands'
    BY <1>1, <1>2, <1>4, <1>5, Zenon DEF RoundStands
  <1> QED
    BY <1>1, <1>6, Zenon

(* The next thread of the vector continues the round.                      *)
LEMMA RoundContinues ==
  ASSUME NEW T, NEW ids, Vector(ids, T), followed,
         NEW index \in Nat, index < Len(ids), SimpleNextThread(ids, index),
         NEW left,
         \A t \in (eligible \ left) \ served : \E i \in 1..Len(ids) : i > index /\ ids[i] = t,
         skipped = {},
         Advance(Len(ids), index, left)
  PROVE  skipped' = {} /\ RoundStands'
  <1>0. Len(ids) \in Nat
    BY DEF Vector
  <1>1. /\ served' = served \cup {mCurrentThreadId'}
        /\ eligible' = eligible \ left
        /\ skipped' = {}
    BY <1>0 DEF Advance
  <1>2. /\ mActiveThreadIds' = ids
        /\ mCurrentThreadId' = ids[index + 1]
        /\ mNextIndex' = index + 1
    BY Zenon DEF SimpleNextThread
  <1>3. index + 1 \in 1..Len(ids)
    BY <1>0
  <1>4. ASSUME NEW t \in eligible' \ served'
        PROVE  \E i \in 1..Len(ids) : i > index + 1 /\ ids[i] = t
    <2>1. t \in (eligible \ left) \ served /\ t # ids[index + 1]
      BY <1>1, <1>2, Zenon
    <2>2. PICK i \in 1..Len(ids) : i > index /\ ids[i] = t
      BY <2>1, Zenon
    <2>3. i > index + 1
      BY <1>0, <2>1, <2>2
    <2> QED
      BY <2>2, <2>3, Zenon
  <1>5. RoundStands'
    BY <1>2, <1>3, <1>4, Zenon DEF RoundStands
  <1> QED
    BY <1>1, <1>5, Zenon

(* The start of the schedule begins the first round.                       *)
LEMMA StartKeepsRounds ==
  ASSUME Parts, RoundsInv, RStart
  PROVE  RoundsInv'
  <1>1. /\ phase = "setup" /\ mThreadIds = Threads /\ mBarriers = {} /\ eligible = {}
        /\ Start /\ Advance(0, 0, {}) /\ skipped = {}
    BY Zenon DEF Parts, TurnPart, RStart, Start, RoundsInv
  <1>2. Range(mActiveThreadIds) = Threads /\ Vector(mActiveThreadIds, Threads)
    BY <1>1, Zenon DEF Parts, BarriersPart, Consistent
  <1>3. mActiveThreadIds # <<>>
    BY <1>2, ThreadsAssumption, RangeEmpty, Zenon DEF Vector
  <1>4. RefreshSchedule /\ mBarriers' = {} /\ phase' \in {"idle", "failed"}
    BY <1>1, <1>3, Zenon DEF Start, StartSchedule, RefreshScheduleError, EnterPhase, NoFailure
  <1>5. CASE ~followed
    BY <1>1, <1>4, <1>5, Zenon DEF Advance, roundVars, RoundsInv
  <1>6. CASE followed
    <2>1. (eligible \ {}) \ served = {} /\ 0 >= 0
      BY <1>1
    <2>2. skipped' = {} /\ RoundStands'
      BY <1>1, <1>2, <1>3, <1>4, <1>6, <2>1, RoundBegins, Zenon DEF RefreshSchedule
    <2> QED
      BY <1>4, <2>2, Zenon DEF RoundsInv
  <1> QED
    BY <1>5, <1>6, Zenon

(* Finish serves the next thread of the round, or ends it.                 *)
LEMMA FinishKeepsRounds ==
  ASSUME Parts, RoundsInv, RFinish
  PROVE  RoundsInv'
  <1>1. /\ phase \in {"open", "synced"} /\ mCurrentThreadId \in mThreadIds
        /\ Running /\ mThreadIds # {} /\ Finish /\ mNextIndex \in Nat
    BY Zenon DEF Parts, TurnPart, RFinish, Finish, Running
  <1>2. mBarriers' = mBarriers /\ mThreadIds' = mThreadIds /\ phase' \in {"idle", "failed"}
    BY <1>1, Zenon DEF Finish, NextThread, Fail, strategyVars, EnterPhase
  <1>3. CASE failure' # NoFailure
    <2>1. phase' = "failed" /\ UNCHANGED roundVars
      BY <1>1, <1>3, Zenon DEF Finish, EnterPhase, RFinish
    <2> QED
      BY <1>2, <2>1, Zenon DEF RoundsInv, Running, roundVars
  <1>4. CASE failure' = NoFailure /\ mState = "Locked"
    <2>1. UNCHANGED roundVars
      BY <1>4, Zenon DEF RFinish
    <2>2. UNCHANGED <<mActiveThreadIds, mNextIndex, mCurrentThreadId>>
      BY <1>1, <1>4, Zenon DEF Finish, NextThread, NextThreadFrom, Fail, strategyVars
    <2>3. RoundStands => RoundStands'
      BY <2>1, <2>2, Zenon DEF RoundStands, roundVars
    <2> QED
      BY <1>1, <1>2, <2>1, <2>3, Zenon DEF RoundsInv, roundVars
  <1>5. CASE failure' = NoFailure /\ mState # "Locked"
    <2>1. /\ Advance(Len(mActiveThreadIds), mNextIndex, {})
          /\ NextThreadFrom(mState, mActiveThreadIds, mNextIndex)
      BY <1>1, <1>5, Zenon DEF RFinish, Finish, NextThread, Fail
    <2>2. CASE ~followed
      BY <1>2, <2>1, <2>2, Zenon DEF Advance, roundVars, RoundsInv
    <2>3. CASE followed
      <3>1. /\ RoundStands /\ skipped = {} /\ mBarriers = {}
            /\ Vector(mActiveThreadIds, mThreadIds) /\ Len(mActiveThreadIds) \in Nat
        BY <1>1, <2>3 DEF RoundsInv, Parts, BarriersPart, Vector
      <3>2. mActiveThreadIds # <<>>
        BY <3>1 DEF RoundStands
      <3>3. \A t \in (eligible \ {}) \ served :
               \E i \in 1..Len(mActiveThreadIds) : i > mNextIndex /\ mActiveThreadIds[i] = t
        BY <3>1, Zenon DEF RoundStands
      <3>4. CASE mNextIndex < Len(mActiveThreadIds)
        <4>1. SimpleNextThread(mActiveThreadIds, mNextIndex)
          BY <1>1, <1>5, <2>1, <3>1, <3>2, <3>4 DEF NextThreadFrom
        <4>2. skipped' = {} /\ RoundStands'
          BY <1>1, <2>1, <2>3, <3>1, <3>3, <3>4, <4>1, RoundContinues
        <4> QED
          BY <1>2, <3>1, <4>2 DEF RoundsInv
      <3>5. CASE mNextIndex >= Len(mActiveThreadIds)
        <4>1. \E shuffled \in Shuffles(mActiveThreadIds) : SimpleNextThread(shuffled, 0)
          BY <1>1, <1>5, <2>1, <3>1, <3>2, <3>5 DEF NextThreadFrom
        <4>2. (eligible \ {}) \ served = {}
          BY <1>1, <3>1, <3>3, <3>5
        <4>3. skipped' = {} /\ RoundStands'
          BY <2>1, <2>3, <3>1, <3>2, <3>5, <4>1, <4>2, RoundBegins
        <4> QED
          BY <1>2, <3>1, <4>3 DEF RoundsInv
      <3> QED
        BY <1>1, <3>1, <3>4, <3>5
    <2> QED
      BY <2>2, <2>3, Zenon
  <1> QED
    BY <1>3, <1>4, <1>5, Zenon

(* A thread that ends leaves the round; the ones behind it move up by one  *)
(* place, and so does mNextIndex.                                          *)
LEMMA EndLeavesRound ==
  ASSUME Parts, RoundStands, NEW new, new = Erase(mActiveThreadIds, mCurrentThreadId)
  PROVE  /\ Len(new) = Len(mActiveThreadIds) - 1 /\ Len(new) \in Nat
         /\ Decrement(mNextIndex) = mNextIndex - 1 /\ mNextIndex - 1 \in Nat
         /\ mNextIndex - 1 <= Len(new)
         /\ \A u \in (eligible \ {mCurrentThreadId}) \ served :
               \E i \in 1..Len(new) : i > mNextIndex - 1 /\ new[i] = u
  <1> DEFINE ids == mActiveThreadIds
             k == mNextIndex
  <1>1. /\ k \in 1..Len(ids) /\ mCurrentThreadId = ids[k]
        /\ Len(ids) \in Nat /\ Vector(ids, mThreadIds)
    BY DEF RoundStands, Parts, BarriersPart, Vector
  <1> HIDE DEF ids, k
  <1>2. /\ Len(new) = Len(ids) - 1
        /\ \A i \in 1..(Len(ids) - 1) : new[i] = IF i < k THEN ids[i] ELSE ids[i + 1]
    BY <1>1, EraseElements, Zenon DEF ids
  <1>3. ASSUME NEW u \in (eligible \ {mCurrentThreadId}) \ served
        PROVE  \E i \in 1..Len(new) : i > k - 1 /\ new[i] = u
    <2>1. PICK i \in 1..Len(ids) : i > k /\ ids[i] = u
      BY Zenon DEF RoundStands, ids, k
    <2>2. i - 1 \in 1..(Len(ids) - 1) /\ ~(i - 1 < k) /\ (i - 1) + 1 = i /\ i - 1 > k - 1
      BY <1>1, <2>1
    <2>3. new[i - 1] = ids[i]
      BY <1>2, <2>2, Zenon
    <2> QED
      BY <1>2, <2>1, <2>2, <2>3, Zenon
  <1>4. Decrement(k) = k - 1 /\ k - 1 \in Nat /\ k - 1 <= Len(new) /\ Len(new) \in Nat
    BY <1>1, <1>2 DEF Decrement
  <1> QED
    BY <1>2, <1>3, <1>4, Zenon DEF ids, k

(* ReportThreadDone goes on with the round.                                *)
LEMMA ReportThreadDoneKeepsRounds ==
  ASSUME Parts, RoundsInv, NEW t \in Threads, RReportThreadDone(t)
  PROVE  RoundsInv'
  <1>1. /\ phase = "idle" /\ t \in mThreadIds /\ t = mCurrentThreadId /\ ReportThreadDone(t)
        /\ failure = NoFailure /\ phase' = IF failure' = NoFailure THEN "idle" ELSE "failed"
    BY Zenon DEF RReportThreadDone, ReportThreadDone, Parts, TurnPart, EnterPhase
  <1>2. CASE failure' = "invalid-barriers-state" /\ UNCHANGED <<strategyVars, mBarriers>>
    <2>1. phase' = "failed" /\ UNCHANGED roundVars /\ mBarriers' = mBarriers
      BY <1>1, <1>2 DEF RReportThreadDone, NoFailure
    <2> QED
      BY <2>1, Zenon DEF RoundsInv, Running, roundVars
  <1>3. ASSUME NEW released, Removed(t, released) PROVE RoundsInv'
    <2> DEFINE new == PushBack(Erase(mActiveThreadIds, t), released)
               scheduled == mThreadIds \ {t}
    <2>1. /\ Vector(new, scheduled) /\ NextThreadFrom("Finishing", new, Decrement(mNextIndex))
          /\ failure' = NoFailure /\ mThreadIds' = scheduled
          /\ Vector(released, Freed(t))
      BY <1>1, <1>3, Zenon DEF Removed
    <2>2. /\ Range(mActiveThreadIds') = Range(new)
          /\ scheduled # {} => mCurrentThreadId' \in Range(new)
          /\ Vector(mActiveThreadIds', scheduled)
      BY <1>3, RemovedChooses, Zenon
    <2>3. phase' = "idle"
      BY <1>1, <2>1, Zenon
    <2>4. CASE ~followed
      <3>1. UNCHANGED roundVars
        BY <2>4, Zenon DEF RReportThreadDone, Advance
      <3> QED
        BY <2>3, <2>4, <3>1 DEF RoundsInv, roundVars
    <2>5. CASE followed
      <3>1. RoundStands /\ skipped = {} /\ mBarriers = {}
        BY <1>1, <2>5, Zenon DEF RoundsInv, Running
      <3>2. Freed(t) = {}
        BY <3>1, Zenon DEF Freed, LastAt, GetParticipatingBarriers
      <3>3. released = <<>>
        BY <2>1, <3>2 DEF Vector
      <3>4. Erase(mActiveThreadIds, t) \in Seq(mThreadIds)
        BY EraseVector, Zenon DEF Parts, BarriersPart, Vector
      <3>5. new = Erase(mActiveThreadIds, t)
        BY <3>3, <3>4 DEF PushBack
      <3> HIDE DEF new
      <3>6. mBarriers' = {}
        <4>1. GetParticipatingBarriers(mBarriers, t) = {}
          BY <3>1, Zenon DEF GetParticipatingBarriers
        <4> QED
          BY <1>1, <3>1, <4>1 DEF ReportThreadDone, RemoveThreadId, Fail
      <3>7. /\ Len(new) = Len(mActiveThreadIds) - 1 /\ Len(new) \in Nat
            /\ Decrement(mNextIndex) = mNextIndex - 1 /\ mNextIndex - 1 \in Nat
            /\ \A u \in (eligible \ {t}) \ served :
                  \E i \in 1..Len(new) : i > mNextIndex - 1 /\ new[i] = u
        BY <1>1, <3>1, <3>5, EndLeavesRound
      <3>8. CASE new = <<>>
        <4>1. Range(new) = {}
          BY <3>8 DEF Range
        <4>2. scheduled = {} /\ mActiveThreadIds' = <<>>
          BY <2>2, <4>1, RangeEmpty, Zenon DEF Vector
        <4>3. UNCHANGED roundVars
          BY <4>2, Zenon DEF RReportThreadDone
        <4> QED
          BY <2>1, <2>3, <3>1, <3>6, <4>2, <4>3, Zenon DEF RoundsInv, roundVars
      <3>9. CASE new # <<>> /\ mNextIndex - 1 < Len(new)
        <4>1. SimpleNextThread(new, mNextIndex - 1)
          BY <2>1, <3>7, <3>9 DEF NextThreadFrom
        <4>2. mActiveThreadIds' = new
          BY <4>1, Zenon DEF SimpleNextThread
        <4>3. Advance(Len(new), mNextIndex - 1, {t})
          BY <2>1, <3>7, <3>9, <4>2, Zenon DEF RReportThreadDone
        <4>4. skipped' = {} /\ RoundStands'
          BY <2>1, <2>5, <3>1, <3>7, <3>9, <4>1, <4>3, RoundContinues, Zenon
        <4> QED
          BY <2>3, <3>6, <4>4, Zenon DEF RoundsInv
      <3>10. CASE new # <<>> /\ ~(mNextIndex - 1 < Len(new))
        <4>1. PICK shuffled \in Shuffles(new) : SimpleNextThread(shuffled, 0)
          BY <2>1, <3>7, <3>10, Zenon DEF NextThreadFrom
        <4>2. mActiveThreadIds' = shuffled /\ Len(shuffled) = Len(new)
          BY <2>1, <4>1, ShuffleVector, Zenon DEF SimpleNextThread
        <4>3. mNextIndex - 1 >= Len(new)
          BY <3>7, <3>10
        <4>4. mActiveThreadIds' # <<>>
          BY <2>1, <2>2, <3>10, RangeEmpty DEF Vector
        <4>5. Advance(Len(new), mNextIndex - 1, {t})
          BY <2>1, <3>7, <4>2, <4>4 DEF RReportThreadDone
        <4>6. (eligible \ {t}) \ served = {}
          BY <3>7, <4>3
        <4>7. skipped' = {} /\ RoundStands'
          BY <2>1, <2>5, <3>10, <4>1, <4>3, <4>5, <4>6, RoundBegins, Zenon
        <4> QED
          BY <2>3, <3>6, <4>7 DEF RoundsInv
      <3> QED
        BY <3>8, <3>9, <3>10
    <2> QED
      BY <2>4, <2>5
  <1> QED
    BY <1>1, <1>2, <1>3, ReportThreadDoneRemoves

(* The calls that neither choose a thread nor synchronize.                 *)
LEMMA OtherKeepsRounds ==
  ASSUME Parts, RoundsInv, ROther
  PROVE  RoundsInv'
  <1>1. UNCHANGED roundVars
    BY Zenon DEF ROther
  <1>2. ASSUME UNCHANGED <<mCurrentThreadId, mNextIndex, mActiveThreadIds, mThreadIds, mBarriers>>,
               Running' => Running, phase' # "setup"
        PROVE  RoundsInv'
    <2>1. RoundStands => RoundStands'
      BY <1>1, <1>2, Zenon DEF RoundStands, roundVars
    <2> QED
      BY <1>1, <1>2, <2>1, Zenon DEF RoundsInv, roundVars
  <1>3. CASE FinishNoAdvance
    BY <1>2, <1>3, Zenon DEF FinishNoAdvance, schedulerVars, strategyVars, Running
  <1>4. CASE Stop
    BY <1>2, <1>4, Zenon DEF Stop, strategyVars, Running, EnterPhase
  <1>5. CASE Destroy
    BY <1>2, <1>5, Zenon DEF Destroy, strategyVars, Running, EnterPhase
  <1>6. CASE Ended
    BY <1>2, <1>6, Zenon DEF Ended, vars, schedulerVars, strategyVars, Running
  <1>7. ASSUME NEW t \in Threads, Setup(t) PROVE RoundsInv'
    BY <1>1, <1>7, Zenon DEF Setup, AddThreadId, RoundsInv, Running, roundVars
  <1>8. ASSUME NEW t \in Threads, Request(t) PROVE RoundsInv'
    BY <1>2, <1>8, Zenon DEF Request, schedulerVars, strategyVars, Running
  <1>9. ASSUME NEW t \in Threads, Lock(t) PROVE RoundsInv'
    <2>1. UNCHANGED <<mCurrentThreadId, mNextIndex, mActiveThreadIds, mThreadIds, mBarriers>>
      BY <1>9, Zenon DEF Lock, LockThreadScheduler, LockSchedule, Fail, strategyVars
    <2> QED
      BY <1>2, <1>9, <2>1, Zenon DEF Lock, EnterPhase, Running
  <1>10. ASSUME NEW t \in Threads, Unlock(t) PROVE RoundsInv'
    <2>1. UNCHANGED <<mCurrentThreadId, mNextIndex, mActiveThreadIds, mThreadIds, mBarriers>>
      BY <1>10, Zenon DEF Unlock, UnlockThreadScheduler, UnlockSchedule, Fail, strategyVars
    <2> QED
      BY <1>2, <1>10, <2>1 DEF Unlock, EnterPhase, Running
  <1> QED
    BY <1>3, <1>4, <1>5, <1>6, <1>7, <1>8, <1>9, <1>10, Zenon DEF ROther

(* Every step keeps the rounds' invariant; the first barrier ends them.    *)
LEMMA RoundsNext ==
  ASSUME ~PastBarriers, Parts, RoundsInv, [RNext]_<<vars, roundVars>>
  PROVE  RoundsInv'
  <1>1. ASSUME NEW t \in Threads, NEW S \in SyncSets, RSynchronize(t, S) PROVE RoundsInv'
    <2>1. ~followed' /\ skipped' = skipped /\ phase' \in {"synced", "failed"}
      BY <1>1, Zenon DEF RSynchronize, Synchronize, EnterPhase
    <2> QED
      BY <2>1, Zenon DEF RoundsInv
  <1>2. CASE UNCHANGED <<vars, roundVars>>
    BY <1>2, Zenon DEF RoundsInv, RoundStands, Running, vars, schedulerVars, strategyVars, roundVars
  <1> QED
    BY <1>1, <1>2, StartKeepsRounds, FinishKeepsRounds, ReportThreadDoneKeepsRounds,
       OtherKeepsRounds DEF RNext

(* The history variables only watch: the steps are those of RequestTurns.  *)
THEOREM RoundsAreTurns == RSpec => Spec
  <1>1. RInit => Init
    BY Zenon DEF RInit
  <1>2. [RNext]_<<vars, roundVars>> => [Next]_vars
    BY Zenon DEF RNext, RStart, RFinish, RSynchronize, RReportThreadDone, ROther, Next
  <1> QED
    BY <1>1, <1>2, PTL DEF RSpec, Spec

(* Round robin: up to the first barrier every round serves every thread    *)
(* that was active throughout it.                                          *)
THEOREM RoundsServeAll ==
  ASSUME ~PastBarriers
  PROVE  RSpec => []EveryRoundServesAll
  <1>1. RInit => RoundsInv
    BY Zenon DEF RInit, Init, SchedulerInit, RoundsInv, Running
  <1>2. Parts /\ RoundsInv /\ [RNext]_<<vars, roundVars>> => RoundsInv'
    BY RoundsNext, Zenon
  <1>3. RoundsInv => EveryRoundServesAll
    BY Zenon DEF RoundsInv, EveryRoundServesAll
  <1>4. RSpec => []Parts
    BY RoundsAreTurns, Invariance, PartsAreIInv, PTL
  <1> QED
    BY <1>1, <1>2, <1>3, <1>4, PTL DEF RSpec
=============================================================================

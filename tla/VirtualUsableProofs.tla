-------------------------- MODULE VirtualUsableProofs --------------------------
(***************************************************************************)
(* Proofs about VmAddressSpace, from its invariant: no page is mapped onto *)
(* a physical page that is closed to aliasing, committing a page FAILs on  *)
(* none of its checks, and what the spaces offer for allocation is what    *)
(* the physical memory bank has usable, as long as an update of the bank   *)
(* touches one physical page.                                              *)
(***************************************************************************)
EXTENDS VmAddressSpaceProofs, FiniteSetTheorems

(* What a populated space says of addresses it has not mapped: none is     *)
(* shared, and unless the space is flat mapped all but those of its page   *)
(* tables are usable.                                                      *)
Mapped(s) == UNION {Virtual(v) : v \in spaces[s].pages}

FreshIn(s) ==
    Filled(s) =>
        /\ Value(spaces[s].constraint.shared) \subseteq Mapped(s)
        /\ s \notin FlatMapped =>
              Addresses \ (spaces[s].blocks \cup Mapped(s)) \subseteq Value(spaces[s].constraint.usable)

UnmappedFresh == \A s \in Spaces : FreshIn(s)

ExactFor(v) ==
    Filled(v.space) =>
        /\ AtMostBank(spaces[v.space].constraint, v)
        /\ v.space \notin FlatMapped =>
              AtLeastBank(spaces[v.space].constraint, v, spaces[v.space].blocks)

PagesExact == \A v \in ListedPages : ExactFor(v)

FInv == VInv /\ UnmappedFresh

UInv == FInv /\ PagesExact

-----------------------------------------------------------------------------
(* What the spaces map *)

(* Only a mapping adds a page to a space.                                  *)
LEMMA OnlyMappingAddsPages ==
  ASSUME VInv, \/ Update
               \/ \E region \in Regions : AddPhysicalRegion(region)
               \/ \E s \in Spaces : Setup(s) \/ Activate(s) \/ FinishActivate(s) \/ Deactivate(s)
               \/ UNCHANGED vars
  PROVE  \A t \in Spaces : spaces'[t].pages = spaces[t].pages
  <1>0. CASE LeavesMemory
    BY <1>0, Zenon DEF LeavesMemory
  <1> SUFFICES ASSUME ~LeavesMemory PROVE \A t \in Spaces : spaces'[t].pages = spaces[t].pages
    BY <1>0, Zenon
  <1>1. CASE Update
    <2>1. PICK kind \in Kinds, range \in SUBSET Addresses :
             spaces' = HandleMemoryConstraintUpdate(spaces, kind, range)
      BY <1>1, UpdateKinds, Zenon
    <2> QED
      BY <2>1, HandleSays
  <1>2. ASSUME NEW s \in Spaces, Setup(s)
        PROVE  \A t \in Spaces : spaces'[t].pages = spaces[t].pages
    BY <1>2, SetupEffect, Zenon
  <1>3. ASSUME NEW s \in Spaces, Activate(s)
        PROVE  \A t \in Spaces : spaces'[t].pages = spaces[t].pages
    BY <1>3, ActivateEffect, Zenon
  <1>4. ASSUME NEW s \in Spaces, Deactivate(s)
        PROVE  \A t \in Spaces : spaces'[t].pages = spaces[t].pages
    BY <1>4, DeactivateEffect, Zenon
  <1>5. ASSUME NEW s \in Spaces, FinishActivate(s)
        PROVE  \A t \in Spaces : spaces'[t].pages = spaces[t].pages
    BY <1>5, FinishActivateEffect, Zenon
  <1>6. ASSUME NEW region \in Regions, AddPhysicalRegion(region)
        PROVE  \A t \in Spaces : spaces'[t].pages = spaces[t].pages
    BY <1>6, Zenon DEF AddPhysicalRegion
  <1>7. CASE UNCHANGED vars
    BY <1>7, Zenon DEF vars
  <1> QED
    BY <1>1, <1>2, <1>3, <1>4, <1>5, <1>6, <1>7

(* AliasAllocation: no step maps a page onto a physical page closed to     *)
(* aliasing, unless the request is flat or forces memory attributes.       *)
THEOREM ClosedPagesKeptApart == Spec => ClosedPagesNotAliased
  <1> DEFINE Step == \A s \in Spaces : \A v \in spaces'[s].pages \ spaces[s].pages :
                        v.plain => \A p \in manager.pages : Overlaps(p, Physical(v)) => p.canAlias
  <1>1. VInv /\ [Next]_vars => [Step]_vars
    <2> SUFFICES ASSUME VInv, Next PROVE Step
      BY Zenon
    <2>1. CASE \A s \in Spaces : spaces'[s].pages = spaces[s].pages
      BY <2>1, Zenon
    <2>2. ASSUME NEW s \in Spaces, NEW v, NEW size, NEW request, NEW o,
                 Commits(s, v, manager, size, request, o)
          PROVE  Step
      <3>1. \A t \in Spaces : \A w \in spaces'[t].pages \ spaces[t].pages : w = v
        BY <2>2, CommitEffect
      <3>2. v.plain => \A p \in PagesIn(manager, Physical(v)) : p.canAlias
        BY <2>2, Zenon DEF Commits, GoodOutcome
      <3> QED
        BY <3>1, <3>2 DEF PagesIn
    <2>3. ASSUME NEW s \in Spaces, Mapping(s) PROVE Step
      <3>1. CASE LeavesMemory
        BY <2>1, <3>1, Zenon DEF LeavesMemory
      <3> QED
        BY <2>2, <2>3, <3>1, MappingCommits, Zenon
    <2> HIDE DEF Step
    <2> QED
      BY <2>1, <2>3, OnlyMappingAddsPages, Zenon DEF Next
  <1> QED
    BY <1>1, VInvariance, PTL DEF Spec, ClosedPagesNotAliased

-----------------------------------------------------------------------------
(* What the spaces offer *)

(* A space is told of exactly the addresses of its listed pages whose      *)
(* physical addresses are updated, as long as an update touches one        *)
(* physical page.                                                          *)
LEMMA ToldExactly ==
  ASSUME VInv, NEW range, InOnePage(range),
         NEW v \in ListedPages, NEW b \in Virtual(v)
  PROVE  b \in ToldOf(v.space, range) <=> ToPhysical(v, b) \in range
  <1>1. PICK p \in manager.pages : v \in Listed(p)
    BY Zenon DEF ListedPages
  <1>2. /\ v \in VirtualPages /\ v.space \in Spaces /\ v \in spaces[v.space].pages
        /\ Physical(v) \subseteq Frame(p)
    BY <1>1, ListedPagesCommitted, Zenon
  <1>3. ASSUME ToPhysical(v, b) \in range PROVE b \in ToldOf(v.space, range)
    <2>1. ToPhysical(v, b) \in Physical(v) /\ b \in ToVirtual(v, range)
      BY <1>2, <1>3, ToVirtualMember, Zenon
    <2>2. p \in PagesIn(manager, range)
      BY <1>1, <1>2, <1>3, <2>1, Zenon DEF PagesIn, Overlaps
    <2>3. \A q \in PagesIn(manager, range) : q = p
      BY <2>2, Zenon DEF InOnePage
    <2>4. p.lower <= p.lower
      <3>1. p.lower \in Nat
        BY FramesByStart, PageAssumption DEF VInv, Addresses
      <3> QED
        BY <3>1
    <2>5. v \in Told(v.space, range)
      BY <1>1, <1>2, <1>3, <2>1, <2>2, <2>3, <2>4, Zenon DEF Told
    <2> QED
      BY <2>1, <2>5, Zenon DEF ToldOf
  <1>4. ASSUME b \in ToldOf(v.space, range) PROVE ToPhysical(v, b) \in range
    <2>1. PICK w \in Told(v.space, range) : b \in ToVirtual(w, range)
      BY <1>4, Zenon DEF ToldOf
    <2>2. w \in VirtualPages /\ w.space = v.space /\ \E q \in manager.pages : w \in Listed(q)
      BY <2>1, Zenon DEF Told, PagesIn
    <2>3. w \in spaces[v.space].pages
      BY <2>2, ListedPagesCommitted, Zenon
    <2>4. b \in Virtual(w) /\ ToPhysical(w, b) \in range
      BY <2>1, <2>2, ToVirtualMember, Zenon
    <2>5. w = v
      BY <1>2, <2>3, <2>4, Zenon DEF VInv, PagesApart, Collide
    <2> QED
      BY <2>4, <2>5, Zenon
  <1> QED
    BY <1>3, <1>4, Zenon

(* A space is told of addresses that it has mapped only.                   *)
LEMMA ToldOfMapped ==
  ASSUME VInv, NEW s \in Spaces, NEW range
  PROVE  ToldOf(s, range) \subseteq Mapped(s)
  <1> SUFFICES ASSUME NEW w \in Told(s, range) PROVE ToVirtual(w, range) \subseteq Mapped(s)
    BY Zenon DEF ToldOf
  <1>1. w \in VirtualPages /\ w.space = s /\ \E q \in manager.pages : w \in Listed(q)
    BY Zenon DEF Told, PagesIn
  <1>2. w \in spaces[s].pages
    BY <1>1, ListedPagesCommitted, Zenon
  <1>3. ToVirtual(w, range) \subseteq Virtual(w)
    BY <1>1, ToVirtualInPage, Zenon
  <1> QED
    BY <1>2, <1>3, Zenon DEF Mapped

(* An update of the bank reaches the initialized spaces.                   *)
LEMMA UpdateKeeps ==
  ASSUME FInv, Idle, NEW kind \in Kinds, NEW range \in SUBSET Addresses,
         Says(bank', UsableAfter(kind, Value(bank.usable), range),
                     SharedAfter(kind, Value(bank.shared), range)),
         manager'.pages = manager.pages,
         \A t \in Spaces : Filled(t)' =>
            spaces'[t] = HandleMemoryConstraintUpdate(spaces, kind, range)[t]
  PROVE  UnmappedFresh' /\ (InOnePage(range) /\ PagesExact => PagesExact')
  <1>1. VInv /\ UnmappedFresh
    BY Zenon DEF FInv
  <1>2. ASSUME NEW t \in Spaces, Filled(t)'
        PROVE  /\ Filled(t)
               /\ spaces'[t].pages = spaces[t].pages /\ spaces'[t].blocks = spaces[t].blocks
               /\ Value(spaces'[t].constraint.usable) =
                     UsableAfter(kind, Value(spaces[t].constraint.usable), ToldOf(t, range))
               /\ Value(spaces'[t].constraint.shared) =
                     SharedAfter(kind, Value(spaces[t].constraint.shared), ToldOf(t, range))
    <2>1. PICK x : x = HandleMemoryConstraintUpdate(spaces, kind, range)[t]
      BY Zenon
    <2>2. spaces'[t] = x
      BY <1>2, <2>1, Zenon
    <2>3. x.state = spaces[t].state
      BY <1>1, <2>1, HandleSays
    <2>4. Filled(t)
      BY <1>2, <2>2, <2>3 DEF Filled
    <2>5. IsInitialized(spaces, t)
      BY <2>4, Zenon DEF Filled, IsInitialized, Idle
    <2> QED
      BY <1>1, <2>1, <2>2, <2>4, <2>5, HandleSays
  <1>3. UnmappedFresh'
    <2> SUFFICES ASSUME NEW t \in Spaces, Filled(t)'
                 PROVE  /\ Value(spaces'[t].constraint.shared) \subseteq Mapped(t)'
                        /\ t \notin FlatMapped =>
                              Addresses \ (spaces'[t].blocks \cup Mapped(t)')
                                 \subseteq Value(spaces'[t].constraint.usable)
      BY Zenon DEF UnmappedFresh, FreshIn
    <2>1. Mapped(t)' = Mapped(t)
      BY <1>2, Zenon DEF Mapped
    <2>2. ToldOf(t, range) \subseteq Mapped(t)
      BY <1>1, ToldOfMapped, Zenon
    <2>3. /\ Value(spaces[t].constraint.shared) \subseteq Mapped(t)
          /\ t \notin FlatMapped =>
                Addresses \ (spaces[t].blocks \cup Mapped(t)) \subseteq Value(spaces[t].constraint.usable)
      BY <1>1, <1>2, Zenon DEF UnmappedFresh, FreshIn
    <2> QED
      BY <1>2, <2>1, <2>2, <2>3, Zenon DEF UsableAfter, SharedAfter
  <1>4. ASSUME InOnePage(range), PagesExact PROVE PagesExact'
    <2>1. ListedPages' = ListedPages
      BY Zenon DEF ListedPages
    <2> SUFFICES ASSUME NEW v \in ListedPages, Filled(v.space)'
                 PROVE  /\ AtMostBank(spaces[v.space].constraint, v)'
                        /\ v.space \notin FlatMapped =>
                              AtLeastBank(spaces[v.space].constraint, v, spaces[v.space].blocks)'
      BY <2>1, Zenon DEF PagesExact, ExactFor
    <2> DEFINE c == spaces[v.space].constraint
               d == spaces'[v.space].constraint
               T == ToldOf(v.space, range)
    <2>2. v.space \in Spaces
      BY <1>1, ListedPagesCommitted DEF ListedPages
    <2>3. /\ Value(d.usable) = UsableAfter(kind, Value(c.usable), T)
          /\ Value(d.shared) = SharedAfter(kind, Value(c.shared), T)
          /\ spaces'[v.space].blocks = spaces[v.space].blocks
          /\ Filled(v.space)
      BY <1>2, <2>2
    <2>4. /\ Value(bank'.usable) = UsableAfter(kind, Value(bank.usable), range)
          /\ Value(bank'.shared) = SharedAfter(kind, Value(bank.shared), range)
      BY Zenon DEF Says
    <2>5. \A b \in Virtual(v) : b \in T <=> ToPhysical(v, b) \in range
      BY <1>1, <1>4, ToldExactly
    <2>6. AtMostBank(c, v) /\ (v.space \notin FlatMapped => AtLeastBank(c, v, spaces[v.space].blocks))
      BY <1>4, <2>3 DEF PagesExact, ExactFor
    <2> HIDE DEF T
    <2>7. AtMostBank(spaces[v.space].constraint, v)'
      <3>1. ASSUME NEW b \in Virtual(v)
            PROVE  /\ b \in Value(d.usable) => ToPhysical(v, b) \in Value(bank'.usable)
                   /\ b \in Value(d.shared) <=> ToPhysical(v, b) \in Value(bank'.shared)
        <4>1. /\ b \in Value(c.usable) => ToPhysical(v, b) \in Value(bank.usable)
              /\ b \in Value(c.shared) <=> ToPhysical(v, b) \in Value(bank.shared)
              /\ b \in T <=> ToPhysical(v, b) \in range
          BY <2>5, <2>6 DEF AtMostBank
        <4> HIDE DEF c, d
        <4> QED
          BY <2>3, <2>4, <4>1 DEF UsableAfter, SharedAfter
      <3> QED
        BY <3>1, Zenon DEF AtMostBank
    <2>8. ASSUME v.space \notin FlatMapped
          PROVE  AtLeastBank(spaces[v.space].constraint, v, spaces[v.space].blocks)'
      <3>1. ASSUME NEW b \in Virtual(v), ToPhysical(v, b) \in Value(bank'.usable),
                   b \notin spaces'[v.space].blocks, b \notin Value(d.shared)
            PROVE  b \in Value(d.usable)
        <4>1. /\ ToPhysical(v, b) \in Value(bank.usable) /\ b \notin spaces[v.space].blocks
                    /\ b \notin Value(c.shared) => b \in Value(c.usable)
              /\ b \in T <=> ToPhysical(v, b) \in range
          BY <2>5, <2>6, <2>8 DEF AtLeastBank
        <4> HIDE DEF c, d
        <4> QED
          BY <2>3, <2>4, <3>1, <4>1 DEF UsableAfter, SharedAfter
      <3> QED
        BY <3>1, Zenon DEF AtLeastBank
    <2> QED
      BY <2>7, <2>8, Zenon
  <1> QED
    BY <1>3, <1>4, Zenon

SameBank == Value(bank'.usable) = Value(bank.usable) /\ Value(bank'.shared) = Value(bank.shared)

(* A space that does not change still agrees with a bank that only was     *)
(* read.                                                                   *)
LEMMA SameSpaceKeeps ==
  ASSUME UnmappedFresh, SameBank, NEW t \in Spaces,
         spaces'[t].constraint = spaces[t].constraint, spaces'[t].pages = spaces[t].pages,
         spaces'[t].blocks = spaces[t].blocks, Filled(t)' => Filled(t)
  PROVE  /\ FreshIn(t)'
         /\ PagesExact => \A v \in ListedPages : v.space = t => ExactFor(v)'
  <1>1. FreshIn(t)'
    <2>1. FreshIn(t) /\ Mapped(t)' = Mapped(t)
      BY Zenon DEF UnmappedFresh, Mapped
    <2> QED
      BY <2>1, Zenon DEF FreshIn
  <1>2. ASSUME PagesExact, NEW v \in ListedPages, v.space = t, Filled(t)'
        PROVE  /\ AtMostBank(spaces[t].constraint, v)'
               /\ t \notin FlatMapped => AtLeastBank(spaces[t].constraint, v, spaces[t].blocks)'
    <2>1. Filled(t)
      BY <1>2, Zenon
    <2>2. /\ AtMostBank(spaces[t].constraint, v)
          /\ t \notin FlatMapped => AtLeastBank(spaces[t].constraint, v, spaces[t].blocks)
      BY <1>2, <2>1, Zenon DEF PagesExact, ExactFor
    <2> QED
      BY <2>2, Zenon DEF AtMostBank, AtLeastBank, SameBank
  <1> QED
    BY <1>1, <1>2, Zenon DEF ExactFor

(* As does one that is the same altogether.                                *)
LEMMA UnchangedSpaceKeeps ==
  ASSUME UnmappedFresh, SameBank, NEW t \in Spaces, spaces'[t] = spaces[t]
  PROVE  /\ FreshIn(t)'
         /\ PagesExact => \A v \in ListedPages : v.space = t => ExactFor(v)'
  <1>1. Filled(t)' => Filled(t)
    BY Zenon DEF Filled
  <1> QED
    BY <1>1, SameSpaceKeeps, Zenon

(* A step that changes no memory keeps the agreement.                      *)
LEMMA LeavesMemoryKeeps ==
  ASSUME FInv, LeavesMemory
  PROVE  UnmappedFresh' /\ (PagesExact => PagesExact')
  <1>1. SameBank /\ ListedPages' = ListedPages /\ spaces' = spaces
    BY Zenon DEF SameBank, ListedPages, LeavesMemory
  <1>2. \A v \in ListedPages : v.space \in Spaces
    BY ListedPagesCommitted DEF FInv, ListedPages
  <1>3. ASSUME NEW t \in Spaces
        PROVE  FreshIn(t)' /\ (PagesExact => \A v \in ListedPages : v.space = t => ExactFor(v)')
    BY <1>1, UnchangedSpaceKeeps, Zenon DEF FInv
  <1> QED
    BY <1>1, <1>2, <1>3 DEF UnmappedFresh, PagesExact

(* A space that is not populated promises nothing.                         *)
LEMMA UninitializedKeeps ==
  ASSUME NEW t, ~Filled(t)'
  PROVE  FreshIn(t)' /\ \A v : v.space = t => ExactFor(v)'
  BY Zenon DEF FreshIn, ExactFor

(* Deactivate keeps the agreement of the spaces with the bank.             *)
LEMMA DeactivateKeeps ==
  ASSUME FInv, NEW s \in Spaces, Deactivate(s)
  PROVE  UnmappedFresh' /\ (PagesExact => PagesExact')
  <1>1. VInv /\ UnmappedFresh
    BY Zenon DEF FInv
  <1>2. /\ \A t \in Spaces \ {s} : spaces'[t] = spaces[t]
        /\ spaces'[s].state = "Uninitialized"
    BY <1>1, DeactivateEffect
  <1>3. SameBank /\ ListedPages' = ListedPages
    BY Zenon DEF Deactivate, SameBank, ListedPages
  <1>4. ~Filled(s)'
    BY <1>2 DEF Filled
  <1>5. ASSUME NEW t \in Spaces
        PROVE  FreshIn(t)' /\ (PagesExact => \A v \in ListedPages : v.space = t => ExactFor(v)')
    BY <1>1, <1>2, <1>3, <1>4, UnchangedSpaceKeeps, UninitializedKeeps
  <1>6. \A v \in ListedPages : v.space \in Spaces
    BY <1>1, ListedPagesCommitted DEF ListedPages
  <1> QED
    BY <1>3, <1>5, <1>6 DEF UnmappedFresh, PagesExact

(* The end of Initialize leaves the constraint of its space.               *)
LEMMA FinishActivateKeeps ==
  ASSUME FInv, NEW s \in Spaces, FinishActivate(s)
  PROVE  UnmappedFresh' /\ (PagesExact => PagesExact')
  <1>1. VInv /\ UnmappedFresh
    BY Zenon DEF FInv
  <1>2. /\ \A t \in Spaces \ {s} : spaces'[t] = spaces[t]
        /\ spaces[s].state = "Populated" /\ spaces'[s].constraint = spaces[s].constraint
        /\ spaces'[s].pages = spaces[s].pages /\ spaces'[s].blocks = spaces[s].blocks
        /\ bank' = bank /\ manager' = manager
    BY <1>1, FinishActivateEffect
  <1>3. SameBank /\ ListedPages' = ListedPages /\ Filled(s)
    BY <1>2, Zenon DEF SameBank, ListedPages, Filled
  <1>4. FreshIn(s)' /\ (PagesExact => \A v \in ListedPages : v.space = s => ExactFor(v)')
    BY <1>1, <1>2, <1>3, SameSpaceKeeps, Zenon
  <1>5. ASSUME NEW t \in Spaces
        PROVE  FreshIn(t)' /\ (PagesExact => \A v \in ListedPages : v.space = t => ExactFor(v)')
    BY <1>1, <1>2, <1>3, <1>4, UnchangedSpaceKeeps
  <1>6. \A v \in ListedPages : v.space \in Spaces
    BY <1>1, ListedPagesCommitted DEF ListedPages
  <1> QED
    BY <1>3, <1>5, <1>6 DEF UnmappedFresh, PagesExact

(* Activate establishes the agreement for its space, and disturbs no       *)
(* other.                                                                  *)
LEMMA ActivateKeeps ==
  ASSUME FInv, NEW s \in Spaces, Activate(s), ~LeavesMemory
  PROVE  UnmappedFresh' /\ (PagesExact => PagesExact')
  <1>1. VInv /\ UnmappedFresh
    BY Zenon DEF FInv
  <1> DEFINE c == PopulateVirtualUsableConstraint(s)
             blocks == spaces[s].blocks
             initial == IF s \in FlatMapped THEN (Addresses \ blocks) \cap Value(bank.usable)
                        ELSE Addresses \ blocks
  <1>2. /\ c \in Constraints
        /\ \A t \in Spaces \ {s} : spaces'[t] = spaces[t]
        /\ spaces'[s].constraint = c /\ spaces'[s].blocks = blocks
        /\ spaces'[s].pages = spaces[s].pages
        /\ SameBank
    BY <1>1, ActivateEffect DEF Says, SameBank
  <1>3. c \in Populated(spaces[s].pages, initial, Top + 1)
    BY <1>1, PopulateSays
  <1>4. ListedPages' = ListedPages
    <2>1. manager' = manager
      BY <1>1, ActivateEffect, Zenon
    <2> QED
      BY <2>1, Zenon DEF ListedPages
  <1>5. blocks \subseteq Addresses /\ (s \notin FlatMapped => initial = Addresses \ blocks)
    BY <1>1 DEF VInv, VTypeOK, SpaceStates
  <1>6. Value(c.shared) \subseteq Addresses
    BY <1>2, ConstraintFields
  <1> HIDE DEF c, blocks, initial
  <1>7. FreshIn(s)'
    <2>1. Mapped(s)' = Mapped(s)
      BY <1>2, Zenon DEF Mapped
    <2>2. ASSUME NEW b \in Addresses, b \notin Mapped(s)
          PROVE  (b \in Value(c.usable) <=> b \in initial) /\ b \notin Value(c.shared)
      BY <1>3, <2>2, Zenon DEF Populated, Mapped
    <2>3. Value(c.shared) \subseteq Mapped(s)
      BY <1>6, <2>2, Zenon
    <2>4. s \notin FlatMapped => Addresses \ (blocks \cup Mapped(s)) \subseteq Value(c.usable)
      BY <1>5, <2>2
    <2> QED
      BY <1>2, <2>1, <2>3, <2>4 DEF FreshIn
  <1>8. ASSUME NEW v \in ListedPages, v.space = s PROVE ExactFor(v)'
    <2>1. v \in spaces[s].pages /\ v \in VirtualPages
      BY <1>1, <1>8, ListedPagesCommitted DEF ListedPages
    <2>2. v.lower < Top + 1
      BY <2>1, VirtualPageFields, PageAssumption DEF Addresses
    <2>3. AtMostBank(c, v) /\ AtLeastBank(c, v, Addresses \ initial)
      BY <1>3, <2>1, <2>2, Zenon DEF Populated
    <2>4. s \notin FlatMapped => AtLeastBank(c, v, blocks)
      BY <1>5, <2>3 DEF AtLeastBank
    <2>5. AtMostBank(spaces[s].constraint, v)'
      BY <1>2, <2>3 DEF AtMostBank, SameBank
    <2>6. s \notin FlatMapped => AtLeastBank(spaces[s].constraint, v, spaces[s].blocks)'
      BY <1>2, <2>4 DEF AtLeastBank, SameBank
    <2> QED
      BY <1>8, <2>5, <2>6 DEF ExactFor
  <1>9. ASSUME NEW t \in Spaces
        PROVE  FreshIn(t)' /\ (PagesExact => \A v \in ListedPages : v.space = t => ExactFor(v)')
    BY <1>1, <1>2, <1>7, <1>8, UnchangedSpaceKeeps
  <1>10. \A v \in ListedPages : v.space \in Spaces
    BY <1>1, ListedPagesCommitted DEF ListedPages
  <1> QED
    BY <1>4, <1>9, <1>10 DEF UnmappedFresh, PagesExact

(* CommitPage keeps the agreement: the new page is taken in as the bank    *)
(* has it, and a page the merge drops from the lists is no longer spoken   *)
(* of.                                                                     *)
LEMMA CommitPageKeeps ==
  ASSUME FInv, NEW s \in Spaces, NEW v, NEW size, NEW request, NEW o,
         Commits(s, v, manager, size, request, o)
  PROVE  UnmappedFresh' /\ (PagesExact => PagesExact')
  <1>1. VInv /\ UnmappedFresh
    BY Zenon DEF FInv
  <1> DEFINE c == spaces[s].constraint
             d == UpdateVirtualUsableByPage(c, v)
             blocks == spaces[s].blocks
  <1>2. /\ \A t \in Spaces \ {s} : spaces'[t] = spaces[t]
        /\ spaces'[s].constraint = d /\ spaces'[s].blocks = blocks
        /\ spaces'[s].pages = spaces[s].pages \cup {v} /\ spaces'[s].state = spaces[s].state
        /\ SameBank
    BY <1>1, CommitEffect, Zenon DEF Says, SameBank
  <1>3. v \in VirtualPages /\ v.space = s /\ \A w \in spaces[s].pages : Virtual(v) \cap Virtual(w) = {}
    BY Zenon DEF Commits, Collide
  <1>4. c \in Constraints /\ bank \in Constraints
    BY <1>1, Zenon DEF VInv, VTypeOK, SpaceStates
  <1>5. /\ SameOutside(c, d, Virtual(v))
        /\ Value(c.shared) \cap Virtual(v) = {} => AtMostBank(d, v)
        /\ \A X : Virtual(v) \ X \subseteq Value(c.usable) => AtLeastBank(d, v, X)
        /\ d \in Constraints
    BY <1>3, <1>4, UsableByPage
  <1>6. Filled(s)' <=> Filled(s)
    BY <1>2, Zenon DEF Filled
  <1>7. Mapped(s) \cap Virtual(v) = {} /\ Virtual(v) \subseteq Addresses
    BY <1>3, VirtualPageFields DEF Mapped
  <1>8. Filled(s) =>
          /\ Value(c.shared) \subseteq Mapped(s)
          /\ s \notin FlatMapped => Addresses \ (blocks \cup Mapped(s)) \subseteq Value(c.usable)
    BY <1>1, Zenon DEF UnmappedFresh, FreshIn
  <1> HIDE DEF c, d, blocks
  <1>9. FreshIn(s)'
    <2> SUFFICES ASSUME Filled(s)
                 PROVE  /\ Value(d.shared) \subseteq Mapped(s)'
                        /\ s \notin FlatMapped =>
                              Addresses \ (blocks \cup Mapped(s)') \subseteq Value(d.usable)
      BY <1>2, <1>6, Zenon DEF FreshIn
    <2>1. Mapped(s)' = Mapped(s) \cup Virtual(v)
      BY <1>2, Zenon DEF Mapped
    <2> QED
      BY <1>5, <1>8, <2>1, Zenon DEF SameOutside
  <1>10. ASSUME PagesExact, NEW w, w.space = s, w = v \/ (w \in ListedPages /\ w \in spaces[s].pages)
         PROVE  ExactFor(w)'
    <2> SUFFICES ASSUME Filled(s)
                 PROVE  AtMostBank(d, w) /\ (s \notin FlatMapped => AtLeastBank(d, w, blocks))
      BY <1>2, <1>6, <1>10, Zenon DEF ExactFor, AtMostBank, AtLeastBank, SameBank
    <2>1. CASE w = v
      <3>1. Value(c.shared) \cap Virtual(v) = {}
        BY <1>7, <1>8, Zenon
      <3>2. s \notin FlatMapped => Virtual(v) \ blocks \subseteq Value(c.usable)
        BY <1>7, <1>8, Zenon
      <3> QED
        BY <1>5, <2>1, <3>1, <3>2, Zenon
    <2>2. CASE w \in ListedPages /\ w \in spaces[s].pages
      <3>1. AtMostBank(c, w) /\ (s \notin FlatMapped => AtLeastBank(c, w, blocks))
        BY <1>10, <2>2 DEF PagesExact, ExactFor, c, blocks
      <3>2. Virtual(w) \cap Virtual(v) = {}
        BY <1>3, <2>2
      <3> QED
        BY <1>5, <3>1, <3>2, ElsewhereKeeps
    <2> QED
      BY <1>10, <2>1, <2>2, Zenon
  <1>11. ASSUME NEW w \in ListedPages' PROVE w = v \/ w \in ListedPages
    <2>1. PICK p \in o.manager.pages :
             /\ Listed(AddPage(p, v)) = Listed(p) \cup {v}
             /\ manager'.pages = (o.manager.pages \ {p}) \cup {AddPage(p, v)}
      BY <1>1, CommitListsPage
    <2>2. w = v \/ \E q \in o.manager.pages : w \in Listed(q)
      BY <2>1 DEF ListedPages
    <2>3. PagesCarried(manager, o.manager)
      BY Zenon DEF Commits, GoodOutcome
    <2> QED
      BY <2>2, <2>3 DEF PagesCarried, ListedPages
  <1>12. \A w \in ListedPages : w.space \in Spaces /\ w \in spaces[w.space].pages
    BY <1>1, ListedPagesCommitted DEF ListedPages
  <1>13. ASSUME PagesExact, NEW w \in ListedPages' PROVE ExactFor(w)'
    <2>1. CASE w.space = s
      BY <1>10, <1>11, <1>12, <1>13, <2>1
    <2>2. CASE w.space # s
      <3>1. w \in ListedPages /\ w.space \in Spaces /\ spaces'[w.space] = spaces[w.space]
        BY <1>2, <1>3, <1>11, <1>12, <1>13, <2>2
      <3> QED
        BY <1>1, <1>2, <1>13, <3>1, UnchangedSpaceKeeps
    <2> QED
      BY <2>1, <2>2
  <1>14. ASSUME NEW t \in Spaces PROVE FreshIn(t)'
    BY <1>1, <1>2, <1>9, UnchangedSpaceKeeps
  <1> QED
    BY <1>13, <1>14 DEF UnmappedFresh, PagesExact

(* No space is populated at first.                                         *)
LEMMA UInvInit ==
  Init => UInv
  <1> SUFFICES ASSUME Init PROVE UInv
    BY Zenon
  <1>1. VInv
    BY VInvInit, Zenon
  <1>2. \A s \in Spaces : ~Filled(s)
    BY DEF Init, Filled
  <1>3. ListedPages = {}
    BY Zenon DEF Init, PageManager, ListedPages
  <1> QED
    BY <1>1, <1>2, <1>3 DEF UInv, FInv, UnmappedFresh, FreshIn, PagesExact

(* Every step keeps what the spaces say of addresses they have not mapped, *)
(* and, if no update spans two physical pages, their agreement with the    *)
(* bank on the others.                                                     *)
LEMMA AgreementNext ==
  ASSUME FInv, [Next]_vars
  PROVE  UnmappedFresh' /\ (~SpanUpdates /\ PagesExact => PagesExact')
  <1> DEFINE Goal == UnmappedFresh' /\ (~SpanUpdates /\ PagesExact => PagesExact')
  <1> SUFFICES ASSUME ~LeavesMemory PROVE Goal
    BY LeavesMemoryKeeps, Zenon
  <1>1. VInv
    BY Zenon DEF FInv
  <1>2. CASE Update
    <2>1. PICK kind \in Kinds, range \in SUBSET Addresses :
             /\ bank' = UpdateVirtualConstraint(kind, bank, range)
             /\ spaces' = HandleMemoryConstraintUpdate(spaces, kind, range)
             /\ manager'.pages = manager.pages
             /\ SpanUpdates \/ InOnePage(range)
      BY <1>1, <1>2, UpdateKinds
    <2>2. Says(bank', UsableAfter(kind, Value(bank.usable), range),
                      SharedAfter(kind, Value(bank.shared), range))
      BY <1>1, <2>1, UpdateSays DEF VInv, VTypeOK
    <2>3. Idle
      BY <1>2, Zenon DEF Update, InitializeMemory, ShareMemory, ReserveMemory, UnreserveMemory,
                         UpdateAllowed
    <2> QED
      BY <2>1, <2>2, <2>3, UpdateKeeps
  <1>3. ASSUME NEW s \in Spaces, Setup(s) PROVE Goal
    <2>1. PICK block \in SUBSET Addresses :
             /\ Says(bank', UsableAfter("Used", Value(bank.usable), block),
                            SharedAfter("Used", Value(bank.shared), block))
             /\ \A t \in Spaces \ {s} :
                   spaces'[t] = HandleMemoryConstraintUpdate(spaces, "Used", block)[t]
             /\ spaces'[s].state = "Uninitialized"
             /\ SpanUpdates \/ InOnePage(block)
      BY <1>1, <1>3, SetupEffect
    <2>2. ~Filled(s)'
      BY <2>1 DEF Filled
    <2>3. manager'.pages = manager.pages /\ Idle
      BY <1>3, Zenon DEF Setup
    <2>4. "Used" \in Kinds
      BY Zenon DEF Kinds
    <2>5. \A t \in Spaces : Filled(t)' =>
             spaces'[t] = HandleMemoryConstraintUpdate(spaces, "Used", block)[t]
      BY <2>1, <2>2
    <2> QED
      BY <2>1, <2>3, <2>4, <2>5, UpdateKeeps
  <1>4. ASSUME NEW s \in Spaces, Mapping(s) PROVE Goal
    BY <1>1, <1>4, MappingCommits, CommitPageKeeps
  <1>5. ASSUME NEW s \in Spaces, Activate(s) \/ FinishActivate(s) \/ Deactivate(s) PROVE Goal
    BY <1>5, ActivateKeeps, FinishActivateKeeps, DeactivateKeeps
  <1>6. CASE UNCHANGED vars \/ \E region \in Regions : AddPhysicalRegion(region)
    <2>1. LeavesMemory
      BY <1>1, <1>6 DEF VInv, VTypeOK, LeavesMemory, AddPhysicalRegion, vars
    <2> QED
      BY <2>1, Zenon
  <1> HIDE DEF Goal
  <1> QED
    BY <1>2, <1>3, <1>4, <1>5, <1>6 DEF Next

(* The inductive invariant behind MappingNeverFails, which needs nothing   *)
(* of the updates: of an address it has not mapped a space that is not     *)
(* flat mapped knows that it is usable.                                    *)
THEOREM FInvariance == Spec => []FInv
  <1>1. FInv /\ [Next]_vars => FInv'
    BY AgreementNext, VInvNext, Zenon DEF FInv
  <1>2. Init => FInv
    BY UInvInit, Zenon DEF UInv
  <1> QED
    BY <1>1, <1>2, PTL DEF Spec

(* The inductive invariant behind VirtualUsableExact, for updates of the   *)
(* bank that touch one physical page: a populated space agrees with the    *)
(* bank on every listed page, and of addresses it has not mapped it knows  *)
(* none as shared.                                                         *)
THEOREM UInvariance ==
  ASSUME ~SpanUpdates
  PROVE  Spec => []UInv
  <1>1. UInv /\ [Next]_vars => UInv'
    BY AgreementNext, VInvNext, Zenon DEF UInv, FInv
  <1> QED
    BY <1>1, UInvInit, PTL DEF Spec

(* What VmAddressSpace offers for a listed page is what the bank offers    *)
(* for its frame, after any interleaving of mapping, activation and        *)
(* updates, if no update spans two physical pages (with those it is        *)
(* violated: PhysicalPageManager::HandleMemoryConstraintUpdate tells the   *)
(* first page only).                                                       *)
THEOREM UsableIsExact ==
  ASSUME ~SpanUpdates
  PROVE  Spec => []VirtualUsableExact
  <1>1. UInv => VirtualUsableExact
    <2> SUFFICES ASSUME UInv, NEW v \in ListedPages, Filled(v.space)
                 PROVE  LET c == spaces[v.space].constraint
                            usable == Value(c.usable) \cap Virtual(v)
                            expected == ToVirtual(v, Value(bank.usable))
                        IN  /\ usable \subseteq expected
                            /\ Value(c.shared) \cap Virtual(v) = ToVirtual(v, Value(bank.shared))
                            /\ v.space \notin FlatMapped =>
                                  expected \ (spaces[v.space].blocks \cup Value(c.shared)) \subseteq usable
      BY Zenon DEF VirtualUsableExact
    <2>1. v \in VirtualPages
      BY ListedPagesCommitted, Zenon DEF UInv, FInv, ListedPages
    <2>2. /\ AtMostBank(spaces[v.space].constraint, v)
          /\ v.space \notin FlatMapped =>
                AtLeastBank(spaces[v.space].constraint, v, spaces[v.space].blocks)
      BY Zenon DEF UInv, PagesExact, ExactFor
    <2>3. /\ \A b : b \in ToVirtual(v, Value(bank.usable)) <=>
                       b \in Virtual(v) /\ ToPhysical(v, b) \in Value(bank.usable)
          /\ \A b : b \in ToVirtual(v, Value(bank.shared)) <=>
                       b \in Virtual(v) /\ ToPhysical(v, b) \in Value(bank.shared)
      BY <2>1, ToVirtualMember, Zenon
    <2> QED
      BY <2>2, <2>3 DEF AtMostBank, AtLeastBank
  <1> QED
    BY <1>1, UInvariance, PTL

-----------------------------------------------------------------------------
(* Committing a page *)

Between(lo, hi, set) ==
    {a \in set \ (lo .. hi) : \E b \in lo .. hi : (a .. b) \cup (b .. a) \subseteq set}

Starts(T) == {a \in T : \A b \in T : b + 1 # a}

(* Addresses that lie inside one object with a range make one object with  *)
(* it.                                                                     *)
LEMMA OneObject ==
  ASSUME NEW lo \in Nat, NEW hi \in Nat, NEW set \in SUBSET Nat, lo .. hi \subseteq set
  PROVE  \A a, c \in Starts((lo .. hi) \cup Between(lo, hi, set)) : a = c
  <1> DEFINE T == (lo .. hi) \cup Between(lo, hi, set)
  <1>1. ASSUME NEW a \in T, NEW c \in T, NEW x \in Nat, a <= x, x <= c PROVE x \in T
    <2>1. a \in Nat /\ c \in Nat
      BY DEF Between
    <2>2. CASE x \in lo .. hi
      BY <2>2, Zenon
    <2>3. CASE x < lo
      <3>1. a \in Between(lo, hi, set)
        BY <1>1, <2>1, <2>3
      <3>2. PICK b \in lo .. hi : (a .. b) \cup (b .. a) \subseteq set
        BY <3>1, Zenon DEF Between
      <3>3. x .. b \subseteq a .. b /\ b .. x = {} /\ x \in a .. b /\ x \notin lo .. hi
        BY <1>1, <2>1, <2>3, <3>2
      <3>4. (x .. b) \cup (b .. x) \subseteq set /\ x \in set
        BY <3>2, <3>3, Zenon
      <3> QED
        BY <3>2, <3>3, <3>4, Zenon DEF Between
    <2>4. CASE x > hi
      <3>1. c \in Between(lo, hi, set)
        BY <1>1, <2>1, <2>4
      <3>2. PICK b \in lo .. hi : (c .. b) \cup (b .. c) \subseteq set
        BY <3>1, Zenon DEF Between
      <3>3. b .. x \subseteq b .. c /\ x .. b = {} /\ x \in b .. c /\ x \notin lo .. hi
        BY <1>1, <2>1, <2>4, <3>2
      <3>4. (x .. b) \cup (b .. x) \subseteq set /\ x \in set
        BY <3>2, <3>3, Zenon
      <3> QED
        BY <3>2, <3>3, <3>4, Zenon DEF Between
    <2> QED
      BY <2>2, <2>3, <2>4
  <1>2. T \subseteq Nat
    BY DEF Between
  <1> HIDE DEF T
  <1>3. ASSUME NEW a \in Starts(T), NEW c \in Starts(T), a < c PROVE FALSE
    <2>1. a \in T /\ c \in T /\ \A b \in T : b + 1 # c
      BY <1>3, Zenon DEF Starts
    <2>2. a \in Nat /\ c \in Nat
      BY <1>2, <2>1, Zenon
    <2>3. c - 1 \in Nat /\ a <= c - 1 /\ c - 1 <= c /\ (c - 1) + 1 = c
      BY <1>3, <2>2
    <2>4. c - 1 \in T
      BY <1>1, <2>1, <2>3, Zenon
    <2> QED
      BY <2>1, <2>3, <2>4, Zenon
  <1>4. ASSUME NEW a \in Starts(T), NEW c \in Starts(T) PROVE a = c
    <2>1. a \in Nat /\ c \in Nat
      BY <1>2, Zenon DEF Starts
    <2>2. ~(a < c) /\ ~(c < a)
      BY <1>3, Zenon
    <2> QED
      BY <2>1, <2>2
  <1> QED
    BY <1>4, Zenon DEF T

(* Some addresses take at least one object.                                *)
LEMMA ObjectsPositive ==
  ASSUME NEW T \in SUBSET Addresses, T # {}
  PROVE  Objects(T) \in Nat /\ Objects(T) >= 1
  <1>1. T \in SUBSET Nat /\ IsFiniteSet(Addresses)
    BY FS_Interval, PageAssumption DEF Addresses
  <1>2. PICK x \in T : \A y \in T : x <= y
    BY <1>1, NatMinimum, Zenon
  <1>3. ASSUME NEW b \in T PROVE b + 1 # x
    <2>1. x <= b /\ x \in Nat /\ b \in Nat
      BY <1>1, <1>2, Zenon
    <2> QED
      BY <2>1
  <1>4. x \in Starts(T)
    BY <1>3, Zenon DEF Starts
  <1>5. IsFiniteSet(Starts(T))
    <2>1. Starts(T) \subseteq Addresses
      BY Zenon DEF Starts
    <2> QED
      BY <1>1, <2>1, FS_Subset, Zenon
  <1>6. Cardinality(Starts(T)) \in Nat /\ Cardinality(Starts(T)) # 0
    BY <1>4, <1>5, FS_CardinalityType, FS_EmptySet, Zenon
  <1>7. Objects(T) = Cardinality(Starts(T))
    BY Zenon DEF Objects, Starts
  <1> QED
    BY <1>6, <1>7

(* ConstraintSet::ReplaceInRange on a range all of which is in the set, by *)
(* some of the range, ends the process in no way.                          *)
LEMMA ReplaceSucceeds ==
  ASSUME NEW m \in Constraints, NEW lo \in Nat, NEW hi \in Nat,
         lo .. hi \subseteq Value(m.usable), NEW S \in SUBSET (lo .. hi), S # {}
  PROVE  ReplaceFailures(m, lo .. hi, S) = {}
  <1> DEFINE set == Value(m.usable)
             outside == Between(lo, hi, set)
  <1>1. set \in SUBSET Addresses /\ set \in SUBSET Nat
    BY ConstraintFields, PageAssumption DEF Addresses
  <1>2. set # {} /\ set \cap (lo .. hi) = lo .. hi /\ lo .. hi # {}
    BY Zenon
  <1> HIDE DEF set
  <1>3. Objects(S \cup outside) \in Nat /\ Objects(S \cup outside) >= 1
    <2>1. S \cup outside \in SUBSET Addresses /\ S \cup outside # {}
      BY <1>1, <1>2, Zenon DEF Between
    <2> HIDE DEF outside
    <2> QED
      BY <2>1, ObjectsPositive, Zenon
  <1>4. Objects((set \cap (lo .. hi)) \cup outside) \in {0, 1}
    <2> DEFINE T == (lo .. hi) \cup outside
    <2>1. \A a, c \in Starts(T) : a = c
      BY <1>1, <1>2, OneObject, Zenon
    <2> HIDE DEF T
    <2>2. Starts(T) = {} \/ \E a : Starts(T) = {a}
      BY <2>1, Zenon
    <2>3. Cardinality(Starts(T)) \in {0, 1}
      BY <2>2, FS_EmptySet, FS_Singleton
    <2> QED
      BY <1>2, <2>3, Zenon DEF Objects, Starts, T
  <1>5. ~LeavesNull(set, lo .. hi, S)
    <2>1. ~(Objects(S \cup outside) < Objects((set \cap (lo .. hi)) \cup outside))
      BY <1>3, <1>4
    <2> QED
      BY <2>1, Zenon DEF LeavesNull, Between
  <1> QED
    BY <1>2, <1>5, Zenon DEF ReplaceFailures, set

(* VirtualMappingAvailable: what is clear of every page is not mapped.     *)
LEMMA AvailableUnmapped ==
  ASSUME NEW s, NEW R, VirtualMappingAvailable(s, R)
  PROVE  R \cap Mapped(s) = {}
  BY Zenon DEF VirtualMappingAvailable, Mapped

(* VmAddressSpace::CommitPage: the sanity checks of allocation, merge and  *)
(* commit are never met, and in a space that is not flat mapped a page     *)
(* clear of its page tables is taken into the constraint without a FAIL,   *)
(* whatever frame it gets and whatever updates came before, also with      *)
(* updates that span physical pages.                                       *)
THEOREM MappingFailsNever == Spec => []MappingNeverFails
  <1>1. FInv => MappingNeverFails
    <2> SUFFICES ASSUME FInv PROVE MappingNeverFails
      BY Zenon
    <2>1. /\ failure \notin SanityFailures
          /\ Consistent(bank.usable) /\ Consistent(bank.shared)
          /\ \A s \in Spaces : /\ Consistent(spaces[s].constraint.usable)
                               /\ Consistent(spaces[s].constraint.shared)
      BY ConstraintFields, Zenon DEF FInv, VInv, VTypeOK, SpaceStates
    <2>2. ASSUME NEW s \in Spaces, Filled(s), s \notin FlatMapped, NEW size \in PageSizes,
                 NEW n \in PageNumbers(size), NEW frame \in PageNumbers(size), NEW v,
                 v = NewVirtual(s, n * size, size, frame * size, DefaultPageRequest(s)),
                 VirtualMappingAvailable(s, Virtual(v)), Virtual(v) \cap spaces[s].blocks = {}
          PROVE  UpdateFailures(spaces[s].constraint, v) = {}
      <3> DEFINE lo == PageStart(n * size, size)
                 hi == lo + size - 1
                 c == spaces[s].constraint
                 usable == Value(bank.usable) \cap Physical(v)
      <3>1. size \in Nat \ {0} /\ Top \in Nat /\ n \in Nat /\ n <= Top \div size
        BY PageAssumption, DivBounds DEF PageNumbers
      <3>2. n * size \in Addresses
        <4>1. n * size <= (Top \div size) * size /\ (Top \div size) * size <= Top /\ n * size \in Nat
          BY <3>1, DivBounds, TimesMonotonic
        <4> QED
          BY <3>1, <4>1 DEF Addresses
      <3>3. PageRange(lo, size) \subseteq Addresses
        BY <3>2, PageOfAddress, Zenon
      <3>4. lo \in Nat /\ hi \in Nat
        BY <3>1, <3>2, PageAssumption, DivBounds DEF PageStart, Addresses
      <3>5. /\ v.lower = lo /\ v.size = size /\ Virtual(v) = lo .. hi
        BY <2>2, Zenon DEF NewVirtual, Virtual, PageRange
      <3>6. c \in Constraints /\ lo .. hi \subseteq Value(c.usable)
        <4>1. Addresses \ (spaces[s].blocks \cup Mapped(s)) \subseteq Value(c.usable)
          BY <2>2, Zenon DEF FInv, UnmappedFresh, FreshIn
        <4>2. (lo .. hi) \cap Mapped(s) = {}
          <5>1. VirtualMappingAvailable(s, lo .. hi)
            BY <2>2, <3>5, Zenon
          <5> HIDE DEF lo, hi
          <5> QED
            BY <5>1, AvailableUnmapped, Zenon
        <4>3. lo .. hi \subseteq Addresses
          BY <3>3, Zenon DEF PageRange
        <4>4. (lo .. hi) \cap spaces[s].blocks = {}
          BY <2>2, <3>5, Zenon
        <4>5. c \in Constraints
          BY Zenon DEF FInv, VInv, VTypeOK, SpaceStates
        <4> HIDE DEF lo, hi, c
        <4> QED
          BY <4>1, <4>2, <4>3, <4>4, <4>5, Zenon
      <3>7. CASE usable = Physical(v) \/ usable = {}
        BY <3>7, Zenon DEF UpdateFailures
      <3>8. CASE ~(usable = Physical(v) \/ usable = {})
        <4> DEFINE S == ToVirtual(v, usable)
        <4>1. UpdateFailures(c, v) = ReplaceFailures(c, lo .. hi, S)
          BY <3>5, <3>8, Zenon DEF UpdateFailures
        <4>2. S # {}
          BY <3>8, Zenon DEF ToVirtual
        <4>3. S \in SUBSET (lo .. hi)
          <5>1. v.plower = frame * size /\ frame \in Nat
            <6>1. v.plower = frame * size
              BY <2>2, Zenon DEF NewVirtual
            <6>2. frame \in Nat
              BY <3>1, DivBounds DEF PageNumbers
            <6> QED
              BY <6>1, <6>2, Zenon
          <5>2. ASSUME NEW a \in Physical(v) PROVE a - v.plower + v.lower \in lo .. hi
            <6>1. Physical(v) = (frame * size) .. (frame * size + size - 1) /\ frame * size \in Nat
              BY <3>1, <3>5, <5>1 DEF Physical, PageRange
            <6> QED
              BY <3>1, <3>4, <3>5, <5>1, <6>1
          <5> HIDE DEF lo, hi
          <5> QED
            BY <5>2, Zenon DEF ToVirtual
        <4> HIDE DEF S, c, lo, hi
        <4>4. ReplaceFailures(c, lo .. hi, S) = {}
          BY <3>4, <3>6, <4>2, <4>3, ReplaceSucceeds, Zenon
        <4> QED
          BY <4>1, <4>4, Zenon DEF c
      <3> QED
        BY <3>7, <3>8, Zenon
    <2>3. ASSUME NEW s \in Spaces, Filled(s), s \notin FlatMapped
          PROVE  CommitSafe(s)
      BY <2>2, <2>3, Zenon DEF CommitSafe
    <2> QED
      BY <2>1, <2>3, Zenon DEF MappingNeverFails
  <1> QED
    BY <1>1, FInvariance, PTL
=============================================================================

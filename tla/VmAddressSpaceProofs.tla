------------------------- MODULE VmAddressSpaceProofs -------------------------
(***************************************************************************)
(* Proofs about VmAddressSpace.                                            *)
(***************************************************************************)
EXTENDS VmAddressSpace, MemoryBankProofs

(* The state *)

(* Virtual pages lie in the address range and on a frame.                  *)
VirtualPages ==
    {v \in [space : Spaces, lower : Nat, size : PageSizes, plower : Nat, plain : BOOLEAN] :
        Virtual(v) \subseteq Addresses /\ IsFrame(Physical(v))}

SpaceStates ==
    [state : {"None", "Uninitialized", "Populated", "Active"}, pages : SUBSET VirtualPages,
     constraint : Constraints, blocks : SUBSET Addresses]

VTypeOK ==
    /\ bank \in Constraints
    /\ spaces \in [Spaces -> SpaceStates]
    /\ failure \notin SanityFailures

(* The virtual pages of a space are apart, and the physical pages list     *)
(* committed pages that are inside them.                                   *)
PagesApart ==
    \A s \in Spaces : \A v \in spaces[s].pages :
        v.space = s /\ \A w \in spaces[s].pages : w # v => ~Collide(v, w)

ListedInside ==
    \A p \in manager.pages : \A v \in Listed(p) : v \in Committed /\ Physical(v) \subseteq Frame(p)

VInv ==
    /\ VTypeOK
    /\ PoolInv(VirtualPages, manager)
    /\ PagesApart
    /\ ListedInside
    /\ CommittedPagesListed

(* VirtualUsableExact, address by address: c offers of v at most what the  *)
(* bank has usable, and calls shared what the bank does; and it offers     *)
(* what the bank has usable, but what it calls shared and what is in X.    *)
ToPhysical(v, b) == b - v.lower + v.plower

AtMostBank(c, v) ==
    \A b \in Virtual(v) :
        /\ b \in Value(c.usable) => ToPhysical(v, b) \in Value(bank.usable)
        /\ b \in Value(c.shared) <=> ToPhysical(v, b) \in Value(bank.shared)

AtLeastBank(c, v, X) ==
    \A b \in Virtual(v) :
        ToPhysical(v, b) \in Value(bank.usable) /\ b \notin X /\ b \notin Value(c.shared)
            => b \in Value(c.usable)

-----------------------------------------------------------------------------
(* What a space takes over from the bank *)

(* What is known of every virtual page a space may hold (Page::Lower,      *)
(* Upper, PhysicalLower): it is not empty and lies in the address range,   *)
(* and so does its frame.                                                  *)
LEMMA VirtualPageFields ==
  ASSUME NEW v \in VirtualPages
  PROVE  /\ v.space \in Spaces /\ v.lower \in Nat /\ v.plower \in Nat /\ v.size \in Nat \ {0}
         /\ Virtual(v) \subseteq Addresses /\ Virtual(v) # {} /\ v.lower \in Virtual(v)
         /\ IsFrame(Physical(v)) /\ Physical(v) # {} /\ Physical(v) \subseteq Addresses
  <1>1. /\ v.space \in Spaces /\ v.lower \in Nat /\ v.plower \in Nat /\ v.size \in PageSizes
        /\ Virtual(v) \subseteq Addresses /\ IsFrame(Physical(v))
    BY Zenon DEF VirtualPages
  <1>2. v.size \in Nat \ {0}
    BY <1>1, PageAssumption, Zenon
  <1>3. v.lower \in Virtual(v)
    BY <1>1, <1>2, PageRangeInNat, Zenon DEF Virtual
  <1> QED
    BY <1>1, <1>2, <1>3, FrameNotEmpty, Zenon

(* So the operators of PhysicalPage may be used on them.                   *)
LEMMA VirtualPagesArePages ==
  ArePages(VirtualPages)
  BY VirtualPageFields, Zenon DEF ArePages

(* TranslatePaToVa in a page: a virtual address is the translation of      *)
(* exactly one address of the frame.                                       *)
LEMMA ToVirtualMember ==
  ASSUME NEW v \in VirtualPages, NEW S, NEW b
  PROVE  /\ b \in ToVirtual(v, S) <=> b \in Virtual(v) /\ ToPhysical(v, b) \in S
         /\ b \in Virtual(v) => ToPhysical(v, b) \in Physical(v)
  <1>1. v.lower \in Nat /\ v.plower \in Nat /\ v.size \in Nat \ {0}
    BY VirtualPageFields, Zenon
  <1>2. ASSUME b \in Virtual(v)
        PROVE  ToPhysical(v, b) \in Physical(v) /\ b = ToPhysical(v, b) - v.plower + v.lower
    BY <1>1, <1>2 DEF Virtual, Physical, PageRange, ToPhysical
  <1>3. ASSUME NEW a \in S \cap Physical(v), b = a - v.plower + v.lower
        PROVE  b \in Virtual(v) /\ ToPhysical(v, b) = a
    BY <1>1, <1>3 DEF Virtual, Physical, PageRange, ToPhysical
  <1> QED
    BY <1>2, <1>3, Zenon DEF ToVirtual

(* Translations stay inside the page.                                      *)
LEMMA ToVirtualInPage ==
  ASSUME NEW v \in VirtualPages, NEW S
  PROVE  ToVirtual(v, S) \subseteq Virtual(v) /\ ToVirtual(v, S) \in SUBSET Addresses
  BY ToVirtualMember, VirtualPageFields, Zenon

(* The constraints c and d agree on the addresses outside of range.        *)
SameOutside(c, d, range) ==
    \A b : b \notin range => /\ b \in Value(c.usable) <=> b \in Value(d.usable)
                             /\ b \in Value(c.shared) <=> b \in Value(d.shared)

(* UpdateVirtualUsableByPage, for a page of whose addresses none was       *)
(* shared.                                                                 *)
LEMMA UsableByPage ==
  ASSUME bank \in Constraints, NEW c \in Constraints, NEW v \in VirtualPages,
         NEW d, d = UpdateVirtualUsableByPage(c, v)
  PROVE  /\ d \in Constraints
         /\ SameOutside(c, d, Virtual(v))
         /\ Value(c.shared) \cap Virtual(v) = {} => AtMostBank(d, v)
         /\ \A X : Virtual(v) \ X \subseteq Value(c.usable) => AtLeastBank(d, v, X)
  <1> DEFINE usable == Value(bank.usable) \cap Physical(v)
             shared == Value(bank.shared) \cap Physical(v)
             e == IF usable = Physical(v) THEN c
                  ELSE IF usable # {}
                       THEN ReplaceUsableInRange(c, Virtual(v), ToVirtual(v, usable))
                       ELSE MarkUsed(c, Virtual(v))
  <1>1. d = IF shared = {} THEN e ELSE MarkShared(e, ToVirtual(v, shared))
    BY Zenon DEF UpdateVirtualUsableByPage
  <1>2. Virtual(v) \in SUBSET Addresses /\ ToVirtual(v, usable) \in SUBSET Addresses
        /\ ToVirtual(v, shared) \in SUBSET Addresses
    <2>1. Virtual(v) \subseteq Addresses
      BY VirtualPageFields, Zenon
    <2>2. \A range : ToVirtual(v, range) \subseteq Virtual(v)
      BY ToVirtualInPage, Zenon
    <2> HIDE DEF usable, shared
    <2> QED
      BY <2>1, <2>2, Zenon
  <1>3. /\ e \in Constraints
        /\ Value(e.shared) = Value(c.shared)
        /\ \/ usable = Physical(v) /\ Value(e.usable) = Value(c.usable)
           \/ usable # Physical(v) /\ Value(e.usable) = (Value(c.usable) \ Virtual(v)) \cup ToVirtual(v, usable)
    <2>1. CASE usable = Physical(v)
      BY <2>1, Zenon
    <2>2. CASE usable # Physical(v) /\ usable # {}
      <3>1. e = ReplaceUsableInRange(c, Virtual(v), ToVirtual(v, usable))
        BY <2>2, Zenon
      <3> HIDE DEF usable, e
      <3>2. Says(e, (Value(c.usable) \ Virtual(v)) \cup ToVirtual(v, usable), Value(c.shared))
        BY <1>2, <3>1, ReplaceUsableInRangeSays, Zenon
      <3> QED
        BY <2>2, <3>2, Zenon DEF Says
    <2>3. CASE usable # Physical(v) /\ usable = {}
      <3>1. e = MarkUsed(c, Virtual(v)) /\ ToVirtual(v, usable) = {}
        BY <2>3, Zenon DEF ToVirtual
      <3> HIDE DEF usable, e
      <3>2. Says(e, Value(c.usable) \ Virtual(v), Value(c.shared))
        BY <1>2, <3>1, MarkUsedSays, Zenon
      <3> QED
        BY <2>3, <3>1, <3>2, Zenon DEF Says
    <2> QED
      BY <2>1, <2>2, <2>3, Zenon
  <1> HIDE DEF e
  <1>4. /\ d \in Constraints
        /\ Value(d.usable) = Value(e.usable) \ ToVirtual(v, shared)
        /\ Value(d.shared) = Value(e.shared) \cup ToVirtual(v, shared)
    <2>1. CASE shared = {}
      <3>1. d = e /\ ToVirtual(v, shared) = {}
        BY <1>1, <2>1, Zenon DEF ToVirtual
      <3> QED
        BY <1>3, <3>1, Zenon
    <2>2. CASE shared # {}
      <3>1. d = MarkShared(e, ToVirtual(v, shared))
        BY <1>1, <2>2, Zenon
      <3> HIDE DEF shared
      <3>2. Says(d, Value(e.usable) \ ToVirtual(v, shared), Value(e.shared) \cup ToVirtual(v, shared))
        BY <1>2, <1>3, <3>1, MarkSharedSays, Zenon
      <3> QED
        BY <3>2, Zenon DEF Says
    <2> QED
      BY <2>1, <2>2, Zenon
  <1>5. /\ \A b : b \in ToVirtual(v, usable) <=> b \in Virtual(v) /\ ToPhysical(v, b) \in Value(bank.usable)
        /\ \A b : b \in ToVirtual(v, shared) <=> b \in Virtual(v) /\ ToPhysical(v, b) \in Value(bank.shared)
        /\ usable = Physical(v) => \A b \in Virtual(v) : ToPhysical(v, b) \in Value(bank.usable)
    BY ToVirtualMember, Zenon
  <1> HIDE DEF usable, shared
  <1>6. SameOutside(c, d, Virtual(v))
    BY <1>3, <1>4, <1>5, Zenon DEF SameOutside
  <1>7. ASSUME Value(c.shared) \cap Virtual(v) = {} PROVE AtMostBank(d, v)
    BY <1>3, <1>4, <1>5, <1>7, Zenon DEF AtMostBank
  <1>8. ASSUME NEW X, Virtual(v) \ X \subseteq Value(c.usable) PROVE AtLeastBank(d, v, X)
    BY <1>3, <1>4, <1>5, <1>8, Zenon DEF AtLeastBank
  <1> QED
    BY <1>4, <1>6, <1>7, <1>8, Zenon

(* What UpdateVirtualUsableByPage FAILs on is not the replacement it makes *)
(* up: that is never empty and lies in the page.                           *)
LEMMA UpdateFailuresSane ==
  ASSUME NEW c, NEW v \in VirtualPages
  PROVE  UpdateFailures(c, v) \cap SanityFailures = {}
  <1> DEFINE usable == Value(bank.usable) \cap Physical(v)
             S == ToVirtual(v, usable)
  <1>1. CASE usable = Physical(v) \/ usable = {}
    BY <1>1, Zenon DEF UpdateFailures
  <1>2. CASE ~(usable = Physical(v) \/ usable = {})
    <2>1. UpdateFailures(c, v) = ReplaceFailures(c, Virtual(v), S)
      BY <1>2, Zenon DEF UpdateFailures
    <2>2. S # {}
      BY <1>2, Zenon DEF ToVirtual
    <2>3. S \subseteq Virtual(v)
      <3> HIDE DEF usable
      <3> QED
        BY ToVirtualInPage, Zenon
    <2> HIDE DEF S, usable
    <2>4. ReplaceFailures(c, Virtual(v), S) \subseteq
             {"unexpected-empty-constraint-set", "expecting-constraints-in-range", "null-constraint"}
      BY <2>2, <2>3, Zenon DEF ReplaceFailures
    <2> QED
      BY <2>1, <2>4 DEF SanityFailures
  <1> QED
    BY <1>1, <1>2, Zenon

-----------------------------------------------------------------------------
(* Updates of the bank *)

Kinds == {"Used", "Shared", "Unmark"}

UsableAfter(kind, usable, D) == IF kind = "Unmark" THEN usable \cup D ELSE usable \ D
SharedAfter(kind, shared, D) == IF kind = "Shared" THEN shared \cup D ELSE shared

(* UpdateVirtualConstraint does to what a constraint says what its kind of *)
(* MemoryConstraintUpdate names.                                           *)
LEMMA UpdateSays ==
  ASSUME NEW kind \in Kinds, NEW c \in Constraints, NEW D \in SUBSET Addresses
  PROVE  Says(UpdateVirtualConstraint(kind, c, D), UsableAfter(kind, Value(c.usable), D),
              SharedAfter(kind, Value(c.shared), D))
  <1>1. CASE kind = "Used"
    BY <1>1, MarkUsedSays, Zenon DEF UpdateVirtualConstraint, UsableAfter, SharedAfter
  <1>2. CASE kind = "Shared"
    BY <1>2, MarkSharedSays, Zenon DEF UpdateVirtualConstraint, UsableAfter, SharedAfter
  <1>3. CASE kind = "Unmark"
    BY <1>3, UnmarkUsedSays, Zenon DEF UpdateVirtualConstraint, UsableAfter, SharedAfter
  <1> QED
    BY <1>1, <1>2, <1>3, Zenon DEF Kinds

(* The pages of space s that are told of an update of range, and the       *)
(* virtual addresses they are told of.                                     *)
Told(s, range) ==
    {v \in VirtualPages :
        /\ v.space = s /\ Physical(v) \cap range # {}
        /\ \E p \in PagesIn(manager, range) :
              v \in Listed(p) /\ \A q \in PagesIn(manager, range) : p.lower <= q.lower}

ToldOf(s, range) == UNION {ToVirtual(v, range) : v \in Told(s, range)}

(* Listed pages are virtual pages of the space they name.                  *)
LEMMA ListedPagesCommitted ==
  ASSUME VInv, NEW p \in manager.pages, NEW v \in Listed(p)
  PROVE  /\ v \in VirtualPages /\ v.space \in Spaces /\ v \in spaces[v.space].pages
         /\ Physical(v) \subseteq Frame(p)
  <1>1. PICK s \in Spaces : v \in spaces[s].pages
    BY Zenon DEF VInv, ListedInside, Committed
  <1>2. v.space = s
    BY <1>1, Zenon DEF VInv, PagesApart
  <1>3. v \in VirtualPages
    BY <1>1, Zenon DEF VInv, VTypeOK, SpaceStates
  <1> QED
    BY <1>1, <1>2, <1>3, Zenon DEF VInv, ListedInside

(* What a space is told of an update are virtual addresses.                *)
LEMMA ToldOfAddresses ==
  ASSUME VInv, NEW s \in Spaces, NEW range
  PROVE  ToldOf(s, range) \in SUBSET Addresses
  BY ToVirtualInPage DEF ToldOf, Told

(* HandleMemoryConstraintUpdate changes the constraints of initialized     *)
(* spaces, by what their pages are told.                                   *)
LEMMA HandleSays ==
  ASSUME VInv, NEW kind \in Kinds, NEW range, NEW s \in Spaces,
         NEW x, x = HandleMemoryConstraintUpdate(spaces, kind, range)[s]
  PROVE  /\ x \in SpaceStates
         /\ x.state = spaces[s].state /\ x.pages = spaces[s].pages /\ x.blocks = spaces[s].blocks
         /\ IsInitialized(spaces, s) =>
               /\ Value(x.constraint.usable) =
                     UsableAfter(kind, Value(spaces[s].constraint.usable), ToldOf(s, range))
               /\ Value(x.constraint.shared) =
                     SharedAfter(kind, Value(spaces[s].constraint.shared), ToldOf(s, range))
  <1> DEFINE touched == PagesIn(manager, range)
             first == CHOOSE p \in touched : \A q \in touched : p.lower <= q.lower
             updated == {v \in Listed(first) : v.space = s /\ Physical(v) \cap range # {}}
             D == UNION {ToVirtual(v, range) : v \in updated}
             c == spaces[s].constraint
  <1>1. x = IF touched # {} /\ updated # {} /\ IsInitialized(spaces, s)
            THEN [spaces[s] EXCEPT !.constraint = UpdateVirtualConstraint(kind, c, D)]
            ELSE spaces[s]
    BY Zenon DEF HandleMemoryConstraintUpdate
  <1>2. spaces[s] \in SpaceStates /\ c \in Constraints
    BY Zenon DEF VInv, VTypeOK, SpaceStates
  <1>3. ASSUME touched # {}
        PROVE  updated = Told(s, range) /\ D = ToldOf(s, range)
    <2>1. touched \subseteq manager.pages
      BY Zenon DEF PagesIn
    <2>2. \E p \in touched : \A q \in touched : p.lower <= q.lower
      <3> HIDE DEF touched
      <3> QED
        BY <1>3, <2>1, FirstPage, Zenon DEF VInv
    <2>3. first \in touched /\ \A q \in touched : first.lower <= q.lower
      BY <2>2, Zenon
    <2>4. ASSUME NEW p \in touched, \A q \in touched : p.lower <= q.lower PROVE p = first
      <3>1. p.lower <= first.lower /\ first.lower <= p.lower /\ p \in manager.pages /\ first \in manager.pages
        BY <2>1, <2>3, <2>4, Zenon
      <3>2. p.lower \in Addresses /\ first.lower \in Addresses
        BY <3>1, FramesByStart, Zenon DEF VInv
      <3>3. p.lower = first.lower
        BY <3>1, <3>2, PageAssumption DEF Addresses
      <3> HIDE DEF first
      <3> QED
        BY <3>1, <3>3, FramesByStart, Zenon DEF VInv
    <2> HIDE DEF first
    <2>5. Listed(first) \subseteq VirtualPages
      BY <2>1, <2>3, ListedPagesCommitted, Zenon
    <2>6. updated = Told(s, range)
      BY <2>3, <2>4, <2>5, Zenon DEF Told
    <2> QED
      BY <2>6, Zenon DEF ToldOf
  <1>4. ASSUME touched = {} \/ updated = {} PROVE ToldOf(s, range) = {}
    <2>1. Told(s, range) = {}
      <3>1. CASE touched = {}
        BY <3>1, Zenon DEF Told
      <3>2. CASE touched # {}
        BY <1>3, <1>4, <3>2, Zenon
      <3> QED
        BY <3>1, <3>2, Zenon
    <2> QED
      BY <2>1, Zenon DEF ToldOf
  <1> HIDE DEF touched, first, updated, D, c
  <1>5. CASE touched # {} /\ updated # {} /\ IsInitialized(spaces, s)
    <2>1. D = ToldOf(s, range) /\ D \in SUBSET Addresses
      BY <1>3, <1>5, ToldOfAddresses, Zenon
    <2>2. PICK d : d = UpdateVirtualConstraint(kind, c, D)
      BY Zenon
    <2>3. Says(d, UsableAfter(kind, Value(c.usable), D), SharedAfter(kind, Value(c.shared), D))
      BY <1>2, <2>1, <2>2, UpdateSays, Zenon
    <2>4. d \in Constraints
      BY <2>3, Zenon DEF Says
    <2>5. x = [spaces[s] EXCEPT !.constraint = d]
      BY <1>1, <1>5, <2>2, Zenon
    <2>6. /\ x \in SpaceStates /\ x.constraint = d
          /\ x.state = spaces[s].state /\ x.pages = spaces[s].pages /\ x.blocks = spaces[s].blocks
      BY <1>2, <2>4, <2>5, Zenon DEF SpaceStates
    <2> QED
      BY <2>1, <2>3, <2>6, Zenon DEF Says, c
  <1>6. CASE ~(touched # {} /\ updated # {} /\ IsInitialized(spaces, s))
    <2>1. x = spaces[s]
      BY <1>1, <1>6, Zenon
    <2>2. IsInitialized(spaces, s) => ToldOf(s, range) = {}
      BY <1>4, <1>6, Zenon
    <2> QED
      BY <1>2, <2>1, <2>2, Zenon DEF UsableAfter, SharedAfter
  <1> QED
    BY <1>5, <1>6, Zenon

(* After PhysicalPage::HandleMemoryConstraintUpdate the spaces are what    *)
(* they were but for their constraints.                                    *)
LEMMA HandleType ==
  ASSUME VInv, NEW kind \in Kinds, NEW range
  PROVE  HandleMemoryConstraintUpdate(spaces, kind, range) \in [Spaces -> SpaceStates]
  <1> DEFINE H == HandleMemoryConstraintUpdate(spaces, kind, range)
  <1>1. H = [s \in Spaces |-> H[s]]
    BY DEF HandleMemoryConstraintUpdate
  <1>2. \A s \in Spaces : H[s] \in SpaceStates
    BY HandleSays, Zenon
  <1> HIDE DEF H
  <1>3. H \in [Spaces -> SpaceStates]
    BY <1>1, <1>2, Zenon
  <1> QED
    BY <1>3, Zenon DEF H

(* Steps that map no page.                                                 *)
LEMMA SamePages ==
  ASSUME VInv, VTypeOK', PoolInv(VirtualPages, manager'), manager'.pages = manager.pages,
         \A s \in Spaces : spaces'[s].pages = spaces[s].pages
  PROVE  VInv'
  <1>1. Committed' = Committed
    BY Zenon DEF Committed
  <1>2. PagesApart'
    BY Zenon DEF VInv, PagesApart
  <1>3. ListedInside'
    BY <1>1, Zenon DEF VInv, ListedInside
  <1>4. CommittedPagesListed'
    BY <1>1, Zenon DEF VInv, CommittedPagesListed
  <1>5. PoolInv(VirtualPages, manager)'
    BY Zenon
  <1> QED
    BY <1>2, <1>3, <1>4, <1>5, Zenon DEF VInv

(* A step that changes no memory: it ends the process by a FAIL that is no *)
(* sanity check, or has nothing to map.                                    *)
LeavesMemory ==
    /\ failure' \notin SanityFailures
    /\ UNCHANGED <<bank, manager, spaces>>

(* Such a step keeps the invariant.                                        *)
LEMMA LeavesMemoryVInv ==
  ASSUME VInv, LeavesMemory
  PROVE  VInv'
  <1>1. VTypeOK' /\ PoolInv(VirtualPages, manager') /\ manager'.pages = manager.pages
    BY Zenon DEF VInv, VTypeOK, LeavesMemory
  <1>2. \A s \in Spaces : spaces'[s].pages = spaces[s].pages
    BY Zenon DEF LeavesMemory
  <1> QED
    BY <1>1, <1>2, SamePages

(* An update of the bank that reaches the spaces keeps the invariant.      *)
LEMMA BankUpdateKeeps ==
  ASSUME VInv, NEW kind \in Kinds, NEW range \in SUBSET Addresses,
         bank' = UpdateVirtualConstraint(kind, bank, range),
         spaces' = HandleMemoryConstraintUpdate(spaces, kind, range),
         PoolInv(VirtualPages, manager'), manager'.pages = manager.pages, failure' = failure
  PROVE  VInv'
  <1>1. bank' \in Constraints
    BY UpdateSays, Zenon DEF Says, VInv, VTypeOK
  <1>2. spaces' \in [Spaces -> SpaceStates]
    BY HandleType, Zenon
  <1>3. \A s \in Spaces : spaces'[s].pages = spaces[s].pages
    BY HandleSays
  <1>4. VTypeOK'
    BY <1>1, <1>2, Zenon DEF VInv, VTypeOK
  <1> QED
    BY <1>3, <1>4, SamePages, Zenon

(* The four updates, as one.                                               *)
LEMMA UpdateKinds ==
  ASSUME VInv, Update
  PROVE  \E kind \in Kinds, range \in SUBSET Addresses :
            /\ bank' = UpdateVirtualConstraint(kind, bank, range)
            /\ spaces' = HandleMemoryConstraintUpdate(spaces, kind, range)
            /\ PoolInv(VirtualPages, manager') /\ manager'.pages = manager.pages
            /\ failure' = failure
            /\ SpanUpdates \/ InOnePage(range)
  <1>1. PoolInv(VirtualPages, manager) /\ manager.boundary \in SUBSET Addresses
    BY Zenon DEF VInv, PoolInv, Managers
  <1>2. ASSUME NEW range \in UpdateRanges, InitializeMemory(range)
        PROVE  /\ "Used" \in Kinds /\ range \in SUBSET Addresses
               /\ bank' = UpdateVirtualConstraint("Used", bank, range)
               /\ spaces' = HandleMemoryConstraintUpdate(spaces, "Used", range)
               /\ manager' = manager /\ failure' = failure
               /\ SpanUpdates \/ InOnePage(range)
    BY <1>2, AddressAssumption, Zenon DEF InitializeMemory, UpdateAllowed, UpdateVirtualConstraint, Kinds
  <1>3. ASSUME NEW range \in UpdateRanges, ShareMemory(range)
        PROVE  /\ "Shared" \in Kinds /\ range \in SUBSET Addresses
               /\ bank' = UpdateVirtualConstraint("Shared", bank, range)
               /\ spaces' = HandleMemoryConstraintUpdate(spaces, "Shared", range)
               /\ manager' = manager /\ failure' = failure
               /\ SpanUpdates \/ InOnePage(range)
    BY <1>3, AddressAssumption, Zenon DEF ShareMemory, UpdateAllowed, UpdateVirtualConstraint, Kinds
  <1>4. ASSUME NEW range \in Reservations, ReserveMemory(range)
        PROVE  /\ "Used" \in Kinds /\ range \in SUBSET Addresses
               /\ bank' = UpdateVirtualConstraint("Used", bank, range)
               /\ spaces' = HandleMemoryConstraintUpdate(spaces, "Used", range)
               /\ PoolInv(VirtualPages, manager') /\ manager'.pages = manager.pages
               /\ failure' = failure
               /\ SpanUpdates \/ InOnePage(range)
    <2>1. range \in SUBSET Addresses
      BY AddressAssumption, Zenon
    <2>2. manager' = [manager EXCEPT !.boundary = manager.boundary \ range]
      BY <1>4, Zenon DEF ReserveMemory
    <2>3. PoolInv(VirtualPages, manager') /\ manager'.pages = manager.pages
      BY <1>1, <2>2, BoundaryKeeps, Zenon
    <2> QED
      BY <1>4, <2>1, <2>3, Zenon DEF ReserveMemory, UpdateAllowed, UpdateVirtualConstraint, Kinds
  <1>5. ASSUME NEW range \in Reservations, UnreserveMemory(range)
        PROVE  /\ "Unmark" \in Kinds /\ range \in SUBSET Addresses
               /\ bank' = UpdateVirtualConstraint("Unmark", bank, range)
               /\ spaces' = HandleMemoryConstraintUpdate(spaces, "Unmark", range)
               /\ PoolInv(VirtualPages, manager') /\ manager'.pages = manager.pages
               /\ failure' = failure
               /\ SpanUpdates \/ InOnePage(range)
    <2>1. range \in SUBSET Addresses
      BY AddressAssumption
    <2>2. manager' = [manager EXCEPT !.boundary = manager.boundary \cup range]
      BY <1>5, Zenon DEF UnreserveMemory
    <2>3. PoolInv(VirtualPages, manager') /\ manager'.pages = manager.pages
      BY <1>1, <2>1, <2>2, BoundaryKeeps
    <2> QED
      BY <1>5, <2>1, <2>3, Zenon DEF UnreserveMemory, UpdateAllowed, UpdateVirtualConstraint, Kinds
  <1> QED
    BY <1>1, <1>2, <1>3, <1>4, <1>5, Zenon DEF Update

(* InitializeMemory, MarkShared, ReserveMemory and UnreserveMemory keep    *)
(* the invariant.                                                          *)
LEMMA UpdateVInv ==
  ASSUME VInv, Update
  PROVE  VInv'
  BY UpdateKinds, BankUpdateKeeps, Zenon

-----------------------------------------------------------------------------
(* The life of a space *)

(* Setup takes the block of the page tables from the bank as MarkUsed      *)
(* does, and tells the spaces that are initialized, unless no block is     *)
(* left.                                                                   *)
LEMMA SetupEffect ==
  ASSUME VInv, NEW s \in Spaces, Setup(s), ~LeavesMemory
  PROVE  \E block \in SUBSET Addresses :
            /\ Says(bank', UsableAfter("Used", Value(bank.usable), block),
                           SharedAfter("Used", Value(bank.shared), block))
            /\ spaces' \in [Spaces -> SpaceStates]
            /\ \A t \in Spaces : spaces'[t].pages = spaces[t].pages
            /\ \A t \in Spaces \ {s} :
                  spaces'[t] = HandleMemoryConstraintUpdate(spaces, "Used", block)[t]
            /\ spaces'[s].state = "Uninitialized"
            /\ SpanUpdates \/ InOnePage(block)
            /\ failure' = failure
  <1>1. PICK block \in TableRanges :
           /\ bank' = MarkUsed([bank EXCEPT !.usable = GetConstraintSet(@)], block)
           /\ spaces' = [HandleMemoryConstraintUpdate(spaces, "Used", block)
                            EXCEPT ![s].state = "Uninitialized", ![s].blocks = block,
                                   ![s].constraint = Initialize(@, Addresses)]
           /\ SpanUpdates \/ InOnePage(block)
           /\ failure' = failure
    <2>1. CASE failure' = "out-of-page-table-space" /\ UNCHANGED <<bank, spaces>>
      <3>1. LeavesMemory
        BY <2>1 DEF Setup, LeavesMemory, SanityFailures
      <3> QED
        BY <3>1, Zenon
    <2> QED
      BY <2>1, Zenon DEF Setup
  <1>2. block \in SUBSET Addresses /\ "Used" \in Kinds
    BY AddressAssumption, Zenon DEF Kinds
  <1>3. Says(bank', Value(bank.usable) \ block, Value(bank.shared))
    <2>1. PICK read : read = [bank EXCEPT !.usable = GetConstraintSet(@)]
      BY Zenon
    <2>2. Says(read, Value(bank.usable), Value(bank.shared))
      BY <2>1, ReadSays, Zenon DEF VInv, VTypeOK
    <2>3. read \in Constraints /\ bank' = MarkUsed(read, block)
      BY <1>1, <2>1, <2>2, Zenon DEF Says
    <2>4. Says(bank', Value(read.usable) \ block, Value(read.shared))
      BY <1>2, <2>3, MarkUsedSays, Zenon
    <2> QED
      BY <2>2, <2>4, Zenon DEF Says
  <1>4. PICK H : H = HandleMemoryConstraintUpdate(spaces, "Used", block)
    BY Zenon
  <1>5. H \in [Spaces -> SpaceStates] /\ \A t \in Spaces : H[t].pages = spaces[t].pages
    BY <1>2, <1>4, HandleType, HandleSays
  <1>6. spaces' = [H EXCEPT ![s].state = "Uninitialized", ![s].blocks = block,
                            ![s].constraint = Initialize(@, Addresses)]
    BY <1>1, <1>4, Zenon
  <1>7. /\ spaces' \in [Spaces -> SpaceStates] /\ \A t \in Spaces : spaces'[t].pages = H[t].pages
        /\ \A t \in Spaces \ {s} : spaces'[t] = H[t]
        /\ spaces'[s].state = "Uninitialized"
    <2>1. H[s] \in SpaceStates /\ block \in SUBSET Addresses
      BY <1>2, <1>5, Zenon
    <2>2. PICK c : c = Initialize(H[s].constraint, Addresses)
      BY Zenon
    <2>3. c \in Constraints
      BY <2>1, <2>2, InitializeSays DEF SpaceStates, Says
    <2> DEFINE new == [H[s] EXCEPT !.state = "Uninitialized", !.blocks = block, !.constraint = c]
    <2>4. new \in SpaceStates /\ new.pages = H[s].pages /\ new.state = "Uninitialized"
      BY <2>1, <2>3, Zenon DEF SpaceStates
    <2>5. spaces' = [H EXCEPT ![s] = new]
      BY <1>5, <1>6, <2>1, <2>2 DEF SpaceStates
    <2> HIDE DEF new
    <2> QED
      BY <1>5, <2>4, <2>5, Zenon
  <1> QED
    BY <1>1, <1>2, <1>3, <1>4, <1>5, <1>7, Zenon DEF UsableAfter, SharedAfter

(* VmAddressSpace::Setup keeps the invariant.                              *)
LEMMA SetupVInv ==
  ASSUME VInv, NEW s \in Spaces, Setup(s)
  PROVE  VInv'
  <1> SUFFICES ASSUME ~LeavesMemory PROVE VInv'
    BY LeavesMemoryVInv, Zenon
  <1>1. /\ bank' \in Constraints /\ spaces' \in [Spaces -> SpaceStates]
        /\ \A t \in Spaces : spaces'[t].pages = spaces[t].pages
        /\ failure' = failure
    BY SetupEffect, Zenon DEF Says
  <1>2. manager' = manager
    BY Zenon DEF Setup
  <1>3. VTypeOK'
    BY <1>1, <1>2, Zenon DEF VInv, VTypeOK
  <1> QED
    BY <1>1, <1>2, <1>3, SamePages, Zenon DEF VInv

(* Deactivate changes the state and the constraint of one space.           *)
LEMMA DeactivateEffect ==
  ASSUME VInv, NEW s \in Spaces, Deactivate(s)
  PROVE  /\ spaces' \in [Spaces -> SpaceStates]
         /\ \A t \in Spaces \ {s} : spaces'[t] = spaces[t]
         /\ spaces'[s].state = "Uninitialized" /\ spaces'[s].pages = spaces[s].pages
  <1>1. PICK c : c = Uninitialize(spaces[s].constraint)
    BY Zenon
  <1>2. spaces[s].constraint \in Constraints /\ spaces \in [Spaces -> SpaceStates]
    BY Zenon DEF VInv, VTypeOK, SpaceStates
  <1>3. c \in Constraints
    BY <1>1, <1>2, InitializeSays, Zenon DEF Says
  <1>4. spaces' = [spaces EXCEPT ![s].state = "Uninitialized", ![s].constraint = c]
    BY <1>1, <1>2, Zenon DEF Deactivate, SpaceStates
  <1> QED
    BY <1>2, <1>3, <1>4, Zenon DEF SpaceStates

(* VmAddressSpace::Deactivate keeps the invariant.                         *)
LEMMA DeactivateVInv ==
  ASSUME VInv, NEW s \in Spaces, Deactivate(s)
  PROVE  VInv'
  <1>1. /\ spaces' \in [Spaces -> SpaceStates]
        /\ \A t \in Spaces : spaces'[t].pages = spaces[t].pages
    BY DeactivateEffect, Zenon
  <1>2. failure' = failure /\ manager' = manager /\ bank' = bank
    BY Zenon DEF Deactivate
  <1>3. VTypeOK'
    BY <1>1, <1>2, Zenon DEF VInv, VTypeOK
  <1> QED
    BY <1>1, <1>2, <1>3, SamePages, Zenon DEF VInv

(* The end of Initialize changes the state of one space.                   *)
LEMMA FinishActivateEffect ==
  ASSUME VInv, NEW s \in Spaces, FinishActivate(s)
  PROVE  /\ spaces' \in [Spaces -> SpaceStates]
         /\ \A t \in Spaces \ {s} : spaces'[t] = spaces[t]
         /\ spaces[s].state = "Populated" /\ spaces'[s].state = "Active"
         /\ spaces'[s].constraint = spaces[s].constraint
         /\ spaces'[s].pages = spaces[s].pages /\ spaces'[s].blocks = spaces[s].blocks
         /\ bank' = bank /\ manager' = manager /\ failure' = failure
  <1>1. spaces \in [Spaces -> SpaceStates]
    BY Zenon DEF VInv, VTypeOK
  <1>2. spaces' = [spaces EXCEPT ![s].state = "Active"]
    BY Zenon DEF FinishActivate
  <1>3. bank' = bank /\ manager' = manager /\ failure' = failure /\ spaces[s].state = "Populated"
    BY Zenon DEF FinishActivate
  <1> QED
    BY <1>1, <1>2, <1>3, Zenon DEF SpaceStates

(* And keeps the invariant.                                                *)
LEMMA FinishActivateVInv ==
  ASSUME VInv, NEW s \in Spaces, FinishActivate(s)
  PROVE  VInv'
  <1>1. /\ spaces' \in [Spaces -> SpaceStates]
        /\ \A t \in Spaces : spaces'[t].pages = spaces[t].pages
        /\ bank' = bank /\ manager' = manager /\ failure' = failure
    BY FinishActivateEffect, Zenon
  <1>2. VTypeOK'
    BY <1>1, Zenon DEF VInv, VTypeOK
  <1> QED
    BY <1>1, <1>2, SamePages, Zenon DEF VInv

(* A change elsewhere leaves what a constraint says of a page.             *)
LEMMA ElsewhereKeeps ==
  ASSUME NEW c, NEW d, NEW R, SameOutside(c, d, R), NEW v, Virtual(v) \cap R = {}
  PROVE  /\ AtMostBank(c, v) => AtMostBank(d, v)
         /\ \A X : AtLeastBank(c, v, X) => AtLeastBank(d, v, X)
  BY Zenon DEF SameOutside, AtMostBank, AtLeastBank

(* The pages that begin below a are taken over from the bank, the other    *)
(* addresses are as they were at first.                                    *)
Populated(pages, initial, a) ==
    {c \in Constraints :
        /\ \A v \in pages : v.lower < a =>
              AtMostBank(c, v) /\ AtLeastBank(c, v, Addresses \ initial)
        /\ \A b \in Addresses : (\A v \in pages : v.lower < a => b \notin Virtual(v)) =>
              (b \in Value(c.usable) <=> b \in initial) /\ b \notin Value(c.shared)}

PopulateStep(pages, a, c) ==
    IF \E v \in pages : v.lower = a - 1
    THEN UpdateVirtualUsableByPage(c, CHOOSE v \in pages : v.lower = a - 1)
    ELSE c

Apart(pages) == \A v, w \in pages : v # w => ~Collide(v, w)

(* One round of PopulateVirtualUsableConstraint: taking in a page leaves   *)
(* what the constraint says of the pages before it, which are apart from   *)
(* it.                                                                     *)
LEMMA PopulateStepKeeps ==
  ASSUME bank \in Constraints, NEW pages \in SUBSET VirtualPages, Apart(pages),
         NEW initial \in SUBSET Addresses, NEW a \in Nat \ {0},
         NEW c \in Populated(pages, initial, a - 1)
  PROVE  PopulateStep(pages, a, c) \in Populated(pages, initial, a)
  <1>1. CASE \E v \in pages : v.lower = a - 1
    <2> DEFINE p == CHOOSE v \in pages : v.lower = a - 1
               d == UpdateVirtualUsableByPage(c, p)
               X == Addresses \ initial
    <2>1. p \in pages /\ p.lower = a - 1
      BY <1>1, Zenon
    <2>2. PopulateStep(pages, a, c) = d
      BY <1>1, Zenon DEF PopulateStep
    <2> HIDE DEF p
    <2>3. p \in VirtualPages /\ p.lower \in Virtual(p) /\ Virtual(p) \subseteq Addresses /\ c \in Constraints
      BY <2>1, VirtualPageFields, Zenon DEF Populated
    <2>4. ASSUME NEW v \in pages, v # p PROVE Virtual(v) \cap Virtual(p) = {}
      BY <2>1, <2>4, Zenon DEF Apart, Collide
    <2>5. ASSUME NEW v \in pages, v # p, v.lower < a PROVE v.lower < a - 1
      <3>1. v.lower \in Nat /\ v.lower \in Virtual(v)
        BY VirtualPageFields, Zenon
      <3>2. v.lower # a - 1
        BY <2>1, <2>3, <2>4, <2>5, <3>1
      <3> QED
        BY <2>5, <3>1, <3>2
    <2>6. ASSUME NEW b \in Virtual(p)
          PROVE  (b \in Value(c.usable) <=> b \in initial) /\ b \notin Value(c.shared)
      <3>1. \A v \in pages : v.lower < a - 1 => b \notin Virtual(v)
        BY <2>1, <2>4
      <3> QED
        BY <2>3, <3>1, Zenon DEF Populated
    <2>7. /\ d \in Constraints /\ SameOutside(c, d, Virtual(p))
          /\ AtMostBank(d, p) /\ AtLeastBank(d, p, X)
      <3>1. Value(c.shared) \cap Virtual(p) = {} /\ Virtual(p) \ X \subseteq Value(c.usable)
        BY <2>3, <2>6, Zenon
      <3> HIDE DEF X
      <3> QED
        BY <2>3, <3>1, UsableByPage, Zenon
    <2> HIDE DEF d
    <2>8. ASSUME NEW v \in pages, v.lower < a PROVE AtMostBank(d, v) /\ AtLeastBank(d, v, X)
      <3>1. CASE v = p
        BY <2>7, <3>1, Zenon
      <3>2. CASE v # p
        <4>1. AtMostBank(c, v) /\ AtLeastBank(c, v, X)
          BY <2>5, <2>8, <3>2, Zenon DEF Populated
        <4>2. Virtual(v) \cap Virtual(p) = {}
          BY <2>4, <3>2, Zenon
        <4> HIDE DEF X
        <4> QED
          BY <2>7, <4>1, <4>2, ElsewhereKeeps, Zenon
      <3> QED
        BY <3>1, <3>2, Zenon
    <2>9. ASSUME NEW b \in Addresses, \A v \in pages : v.lower < a => b \notin Virtual(v)
          PROVE  (b \in Value(d.usable) <=> b \in initial) /\ b \notin Value(d.shared)
      <3>1. b \notin Virtual(p)
        BY <2>1, <2>9
      <3>2. ASSUME NEW v \in pages, v.lower < a - 1 PROVE b \notin Virtual(v)
        <4>1. v.lower < a
          BY <3>2, VirtualPageFields
        <4> QED
          BY <2>9, <4>1, Zenon
      <3>3. (b \in Value(c.usable) <=> b \in initial) /\ b \notin Value(c.shared)
        BY <3>2, Zenon DEF Populated
      <3> QED
        BY <2>7, <3>1, <3>3, Zenon DEF SameOutside
    <2> QED
      BY <2>2, <2>7, <2>8, <2>9, Zenon DEF Populated
  <1>2. CASE ~\E v \in pages : v.lower = a - 1
    <2>1. PopulateStep(pages, a, c) = c
      BY <1>2, Zenon DEF PopulateStep
    <2>2. ASSUME NEW v \in pages PROVE v.lower < a <=> v.lower < a - 1
      <3>1. v.lower \in Nat /\ v.lower # a - 1
        BY <1>2, VirtualPageFields, Zenon
      <3> QED
        BY <3>1
    <2> QED
      BY <2>1, <2>2, Zenon DEF Populated
  <1> QED
    BY <1>1, <1>2, Zenon

(* PopulateVirtualUsableConstraint: the new constraint agrees with the     *)
(* bank on every page of the space, and off the pages is what it was       *)
(* initialized with.                                                       *)
LEMMA PopulateSays ==
  ASSUME VInv, NEW s \in Spaces, NEW initial,
         initial = (IF s \in FlatMapped THEN (Addresses \ spaces[s].blocks) \cap Value(bank.usable)
                    ELSE Addresses \ spaces[s].blocks)
  PROVE  PopulateVirtualUsableConstraint(s) \in Populated(spaces[s].pages, initial, Top + 1)
  <1> DEFINE n == Top + 1
             pages == spaces[s].pages
             D == Constraints
             base == Initialize(spaces[s].constraint, initial)
             Loop(f) == f = [a \in 0 .. n |-> IF a = 0 THEN base ELSE PopulateStep(pages, a, f[a - 1])]
             populate == CHOOSE f : Loop(f)
             I == [a \in Nat |-> Populated(pages, initial, a)]
             G == [a \in 0 .. n |-> [c \in D |-> PopulateStep(pages, a, c)]]
  <1>1. n \in Nat
    BY PageAssumption
  <1>2. /\ pages \in SUBSET VirtualPages /\ Apart(pages) /\ initial \in SUBSET Addresses
        /\ spaces[s].constraint \in Constraints /\ bank \in Constraints
    BY Zenon DEF VInv, VTypeOK, SpaceStates, PagesApart, Apart
  <1>3. base \in D /\ base \in Populated(pages, initial, 0)
    <2>1. Says(base, initial, {})
      BY <1>2, InitializeSays, Zenon
    <2>2. \A v \in pages : ~(v.lower < 0)
      BY <1>2, VirtualPageFields
    <2> HIDE DEF base, pages
    <2> QED
      BY <2>1, <2>2, Zenon DEF Populated, Says
  <1> HIDE DEF base, pages
  <1>4. ASSUME NEW a \in 0 .. n, NEW c \in D PROVE PopulateStep(pages, a, c) \in D
    <2>1. CASE \E v \in pages : v.lower = a - 1
      <3> DEFINE v == CHOOSE v \in pages : v.lower = a - 1
      <3>1. v \in pages
        BY <2>1, Zenon
      <3>2. PopulateStep(pages, a, c) = UpdateVirtualUsableByPage(c, v)
        BY <2>1, Zenon DEF PopulateStep
      <3> HIDE DEF v
      <3> QED
        BY <1>2, <3>1, <3>2, UsableByPage
    <2>2. CASE ~\E v \in pages : v.lower = a - 1
      BY <2>2, Zenon DEF PopulateStep
    <2> QED
      BY <2>1, <2>2
  <1>5. G \in [0 .. n -> [D -> D]]
    <2> HIDE DEF D
    <2> QED
      BY <1>4, Zenon
  <1>6. PICK f : f \in [0 .. n -> D] /\ f[0] = base /\ \A a \in 1 .. n : f[a] = G[a][f[a - 1]]
    <2>1. \E f : IsLoop(n, D, base, G, f)
      <3> HIDE DEF n, D, G
      <3> QED
        BY <1>1, <1>3, <1>5, LoopExists
    <2> QED
      BY <2>1, Zenon DEF IsLoop
  <1>7. ASSUME NEW a \in 1 .. n PROVE f[a] = PopulateStep(pages, a, f[a - 1])
    <2>1. a \in 0 .. n /\ a - 1 \in 0 .. n
      BY <1>1
    <2>2. f[a - 1] \in D
      BY <1>6, <2>1, Zenon
    <2> HIDE DEF D
    <2> QED
      BY <1>6, <2>1, <2>2, Zenon
  <1>8. Loop(f)
    <2> HIDE DEF n, D
    <2> QED
      BY <1>1, <1>6, <1>7
  <1>9. Loop(populate)
    BY <1>8, Zenon
  <1>10. populate[0] = base /\ \A a \in 1 .. n : populate[a] = PopulateStep(pages, a, populate[a - 1])
    <2> HIDE DEF populate
    <2>1. \A a \in 0 .. n : populate[a] = IF a = 0 THEN base ELSE PopulateStep(pages, a, populate[a - 1])
      BY <1>9, Zenon
    <2>2. 0 \in 0 .. n /\ \A a \in 1 .. n : a \in 0 .. n /\ a # 0
      BY <1>1
    <2> HIDE DEF n, Loop
    <2> QED
      BY <2>1, <2>2, Zenon
  <1>11. \A a \in 0 .. n : populate[a] \in I[a]
    <2>1. populate[0] \in I[0]
      BY <1>3, <1>10, Zenon
    <2>2. ASSUME NEW a \in 1 .. n, populate[a - 1] \in I[a - 1] PROVE populate[a] \in I[a]
      <3> HIDE DEF populate
      <3>1. a - 1 \in Nat /\ a \in Nat \ {0}
        BY <1>1
      <3>2. populate[a - 1] \in Populated(pages, initial, a - 1)
        BY <2>2, <3>1, Zenon
      <3> QED
        BY <1>2, <1>10, <3>1, <3>2, PopulateStepKeeps
    <2> HIDE DEF populate, I, n
    <2> QED
      BY <1>1, <2>1, <2>2, LoopInvariant, Zenon
  <1>12. populate[n] \in Populated(pages, initial, n)
    <2>1. n \in 0 .. n /\ I[n] = Populated(pages, initial, n)
      BY <1>1
    <2> HIDE DEF populate, I, n
    <2> QED
      BY <1>11, <2>1, Zenon
  <1>13. PopulateVirtualUsableConstraint(s) = populate[n]
    BY Zenon DEF PopulateVirtualUsableConstraint, PopulatedBelow, PopulateStep, base, pages
  <1> QED
    BY <1>12, <1>13, Zenon DEF pages

(* Activate changes one space, and at most applies the bank's caches.      *)
LEMMA ActivateEffect ==
  ASSUME VInv, NEW s \in Spaces, Activate(s), ~LeavesMemory, NEW c, c = PopulateVirtualUsableConstraint(s)
  PROVE  /\ c \in Constraints
         /\ spaces' \in [Spaces -> SpaceStates]
         /\ \A t \in Spaces \ {s} : spaces'[t] = spaces[t]
         /\ spaces'[s].constraint = c /\ spaces'[s].state \in {"Populated", "Active"}
         /\ spaces'[s].pages = spaces[s].pages /\ spaces'[s].blocks = spaces[s].blocks
         /\ Says(bank', Value(bank.usable), Value(bank.shared))
         /\ manager' = manager /\ failure' = failure
  <1>1. c \in Constraints
    BY PopulateSays, Zenon DEF Populated
  <1>2. spaces \in [Spaces -> SpaceStates] /\ bank \in Constraints
    BY Zenon DEF VInv, VTypeOK
  <1>3. PICK state \in {"Populated", "Active"} : state = IF regions = {} THEN "Active" ELSE "Populated"
    BY Zenon
  <1>4. /\ spaces' = [spaces EXCEPT ![s].constraint = c, ![s].state = state]
        /\ bank' = IF spaces[s].pages = {} /\ s \notin FlatMapped THEN bank ELSE BankRead
        /\ manager' = manager /\ failure' = failure
    <2>1. ASSUME NEW what \in PopulateFailures(s), Fails(what) PROVE FALSE
      <3>1. PICK v \in spaces[s].pages : what \in UpdateFailures(PopulatedBelow(s)[v.lower], v)
        BY <2>1, Zenon DEF PopulateFailures
      <3>2. v \in VirtualPages
        BY <1>2, <3>1, Zenon DEF SpaceStates
      <3>3. what \notin SanityFailures
        BY <3>1, <3>2, UpdateFailuresSane, Zenon
      <3> QED
        BY <2>1, <3>3, Zenon DEF Fails, LeavesMemory
    <2> QED
      BY <1>3, <2>1, Zenon DEF Activate
  <1>5. Says(bank', Value(bank.usable), Value(bank.shared))
    BY <1>2, <1>4, ReadSays, Zenon DEF BankRead, Says
  <1> QED
    BY <1>1, <1>2, <1>4, <1>5, Zenon DEF SpaceStates

(* VmAddressSpace::Activate keeps the invariant.                           *)
LEMMA ActivateVInv ==
  ASSUME VInv, NEW s \in Spaces, Activate(s)
  PROVE  VInv'
  <1> SUFFICES ASSUME ~LeavesMemory PROVE VInv'
    BY LeavesMemoryVInv, Zenon
  <1>1. /\ spaces' \in [Spaces -> SpaceStates] /\ bank' \in Constraints
        /\ \A t \in Spaces : spaces'[t].pages = spaces[t].pages
        /\ failure' = failure /\ manager' = manager
    BY ActivateEffect, Zenon DEF Says
  <1>2. VTypeOK'
    BY <1>1, Zenon DEF VInv, VTypeOK
  <1> QED
    BY <1>1, <1>2, SamePages DEF VInv

-----------------------------------------------------------------------------
(* Mapping *)

Typed(request) ==
    /\ request.canAlias \in BOOLEAN /\ request.pa \in Addresses
    /\ request.flat \in BOOLEAN /\ request.forceMemAttrs \in BOOLEAN

(* Every mapping that finds a page commits a virtual page that overlaps no *)
(* other of its space, on an allocation outcome that keeps its promise;    *)
(* the others change nothing but the failure.                              *)
Commits(s, v, m, size, request, o) ==
    /\ GoodOutcome(VirtualPages, m, size, request, o)
    /\ v \in VirtualPages /\ v.space = s
    /\ Physical(v) = PageRange(o.start, size)
    /\ v.plain = (~request.flat /\ ~request.forceMemAttrs)
    /\ \A w \in spaces[s].pages : ~Collide(v, w)
    /\ CommitPage(s, v, o.manager) /\ ~LeavesMemory

(* The outcome of an allocation is committed or ends the mapping; an       *)
(* outcome for a virtual range that is available never collides with a     *)
(* page of the space.                                                      *)
LEMMA UsePageCommits ==
  ASSUME VInv, NEW s \in Spaces, NEW VA \in Addresses, NEW size \in PageSizes, NEW request,
         Typed(request), NEW aliasFirst, NEW o \in CreatePage(s, VA, size, request, aliasFirst),
         UsePage(s, VA, size, request, o), ~LeavesMemory
  PROVE  Commits(s, NewVirtual(s, VA, size, o.start, request), manager, size, request, o)
  <1> DEFINE v == NewVirtual(s, VA, size, o.start, request)
             range == PageRange(PageStart(VA, size), size)
  <1>1. o.found
    BY Zenon DEF UsePage
  <1>2. VirtualMappingAvailable(s, range) /\ o \in AllocatePage(manager, VA, size, request, aliasFirst)
    BY <1>1 DEF CreatePage, NoPage
  <1>3. GoodOutcome(VirtualPages, manager, size, request, o)
    BY <1>1, <1>2, AllocatePageGood, VirtualPagesArePages DEF VInv, Typed
  <1>4. range \subseteq Addresses /\ PageStart(VA, size) \in Nat
    <2>1. range \subseteq Addresses
      BY PageOfAddress, Zenon
    <2>2. PageStart(VA, size) \in Nat
      BY PageAssumption, DivBounds DEF PageStart, Addresses
    <2> QED
      BY <2>1, <2>2, Zenon
  <1>5. /\ v.space = s /\ v.lower = PageStart(VA, size) /\ v.size = size /\ v.plower = o.start
        /\ v.plain = (~request.flat /\ ~request.forceMemAttrs)
    BY Zenon DEF NewVirtual
  <1>6. Virtual(v) = range /\ Physical(v) = PageRange(o.start, size)
    BY <1>5, Zenon DEF Virtual, Physical
  <1>7. v \in VirtualPages
    <2>1. IsFrame(PageRange(o.start, size)) /\ o.start \in Nat
      BY <1>3, Zenon DEF GoodOutcome
    <2>2. v \in [space : Spaces, lower : Nat, size : PageSizes, plower : Nat, plain : BOOLEAN]
      BY <1>4, <2>1, Zenon DEF NewVirtual
    <2> HIDE DEF v, range
    <2> QED
      BY <1>4, <1>6, <2>1, <2>2, Zenon DEF VirtualPages
  <1>8. \A w \in spaces[s].pages : ~Collide(v, w)
    <2> HIDE DEF v, range
    <2> QED
      BY <1>2, <1>6, Zenon DEF VirtualMappingAvailable, Collide
  <1>9. CommitPage(s, v, o.manager)
    BY <1>3, Zenon DEF UsePage, GoodOutcome
  <1> HIDE DEF v, range
  <1> QED
    BY <1>3, <1>5, <1>6, <1>7, <1>8, <1>9 DEF Commits, v

(* A mapping by MapAddressRange, MapAddressForPA or MapPhysicalRegion      *)
(* commits one page, or changes no memory.                                 *)
LEMMA MappingCommits ==
  ASSUME VInv, NEW s \in Spaces, Mapping(s), ~LeavesMemory
  PROVE  \E v, size, request, o : Commits(s, v, manager, size, request, o)
  <1> DEFINE Goal == \E v, size, request, o : Commits(s, v, manager, size, request, o)
  <1>1. ASSUME NEW what, Fails(what), what \notin SanityFailures PROVE FALSE
    BY <1>1, Zenon DEF Fails, LeavesMemory
  <1>2. /\ "paging-error" \notin SanityFailures
        /\ "new-addr-forced-flat-mapping-already-exists" \notin SanityFailures
    BY DEF SanityFailures
  <1>3. ASSUME NEW VA \in Addresses, NEW request, Typed(request), SetupPageMapping(s, VA, request)
        PROVE  Goal
    <2>1. \E size \in PageSizes, aliasFirst \in BOOLEAN :
             \E o \in CreatePage(s, VA, size, request, aliasFirst) :
                UsePage(s, VA, size, request, o)
      BY <1>1, <1>2, <1>3, Zenon DEF SetupPageMapping
    <2> QED
      BY <1>3, <2>1, UsePageCommits
  <1>4. ASSUME NEW request, Typed(request), SetupPageMappingForPA(s, request) PROVE Goal
    <2>1. PICK size \in PageSizes, aliasFirst \in BOOLEAN :
             \E VA \in VAsForPA(s, size, request) :
                \E o \in CreatePage(s, VA, size, request, aliasFirst) :
                   UsePage(s, VA, size, request, o)
      BY <1>1, <1>2, <1>4, Zenon DEF SetupPageMappingForPA
    <2>2. PICK VA \in VAsForPA(s, size, request) :
             \E o \in CreatePage(s, VA, size, request, aliasFirst) :
                UsePage(s, VA, size, request, o)
      BY <2>1, Zenon
    <2>3. VA \in Addresses
      BY ConstraintFields, Zenon DEF VAsForPA, VInv, VTypeOK, SpaceStates
    <2> QED
      BY <1>4, <2>2, <2>3, UsePageCommits
  <1> HIDE DEF Goal
  <1>5. 0 \in Addresses
    BY PageAssumption DEF Addresses
  <1>6. ASSUME NEW request \in Requests PROVE Typed(request)
    BY AddressAssumption, Zenon DEF Typed
  <1>7. Typed(DefaultPageRequest(s)) /\ Typed(RegionRequest)
    <2>1. \/ DefaultPageRequest(s).flat = TRUE
          \/ DefaultPageRequest(s).flat = FALSE
      <3>1. CASE s \in FlatMapped
        BY <3>1 DEF DefaultPageRequest
      <3>2. CASE s \notin FlatMapped
        BY <3>2 DEF DefaultPageRequest
      <3> QED
        BY <3>1, <3>2
    <2>2. /\ DefaultPageRequest(s).canAlias = TRUE /\ DefaultPageRequest(s).pa = 0
          /\ DefaultPageRequest(s).forceMemAttrs = FALSE
      BY DEF DefaultPageRequest
    <2>3. Typed(DefaultPageRequest(s))
      BY <1>5, <2>1, <2>2 DEF Typed
    <2>4. Typed(RegionRequest)
      BY <1>5 DEF Typed, RegionRequest
    <2> QED
      BY <2>3, <2>4, Zenon
  <1>8. ASSUME NEW VA \in MappedVAs, NEW request \in Requests \cup {DefaultPageRequest(s)},
               MapAddressRange(s, VA, request)
        PROVE  Goal
    <2>1. VA \in Addresses /\ Typed(request)
      BY <1>6, <1>7, AddressAssumption, Zenon
    <2> QED
      BY <1>3, <1>8, <2>1, Zenon DEF MapAddressRange
  <1>9. ASSUME NEW request \in Requests, MapAddressForPA(s, request) PROVE Goal
    <2>1. PICK flat \in BOOLEAN : flat = (request.flat \/ s \in FlatMapped)
      BY Zenon
    <2>2. PICK forceAlias :
             forceAlias = (request.forceAlias
                             \/ (TranslatePaToVa(s, request.pa) # {} /\ ~request.flat))
      BY Zenon
    <2> DEFINE local == [request EXCEPT !.flat = flat, !.forceAlias = forceAlias]
    <2>3. SetupPageMappingForPA(s, local)
      BY <1>1, <1>2, <1>9, <2>1, <2>2 DEF MapAddressForPA
    <2>4. request \in [flat : BOOLEAN, canAlias : BOOLEAN, forceMemAttrs : BOOLEAN,
                       forceAlias : BOOLEAN, forceNew : BOOLEAN,
                       target : {"any", "PA", "page"}, pa : Addresses]
      BY AddressAssumption, Zenon
    <2>5. /\ local.flat = flat /\ local.canAlias = request.canAlias
          /\ local.forceMemAttrs = request.forceMemAttrs /\ local.pa = request.pa
      BY <2>4, Zenon
    <2> HIDE DEF local
    <2>6. Typed(local)
      BY <1>6, <2>5, Zenon DEF Typed
    <2> QED
      BY <1>4, <2>3, <2>6, Zenon
  <1>10. ASSUME NEW region \in Regions, MapPhysicalRegion(s, region) PROVE Goal
    <2>1. region \in Addresses
      BY AddressAssumption, Zenon
    <2>2. CASE UNCHANGED <<bank, manager, spaces, failure>>
      BY <2>2, Zenon DEF VInv, VTypeOK, LeavesMemory
    <2>3. CASE SetupPageMapping(s, region, RegionRequest)
      BY <1>3, <1>7, <2>1, <2>3, Zenon
    <2> QED
      BY <1>10, <2>2, <2>3, Zenon DEF MapPhysicalRegion
  <1> QED
    BY <1>8, <1>9, <1>10 DEF Mapping, Goal

(* CommitPage after a good allocation meets no page it overlaps, and ends  *)
(* the process on no sanity check; when it does not end it, it succeeds.   *)
LEMMA CommitSucceeds ==
  ASSUME VInv, NEW s \in Spaces, NEW v, NEW size, NEW request, NEW o,
         Commits(s, v, manager, size, request, o)
  PROVE  /\ spaces' = [spaces EXCEPT ![s].pages = @ \cup {v},
                                     ![s].constraint = UpdateVirtualUsableByPage(@, v)]
         /\ bank' = BankRead
         /\ IF CommitFails(o.manager, v)
            THEN failure' = "unable_to_find_phys_page_for_commit" /\ manager' = o.manager
            ELSE manager' = CommitFrame(o.manager, v) /\ failure' = failure
  <1>1. v \in VirtualPages /\ CommitPage(s, v, o.manager) /\ ~LeavesMemory
        /\ \A w \in spaces[s].pages : ~Collide(v, w)
    BY Zenon DEF Commits
  <1>2. VirtualMappingAvailable(s, Virtual(v))
    BY <1>1, Zenon DEF VirtualMappingAvailable, Collide
  <1>3. ASSUME NEW what \in UpdateFailures(spaces[s].constraint, v), Fails(what) PROVE FALSE
    BY <1>1, <1>3, UpdateFailuresSane, Zenon DEF Fails, LeavesMemory
  <1> QED
    BY <1>1, <1>2, <1>3, Zenon DEF CommitPage

(* CommitFrame lists the page at the one physical page that holds it, and  *)
(* keeps the pool.                                                         *)
LEMMA CommitListsPage ==
  ASSUME VInv, NEW s \in Spaces, NEW v, NEW size, NEW request, NEW o,
         Commits(s, v, manager, size, request, o)
  PROVE  /\ PoolInv(VirtualPages, manager')
         /\ \E p \in o.manager.pages :
               /\ Physical(v) \subseteq Frame(p)
               /\ Frame(AddPage(p, v)) = Frame(p)
               /\ Listed(AddPage(p, v)) = Listed(p) \cup {v}
               /\ manager'.pages = (o.manager.pages \ {p}) \cup {AddPage(p, v)}
         /\ failure' = failure
  <1>1. /\ PoolInv(VirtualPages, o.manager) /\ v \in VirtualPages
        /\ Physical(v) = PageRange(o.start, size)
        /\ \E p \in o.manager.pages : PageRange(o.start, size) \subseteq Frame(p)
    BY Zenon DEF Commits, GoodOutcome
  <1>2. PICK p \in o.manager.pages : Physical(v) \subseteq Frame(p)
    BY <1>1, Zenon
  <1>3. Physical(v) # {}
    BY <1>1, VirtualPageFields, Zenon
  <1>4. /\ ~CommitFails(o.manager, v) /\ PoolInv(VirtualPages, CommitFrame(o.manager, v))
        /\ CommitFrame(o.manager, v).pages = (o.manager.pages \ {p}) \cup {AddPage(p, v)}
    <2>1. Files(VirtualPages, o.manager, v, p)
      BY <1>1, <1>2, <1>3, CommitKeeps, Zenon
    <2> QED
      BY <2>1, Zenon DEF Files
  <1>5. manager' = CommitFrame(o.manager, v) /\ failure' = failure
    BY <1>4, CommitSucceeds, Zenon
  <1>6. p \in PhysicalPages(VirtualPages)
    BY <1>1, Zenon DEF PoolInv, Managers
  <1>7. Frame(AddPage(p, v)) = Frame(p) /\ Listed(AddPage(p, v)) = Listed(p) \cup {v}
    BY <1>1, <1>6, AddPageKeeps
  <1> QED
    BY <1>2, <1>4, <1>5, <1>7, Zenon

(* CommitPage adds the page to one space, whose constraint takes over what *)
(* the bank says of it, and at most applies the caches of the bank.        *)
LEMMA CommitEffect ==
  ASSUME VInv, NEW s \in Spaces, NEW v, NEW size, NEW request, NEW o,
         Commits(s, v, manager, size, request, o)
  PROVE  /\ Says(bank', Value(bank.usable), Value(bank.shared))
         /\ spaces' \in [Spaces -> SpaceStates]
         /\ \A t \in Spaces \ {s} : spaces'[t] = spaces[t]
         /\ spaces'[s].pages = spaces[s].pages \cup {v}
         /\ spaces'[s].constraint = UpdateVirtualUsableByPage(spaces[s].constraint, v)
         /\ spaces'[s].state = spaces[s].state /\ spaces'[s].blocks = spaces[s].blocks
  <1>1. v \in VirtualPages
    BY Zenon DEF Commits
  <1>2. spaces \in [Spaces -> SpaceStates] /\ bank \in Constraints /\ spaces[s].constraint \in Constraints
    BY Zenon DEF VInv, VTypeOK, SpaceStates
  <1>3. Says(bank', Value(bank.usable), Value(bank.shared))
    BY <1>2, CommitSucceeds, ReadSays, Zenon DEF BankRead
  <1>4. PICK d : d = UpdateVirtualUsableByPage(spaces[s].constraint, v)
    BY Zenon
  <1>5. d \in Constraints
    BY <1>1, <1>2, <1>4, UsableByPage
  <1>6. spaces' = [spaces EXCEPT ![s].pages = spaces[s].pages \cup {v}, ![s].constraint = d]
    BY <1>2, <1>4, CommitSucceeds DEF SpaceStates
  <1>7. /\ spaces' \in [Spaces -> SpaceStates]
        /\ \A t \in Spaces \ {s} : spaces'[t] = spaces[t]
        /\ spaces'[s].pages = spaces[s].pages \cup {v}
        /\ spaces'[s].constraint = d
        /\ spaces'[s].state = spaces[s].state /\ spaces'[s].blocks = spaces[s].blocks
    BY <1>1, <1>2, <1>5, <1>6, Zenon DEF SpaceStates
  <1> QED
    BY <1>3, <1>4, <1>7

(* VmAddressSpace::CommitPage after a good allocation keeps the invariant: *)
(* merges may drop a page from the lists only for one of another space at  *)
(* the same addresses.                                                     *)
LEMMA CommitVInv ==
  ASSUME VInv, NEW s \in Spaces, NEW v, NEW size, NEW request, NEW o,
         Commits(s, v, manager, size, request, o)
  PROVE  VInv'
  <1>1. PICK p \in o.manager.pages :
           /\ Physical(v) \subseteq Frame(p) /\ Frame(AddPage(p, v)) = Frame(p)
           /\ Listed(AddPage(p, v)) = Listed(p) \cup {v}
           /\ manager'.pages = (o.manager.pages \ {p}) \cup {AddPage(p, v)}
    BY CommitListsPage
  <1>2. /\ failure' = failure /\ bank' \in Constraints /\ spaces' \in [Spaces -> SpaceStates]
        /\ PoolInv(VirtualPages, manager')
        /\ \A t \in Spaces \ {s} : spaces'[t].pages = spaces[t].pages
        /\ spaces'[s].pages = spaces[s].pages \cup {v}
    BY CommitListsPage, CommitEffect, Zenon DEF Says
  <1>3. /\ PagesCarried(manager, o.manager) /\ v \in VirtualPages /\ v.space = s
        /\ \A w \in spaces[s].pages : ~Collide(v, w)
    BY Zenon DEF Commits, GoodOutcome
  <1>4. VTypeOK'
    BY <1>2, Zenon DEF VInv, VTypeOK
  <1>5. Committed' = Committed \cup {v}
    BY <1>2, Zenon DEF Committed
  <1>6. PagesApart'
    <2>1. ASSUME NEW t \in Spaces, NEW w \in spaces'[t].pages PROVE w.space = t
      <3>1. \A x \in spaces[t].pages : x.space = t
        BY Zenon DEF VInv, PagesApart
      <3>2. CASE t # s
        BY <1>2, <2>1, <3>1, <3>2, Zenon
      <3>3. CASE t = s
        BY <1>2, <1>3, <2>1, <3>1, <3>3, Zenon
      <3> QED
        BY <3>2, <3>3, Zenon
    <2>2. ASSUME NEW t \in Spaces, NEW w \in spaces'[t].pages, NEW u \in spaces'[t].pages, u # w
          PROVE  ~Collide(w, u)
      <3>1. CASE t # s
        BY <1>2, <2>2, <3>1, Zenon DEF VInv, PagesApart
      <3>2. CASE t = s
        <4>1. w \in spaces[s].pages \cup {v} /\ u \in spaces[s].pages \cup {v}
          BY <1>2, <2>2, <3>2, Zenon
        <4>2. \A x, y \in spaces[s].pages : x # y => ~Collide(x, y)
          BY Zenon DEF VInv, PagesApart
        <4>3. \A x, y : Collide(x, y) <=> Collide(y, x)
          BY Zenon DEF Collide
        <4> QED
          BY <1>3, <2>2, <4>1, <4>2, <4>3, Zenon
      <3> QED
        BY <3>1, <3>2, Zenon
    <2> QED
      BY <2>1, <2>2, Zenon DEF PagesApart
  <1>7. ASSUME NEW q \in o.manager.pages, NEW w \in Listed(q)
        PROVE  w \in Committed /\ Physical(w) \subseteq Frame(q)
    <2>1. PICK r \in manager.pages : w \in Listed(r) /\ Frame(r) \subseteq Frame(q)
      BY <1>3, Zenon DEF PagesCarried
    <2> QED
      BY <2>1, Zenon DEF VInv, ListedInside
  <1>8. ListedInside'
    <2>1. ASSUME NEW q \in manager'.pages, NEW w \in Listed(q)
          PROVE  w \in Committed' /\ Physical(w) \subseteq Frame(q)
      <3>1. CASE q = AddPage(p, v)
        BY <1>1, <1>5, <1>7, <3>1
      <3>2. CASE q # AddPage(p, v)
        BY <1>1, <1>5, <1>7, <3>2
      <3> QED
        BY <3>1, <3>2, Zenon
    <2> QED
      BY <2>1, Zenon DEF ListedInside
  <1>9. ASSUME NEW q \in manager.pages
        PROVE  \E r \in manager'.pages : Frame(q) \subseteq Frame(r) /\ KeptOrEqual(Listed(q), Listed(r))
    <2>1. PICK r \in o.manager.pages : Frame(q) \subseteq Frame(r) /\ KeptOrEqual(Listed(q), Listed(r))
      BY <1>3, Zenon DEF PagesCarried
    <2>2. CASE r = p
      <3>1. KeptOrEqual(Listed(q), Listed(AddPage(p, v)))
        BY <1>1, <2>1, <2>2 DEF KeptOrEqual
      <3> QED
        BY <1>1, <2>1, <2>2, <3>1, Zenon
    <2>3. CASE r # p
      BY <1>1, <2>1, <2>3
    <2> QED
      BY <2>2, <2>3, Zenon
  <1>10. CommittedPagesListed'
    <2> SUFFICES ASSUME NEW w \in Committed'
                 PROVE  \E r \in manager'.pages :
                           /\ Physical(w) \subseteq Frame(r)
                           /\ \/ w \in Listed(r)
                              \/ \E u \in Committed' :
                                    /\ u.space # w.space
                                    /\ Virtual(u) \cap Virtual(w) # {}
                                    /\ Physical(u) \subseteq Frame(r)
      BY Zenon DEF CommittedPagesListed
    <2>1. CASE w = v
      BY <1>1, <2>1
    <2>2. CASE w # v
      <3>1. w \in Committed
        BY <1>5, <2>2
      <3>2. PICK q \in manager.pages :
               /\ Physical(w) \subseteq Frame(q)
               /\ \/ w \in Listed(q)
                  \/ \E u \in Committed :
                        /\ u.space # w.space
                        /\ Virtual(u) \cap Virtual(w) # {}
                        /\ Physical(u) \subseteq Frame(q)
        BY <3>1, Zenon DEF VInv, CommittedPagesListed
      <3>3. PICK r \in manager'.pages : Frame(q) \subseteq Frame(r) /\ KeptOrEqual(Listed(q), Listed(r))
        BY <1>9, Zenon
      <3>4. CASE w \in Listed(r)
        BY <3>2, <3>3, <3>4
      <3>5. CASE w \in Listed(q) /\ w \notin Listed(r)
        <4>1. PICK u \in Listed(r) : Collide(u, w)
          BY <3>3, <3>5, Zenon DEF KeptOrEqual
        <4>2. u \in Committed' /\ Physical(u) \subseteq Frame(r) /\ u # w
          BY <1>8, <3>5, <4>1 DEF ListedInside
        <4>3. u.space # w.space
          BY <1>6, <4>1, <4>2 DEF PagesApart, Committed
        <4> QED
          BY <3>2, <3>3, <4>1, <4>2, <4>3 DEF Collide
      <3>6. CASE w \notin Listed(q)
        BY <1>5, <3>2, <3>3, <3>6, Zenon
      <3> QED
        BY <3>4, <3>5, <3>6
    <2> QED
      BY <2>1, <2>2, Zenon
  <1>11. PoolInv(VirtualPages, manager)'
    BY <1>2, Zenon
  <1> QED
    BY <1>4, <1>6, <1>8, <1>10, <1>11, Zenon DEF VInv

-----------------------------------------------------------------------------
(* The inductive invariant *)

(* An empty bank's manager and spaces satisfy the invariant.               *)
LEMMA VInvInit ==
  Init => VInv
  <1> SUFFICES ASSUME Init PROVE VInv
    BY Zenon
  <1>1. Memory \in SUBSET Addresses
    BY AddressAssumption, Zenon
  <1>2. bank \in Constraints
    BY <1>1, EmptyConstraintSays, InitializeSays DEF Init, Says
  <1>3. PoolInv(VirtualPages, manager)
    BY <1>1, EmptyPool, Zenon DEF Init
  <1>4. manager.pages = {}
    BY Zenon DEF Init, PageManager
  <1>5. spaces \in [Spaces -> SpaceStates] /\ \A s \in Spaces : spaces[s].pages = {}
    <2> DEFINE x == [state |-> "None", pages |-> {}, constraint |-> MemoryConstraint, blocks |-> {}]
    <2>1. x \in SpaceStates /\ x.pages = {}
      BY EmptyConstraintSays, Zenon DEF SpaceStates
    <2>2. spaces = [s \in Spaces |-> x]
      BY Zenon DEF Init
    <2> HIDE DEF x
    <2> QED
      BY <2>1, <2>2, Zenon
  <1>6. Committed = {}
    BY <1>5 DEF Committed
  <1>7. failure \notin SanityFailures
    BY DEF Init, SanityFailures
  <1> QED
    BY <1>2, <1>3, <1>4, <1>5, <1>6, <1>7
       DEF VInv, VTypeOK, PagesApart, ListedInside, CommittedPagesListed

(* Every step keeps the invariant.                                         *)
LEMMA VInvNext ==
  VInv /\ [Next]_vars => VInv'
  <1> SUFFICES ASSUME VInv, [Next]_vars PROVE VInv'
    BY Zenon
  <1>1. CASE Update
    BY <1>1, UpdateVInv, Zenon
  <1>2. ASSUME NEW s \in Spaces, Setup(s) \/ Activate(s) \/ FinishActivate(s) \/ Deactivate(s)
        PROVE  VInv'
    BY <1>2, SetupVInv, ActivateVInv, FinishActivateVInv, DeactivateVInv
  <1>3. ASSUME NEW s \in Spaces, Mapping(s) PROVE VInv'
    <2>1. CASE LeavesMemory
      BY <2>1, LeavesMemoryVInv
    <2>2. CASE ~LeavesMemory
      BY <1>3, <2>2, MappingCommits, CommitVInv
    <2> QED
      BY <2>1, <2>2
  <1>4. CASE UNCHANGED vars \/ \E region \in Regions : AddPhysicalRegion(region)
    <2>1. LeavesMemory
      BY <1>4 DEF VInv, VTypeOK, LeavesMemory, AddPhysicalRegion, vars
    <2> QED
      BY <2>1, LeavesMemoryVInv
  <1> QED
    BY <1>1, <1>2, <1>3, <1>4 DEF Next

(* The inductive invariant of PhysicalPageManager, PhysicalPage and        *)
(* VmAddressSpace: physical pages are apart and counted in all books, a    *)
(* physical page lists committed pages inside it only, committed pages of  *)
(* one space are apart, and no committed page is missing from the lists    *)
(* but for one of another space.                                           *)
THEOREM VInvariance == Spec => []VInv
  BY VInvInit, VInvNext, PTL DEF Spec

(* The books of PhysicalPageManager agree after any sequence of new, flat  *)
(* and aliased allocations, merges and commits, for every memory size and  *)
(* all page sizes that divide one another.                                 *)
THEOREM PoolIsExact == Spec => []PagePoolExact
  <1>1. VInv => PagePoolExact
    BY DEF VInv, PoolInv, PagePoolExact
  <1> QED
    BY <1>1, VInvariance, PTL

(* Every page that VmAddressSpace::CommitPage filed can be found through   *)
(* its physical page, unless PhysicalPage::Merge dropped it for one of     *)
(* another space at the same virtual addresses.                            *)
THEOREM CommittedAreListed == Spec => []CommittedPagesListed
  <1>1. VInv => CommittedPagesListed
    BY Zenon DEF VInv
  <1> QED
    BY <1>1, VInvariance, PTL
=============================================================================

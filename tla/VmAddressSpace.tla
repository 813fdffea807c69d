---------------------------- MODULE VmAddressSpace ----------------------------
(***************************************************************************)
(* Address spaces over one memory bank.  The bank (MemoryBank) knows which *)
(* physical addresses are usable and shared; every address space keeps the *)
(* same knowledge by virtual address, filled from the bank when the space  *)
(* is initialized and a page committed, and kept up to date by updates the *)
(* bank sends through PhysicalPageManager to the pages of every space.     *)
(* Generation threads, each with its current space, and the memory         *)
(* operations of all of them interleave.                                   *)
(*                                                                         *)
(* Page tables are left out: a walk's tables lie in the block the space    *)
(* takes from the bank when it is set up.                                  *)
(***************************************************************************)
EXTENDS LargeConstraintSet, PhysicalPageManager

CONSTANTS
    Spaces,         \* address spaces, each with a root table of its own
    FlatMapped,     \* those created with mFlatMapped
    Memory,         \* mpBaseConstraint: the addresses that have memory
    TableRanges,    \* blocks a space may take for its page tables
    Requests,       \* page requests, records as PhysicalPageManager reads them
    MappedVAs,      \* virtual addresses mapping requests ask for
    UpdateRanges,   \* physical ranges that are initialized or shared
    Reservations,   \* physical ranges reserved by name
    Regions,        \* physical regions (handlers, exception stacks) mapped flat and closed
    SpanUpdates,    \* whether an update may touch more than one physical page
    MaxPages,       \* bound: virtual pages mapped
    MaxUpdates,     \* bound: updates of the bank
    MaxOperations   \* bound: pages, updates and regions together

ASSUME AddressAssumption ==
    /\ Memory \subseteq Addresses /\ MappedVAs \subseteq Addresses /\ Regions \subseteq Addresses
    /\ TableRanges \cup UpdateRanges \cup Reservations \subseteq SUBSET Addresses
    /\ Requests \subseteq [flat : BOOLEAN, canAlias : BOOLEAN, forceMemAttrs : BOOLEAN,
                           forceAlias : BOOLEAN, forceNew : BOOLEAN,
                           target : {"any", "PA", "page"}, pa : Addresses]

VARIABLES
    bank,      \* MemoryBank::mpUsable
    manager,   \* the bank's PhysicalPageManager
    spaces,    \* per space: state, mPages, mpVirtualUsable, page-table blocks
    reserved,  \* MemoryManager::mReservations
    regions,   \* MemoryManager::mPhysicalRegions
    pending,   \* spaces and regions the operation under way has yet to map
    updates,   \* number of bank updates so far
    failure    \* what FAIL ended the process, or "none"

vars == <<bank, manager, spaces, reserved, regions, pending, updates, failure>>

(* A space is Populated while Initialize maps the essential regions: its   *)
(* constraint is filled, and mState is still Uninitialized.                *)
IsInitialized(sp, s) == sp[s].state \in {"Initialized", "Active"}
Filled(s) == spaces[s].state \in {"Populated", "Active"}
ToVirtual(v, S) == {a - v.plower + v.lower : a \in S \cap Physical(v)}
GetPage(s, VA) == {v \in spaces[s].pages : VA \in Virtual(v)}

Init ==
    /\ bank = Initialize(MemoryConstraint, Memory)
    /\ manager = PageManager(Addresses, Memory)
    /\ spaces = [s \in Spaces |-> [state |-> "None", pages |-> {},
                                   constraint |-> MemoryConstraint, blocks |-> {}]]
    /\ reserved = {}
    /\ regions = {}
    /\ pending = {}
    /\ updates = 0
    /\ failure = "none"

(* No other operation starts while regions are being mapped: one thread at *)
(* a time is in the back end (ThreadDispatcher).                           *)
Idle ==
    /\ failure = "none"
    /\ pending = {}
    /\ \A s \in Spaces : spaces[s].state # "Populated"

-----------------------------------------------------------------------------
(***************************************************************************)
(* Updates of the bank                                                     *)
(***************************************************************************)

(* UpdateVirtualConstraint of the four kinds of MemoryConstraintUpdate.    *)
UpdateVirtualConstraint(kind, constraint, S) ==
    CASE kind = "Unmark" -> UnmarkUsed(constraint, S)
      [] kind = "Shared" -> MarkShared(constraint, S)
      [] OTHER -> MarkUsed(constraint, S)

(* PhysicalPage::HandleMemoryConstraintUpdate, for the first of the        *)
(* physical pages the range touches: the loop of PhysicalPageManager over  *)
(* those pages calls the first one each time round.  The virtual pages on  *)
(* its list hand the update to their spaces                                *)
(* (VmAddressSpace::HandleMemoryConstraintUpdate); those of one space take *)
(* the same cache, so it makes no difference that here they do it at once. *)
HandleMemoryConstraintUpdate(sp, kind, range) ==
    LET touched == PagesIn(manager, range)
        first == CHOOSE p \in touched : \A q \in touched : p.lower <= q.lower
        updated(s) == {v \in Listed(first) : v.space = s /\ Physical(v) \cap range # {}}
    IN  [s \in Spaces |->
            IF touched # {} /\ updated(s) # {} /\ IsInitialized(sp, s)
            THEN [sp[s] EXCEPT !.constraint =
                     UpdateVirtualConstraint(kind, @, UNION {ToVirtual(v, range) : v \in updated(s)})]
            ELSE sp[s]]

Committed == UNION {spaces[s].pages : s \in Spaces}
PagesMapped == Cardinality(Committed)

BelowBound == PagesMapped + updates + Cardinality(regions) < MaxOperations

InOnePage(range) == \A p, q \in PagesIn(manager, range) : p = q

UpdateAllowed(range) ==
    /\ Idle
    /\ updates < MaxUpdates /\ BelowBound
    /\ SpanUpdates \/ InOnePage(range)

InitializeMemory(range) ==
    /\ UpdateAllowed(range)
    /\ bank' = MarkUsed(bank, range)
    /\ spaces' = HandleMemoryConstraintUpdate(spaces, "Used", range)
    /\ updates' = updates + 1
    /\ UNCHANGED <<manager, reserved, regions, pending, failure>>

ShareMemory(range) ==
    /\ UpdateAllowed(range)
    /\ bank' = MarkShared(bank, range)
    /\ spaces' = HandleMemoryConstraintUpdate(spaces, "Shared", range)
    /\ updates' = updates + 1
    /\ UNCHANGED <<manager, reserved, regions, pending, failure>>

(* A second reservation of the name FAILs, as does the release of a name   *)
(* that is not reserved.                                                   *)
ReserveMemory(range) ==
    /\ UpdateAllowed(range)
    /\ range \notin reserved
    /\ reserved' = reserved \cup {range}
    /\ bank' = MarkUsed(bank, range)
    /\ manager' = [manager EXCEPT !.boundary = @ \ range]
    /\ spaces' = HandleMemoryConstraintUpdate(spaces, "Used", range)
    /\ updates' = updates + 1
    /\ UNCHANGED <<regions, pending, failure>>

UnreserveMemory(range) ==
    /\ UpdateAllowed(range)
    /\ range \in reserved
    /\ reserved' = reserved \ {range}
    /\ bank' = UnmarkUsed(bank, range)
    /\ manager' = [manager EXCEPT !.boundary = @ \cup range]
    /\ spaces' = HandleMemoryConstraintUpdate(spaces, "Unmark", range)
    /\ updates' = updates + 1
    /\ UNCHANGED <<regions, pending, failure>>

-----------------------------------------------------------------------------
(***************************************************************************)
(* The life of an address space                                            *)
(***************************************************************************)

(* Setup: all addresses are usable at first, and                           *)
(* PageTableConstraint::AllocateUsableBlock takes the block of the page    *)
(* tables from what the bank has usable.                                   *)
Setup(s) ==
    /\ Idle
    /\ spaces[s].state = "None"
    /\ \/ \E block \in TableRanges :
             /\ block \subseteq Value(bank.usable)
             /\ SpanUpdates \/ InOnePage(block)
             /\ bank' = MarkUsed([bank EXCEPT !.usable = GetConstraintSet(@)], block)
             /\ spaces' = [HandleMemoryConstraintUpdate(spaces, "Used", block)
                              EXCEPT ![s].state = "Uninitialized", ![s].blocks = block,
                                     ![s].constraint = Initialize(@, Addresses)]
             /\ UNCHANGED failure
       \/ /\ \A block \in TableRanges : ~(block \subseteq Value(bank.usable))
          /\ failure' = "out-of-page-table-space"
          /\ UNCHANGED <<bank, spaces>>
    /\ UNCHANGED <<manager, reserved, regions, pending, updates>>

(* UpdateVirtualUsableByPage with UpdateVirtualSharedByPage.               *)
UpdateVirtualUsableByPage(constraint, v) ==
    LET usable == Value(bank.usable) \cap Physical(v)
        shared == Value(bank.shared) \cap Physical(v)
        c == IF usable = Physical(v) THEN constraint
             ELSE IF usable # {}
                  THEN ReplaceUsableInRange(constraint, Virtual(v), ToVirtual(v, usable))
                  ELSE MarkUsed(constraint, Virtual(v))
    IN  IF shared = {} THEN c ELSE MarkShared(c, ToVirtual(v, shared))

UpdateFailures(constraint, v) ==
    LET usable == Value(bank.usable) \cap Physical(v)
    IN  IF usable = Physical(v) \/ usable = {} THEN {}
        ELSE ReplaceFailures(constraint, Virtual(v), ToVirtual(v, usable))

(* PopulateVirtualUsableConstraint takes the pages in address order: the   *)
(* constraint after the pages below an address.                            *)
PopulatedBelow(s) ==
    LET all == Addresses \ spaces[s].blocks
        initial == IF s \in FlatMapped THEN all \cap Value(bank.usable) ELSE all
        populate[a \in 0 .. Top + 1] ==
            IF a = 0 THEN Initialize(spaces[s].constraint, initial)
            ELSE IF \E v \in spaces[s].pages : v.lower = a - 1
                 THEN UpdateVirtualUsableByPage(populate[a - 1],
                                                CHOOSE v \in spaces[s].pages : v.lower = a - 1)
                 ELSE populate[a - 1]
    IN  populate

PopulateVirtualUsableConstraint_NoPages(s) ==
    Initialize(spaces[s].constraint, Addresses \ spaces[s].blocks)

PopulateVirtualUsableConstraint(s) == PopulatedBelow(s)[Top + 1]

PopulateFailures(s) ==
    UNION {UpdateFailures(PopulatedBelow(s)[v.lower], v) : v \in spaces[s].pages}

(* Reading the bank commits its caches.                                    *)
BankRead ==
    [bank EXCEPT !.usable = GetConstraintSet(@), !.shared = GetConstraintSet(@)]

(* A FAIL ends the process; the state it leaves does not matter.           *)
Fails(what) ==
    /\ failure' = what
    /\ UNCHANGED <<bank, manager, spaces>>

(* Activate, with Initialize: the constraint is populated, then            *)
(* MapEssentialPhysicalRegions maps every region the manager knows.        *)
Activate(s) ==
    /\ Idle
    /\ spaces[s].state = "Uninitialized"
    /\ \/ /\ \E what \in PopulateFailures(s) : Fails(what)
          /\ UNCHANGED pending
       \/ /\ PopulateFailures(s) \subseteq {"null-constraint"}
          /\ spaces' = [spaces EXCEPT ![s].constraint = PopulateVirtualUsableConstraint(s),
                                      ![s].state = IF regions = {} THEN "Active" ELSE "Populated"]
          /\ bank' = IF spaces[s].pages = {} /\ s \notin FlatMapped THEN bank ELSE BankRead
          /\ pending' = {s} \X regions
          /\ UNCHANGED <<manager, failure>>
    /\ UNCHANGED <<reserved, regions, updates>>

FinishActivate(s) ==
    /\ failure = "none"
    /\ pending = {}
    /\ spaces[s].state = "Populated"
    /\ spaces' = [spaces EXCEPT ![s].state = "Active"]
    /\ UNCHANGED <<bank, manager, reserved, regions, pending, updates, failure>>

Deactivate(s) ==
    /\ Idle
    /\ spaces[s].state = "Active"
    /\ spaces' = [spaces EXCEPT ![s].state = "Uninitialized",
                                ![s].constraint = Uninitialize(@)]
    /\ UNCHANGED <<bank, manager, reserved, regions, pending, updates, failure>>

-----------------------------------------------------------------------------
(***************************************************************************)
(* Mapping                                                                 *)
(***************************************************************************)
VirtualMappingAvailable(s, range) ==
    \A v \in spaces[s].pages : Virtual(v) \cap range = {}

(* CreatePage for one page size: the allocation's outcomes.                *)
CreatePage(s, VA, size, request, aliasFirst) ==
    IF VirtualMappingAvailable(s, PageRange(PageStart(VA, size), size))
    THEN AllocatePage(manager, VA, size, request, aliasFirst)
    ELSE {NoPage(manager)}

(* CommitPage: into the space, its constraint and the physical page.       *)
CommitPage(s, v, m) ==
    LET failures == IF VirtualMappingAvailable(s, Virtual(v))
                    THEN UpdateFailures(spaces[s].constraint, v)
                    ELSE {"commit-page-overlaps-existing"}
    IN  \/ \E what \in failures : Fails(what)
        \/ /\ failures \subseteq {"null-constraint"}
           /\ spaces' = [spaces EXCEPT ![s].pages = @ \cup {v},
                                       ![s].constraint = UpdateVirtualUsableByPage(@, v)]
           /\ bank' = BankRead
           /\ IF CommitFails(m, v)
              THEN /\ failure' = "unable_to_find_phys_page_for_commit"
                   /\ manager' = m
              ELSE /\ manager' = CommitFrame(m, v)
                   /\ UNCHANGED failure

NewVirtual(s, VA, size, start, request) ==
    [space |-> s, lower |-> PageStart(VA, size), size |-> size, plower |-> start,
     plain |-> ~request.flat /\ ~request.forceMemAttrs]

(* The page of one allocation outcome, or the FAIL of a merge.             *)
UsePage(s, VA, size, request, o) ==
    /\ o.found
    /\ IF o.failure = "none"
       THEN CommitPage(s, NewVirtual(s, VA, size, o.start, request), o.manager)
       ELSE Fails(o.failure)

(* The sizes are tried in random order until one gives a page; when none   *)
(* does the mapping FAILs.                                                 *)
SetupPageMapping(s, VA, request) ==
    \/ \E size \in PageSizes, aliasFirst \in BOOLEAN :
          \E o \in CreatePage(s, VA, size, request, aliasFirst) :
              UsePage(s, VA, size, request, o)
    \/ /\ \A size \in PageSizes : \E aliasFirst \in BOOLEAN :
             \E o \in CreatePage(s, VA, size, request, aliasFirst) : ~o.found
       /\ Fails("paging-error")

MappingAllowed(s) ==
    /\ Idle
    /\ spaces[s].state = "Active"
    /\ PagesMapped < MaxPages /\ BelowBound

(* The request a mapping gets that comes with none.                        *)
DefaultPageRequest(s) ==
    [flat |-> s \in FlatMapped, canAlias |-> TRUE, forceMemAttrs |-> FALSE,
     forceAlias |-> FALSE, forceNew |-> FALSE, target |-> "any", pa |-> 0]

(* MapAddressRange for a range inside one page.  An address that is mapped *)
(* already changes nothing.  A request that names a physical address goes  *)
(* to MapAddressForPA.                                                     *)
MapAddressRange(s, VA, request) ==
    /\ MappingAllowed(s)
    /\ request.target # "PA"
    /\ GetPage(s, VA) = {}
    /\ SetupPageMapping(s, VA, request)
    /\ UNCHANGED <<reserved, regions, pending, updates>>

(* VmPaMapper::SetupPageMapping: any unmapped usable address with the page *)
(* offset of PA.  Once a size has failed the larger ones are not tried, so *)
(* the mapping FAILs when the smallest one does.                           *)
VAsForPA(s, size, request) ==
    {VA \in Value(spaces[s].constraint.usable) :
        /\ GetPage(s, VA) = {}
        /\ IF request.flat THEN VA = request.pa ELSE VA % size = request.pa % size}

SetupPageMappingForPA(s, request) ==
    \/ \E size \in PageSizes, aliasFirst \in BOOLEAN :
          \E VA \in VAsForPA(s, size, request) :
             \E o \in CreatePage(s, VA, size, request, aliasFirst) :
                UsePage(s, VA, size, request, o)
    \/ /\ \E size \in PageSizes :
             /\ \A larger \in PageSizes : size <= larger
             /\ \/ VAsForPA(s, size, request) = {}
                \/ \E VA \in VAsForPA(s, size, request), aliasFirst \in BOOLEAN :
                      \E o \in CreatePage(s, VA, size, request, aliasFirst) : ~o.found
       /\ Fails("paging-error")

(* TranslatePaToVa: the virtual address the space has for PA, if any.      *)
TranslatePaToVa(s, PA) ==
    {VA \in Addresses : /\ GetPage(s, VA) # {}
                       /\ \E v \in GetVirtualPage(manager, PA, s) : VA \in ToVirtual(v, {PA})}

(* MapAddressForPA: an address that has a page of the space already gets   *)
(* another only when the request forces a new one: by aliasing unless the  *)
(* request is flat.  A flat mapping that exists cannot be forced again.    *)
(* The space's own flat mapping is not looked at for that, only for the    *)
(* page that is set up.                                                    *)
MapAddressForPA(s, request) ==
    LET mapped == TranslatePaToVa(s, request.pa)
        local  == [request EXCEPT !.flat = @ \/ s \in FlatMapped,
                                  !.forceAlias = @ \/ (mapped # {} /\ ~request.flat)]
    IN  /\ MappingAllowed(s)
        /\ request.target = "PA"
        /\ mapped # {} => request.forceNew
        /\ IF request.flat /\ request.pa \in mapped
           THEN Fails("new-addr-forced-flat-mapping-already-exists")
           ELSE SetupPageMappingForPA(s, local)
        /\ UNCHANGED <<reserved, regions, pending, updates>>

(* MemoryManager::AddPhysicalRegion tells every address space in use.      *)
AddPhysicalRegion(region) ==
    /\ Idle
    /\ PagesMapped + updates + Cardinality(Spaces) < MaxOperations
    /\ region \notin regions
    /\ regions' = regions \cup {region}
    /\ pending' = {s \in Spaces : spaces[s].state = "Active"} \X {region}
    /\ UNCHANGED <<bank, manager, spaces, reserved, updates, failure>>

(* MapPhysicalRegion: a flat page nobody may alias (as for all regions but *)
(* boot code and address tables).                                          *)
RegionRequest ==
    [flat |-> TRUE, canAlias |-> FALSE, forceMemAttrs |-> FALSE, forceAlias |-> FALSE,
     forceNew |-> FALSE, target |-> "any", pa |-> 0]

MapPhysicalRegion(s, region) ==
    /\ failure = "none"
    /\ <<s, region>> \in pending
    /\ pending' = pending \ {<<s, region>>}
    /\ IF GetPage(s, region) = {} THEN SetupPageMapping(s, region, RegionRequest)
       ELSE UNCHANGED <<bank, manager, spaces, failure>>
    /\ UNCHANGED <<reserved, regions, updates>>

Update ==
    \/ \E range \in UpdateRanges : InitializeMemory(range) \/ ShareMemory(range)
    \/ \E range \in Reservations : ReserveMemory(range) \/ UnreserveMemory(range)

Mapping(s) ==
    \/ \E VA \in MappedVAs, request \in Requests \cup {DefaultPageRequest(s)} :
          MapAddressRange(s, VA, request)
    \/ \E request \in Requests : MapAddressForPA(s, request)
    \/ \E region \in Regions : MapPhysicalRegion(s, region)

Next ==
    \/ Update
    \/ \E region \in Regions : AddPhysicalRegion(region)
    \/ \E s \in Spaces : \/ Setup(s) \/ Activate(s) \/ FinishActivate(s)
                         \/ Deactivate(s) \/ Mapping(s)

Spec == Init /\ [][Next]_vars

-----------------------------------------------------------------------------
(***************************************************************************)
(* Properties                                                              *)
(***************************************************************************)
ListedPages == UNION {Listed(p) : p \in manager.pages}

(* The books of PhysicalPageManager agree after every allocation, alias    *)
(* and merge: physical pages are disjoint, the allocated ranges are their  *)
(* union and the free ranges the rest, a page number is offered to new     *)
(* allocations of a size exactly while the whole page of that size is      *)
(* free, and no page closed to aliasing is missing from the ranges the     *)
(* alias solver excludes.                                                  *)
PagePoolExact ==
    /\ \A p, q \in manager.pages : p # q => Frame(p) \cap Frame(q) = {}
    /\ manager.allocated = UNION {Frame(p) : p \in manager.pages}
    /\ manager.free = Addresses \ manager.allocated
    /\ \A size \in PageSizes :
          manager.aligned[size] =
              {n \in PageNumbers(size) : PageRange(n * size, size) \subseteq manager.free}
    /\ \A p \in manager.pages : ~p.canAlias => Frame(p) \subseteq manager.exclude

(* Every committed page lies inside one physical page, and that physical   *)
(* page lists it, so that updates and lookups by physical address reach    *)
(* it, unless a merge found it "equal" to a page in the same physical page *)
(* whose virtual range it overlaps, which only a page of another space     *)
(* can.  That page need not be listed either, once a later merge found it  *)
(* equal to a third.  (AllPagesListed has no such exception, and does not  *)
(* hold.)                                                                  *)
CommittedPagesListed ==
    \A v \in Committed : \E p \in manager.pages :
        /\ Physical(v) \subseteq Frame(p)
        /\ \/ v \in Listed(p)
           \/ \E w \in Committed :
                 /\ w.space # v.space
                 /\ Virtual(w) \cap Virtual(v) # {}
                 /\ Physical(w) \subseteq Frame(p)

(* A space that is initialized offers for a listed page what the bank      *)
(* offers for its frame: a virtual address is usable only if its physical  *)
(* address is, and it is shared exactly when its physical address is.  It  *)
(* is usable if that is and is not shared, unless the space keeps it for   *)
(* its page tables or is flat mapped.  So it is after any interleaving of  *)
(* mapping, aliasing, activation and updates made by other threads.        *)
(* (Of an address that was shared while reserved and then released the     *)
(* bank says it is usable and shared; a space that has its page already    *)
(* follows, one that takes it in later does not call it usable.)           *)
VirtualUsableExact ==
    \A v \in ListedPages : Filled(v.space) =>
        LET c == spaces[v.space].constraint
            usable == Value(c.usable) \cap Virtual(v)
            expected == ToVirtual(v, Value(bank.usable))
        IN  /\ usable \subseteq expected
            /\ Value(c.shared) \cap Virtual(v) = ToVirtual(v, Value(bank.shared))
            /\ v.space \notin FlatMapped =>
                  expected \ (spaces[v.space].blocks \cup Value(c.shared)) \subseteq usable

(* A page that may not be aliased keeps its frame to itself: no request    *)
(* maps a new page onto it, except one that asks for a flat mapping or     *)
(* forces its memory attributes.                                           *)
ClosedPagesNotAliased ==
    [][\A s \in Spaces : \A v \in spaces'[s].pages \ spaces[s].pages :
          v.plain => \A p \in manager.pages : Overlaps(p, Physical(v)) => p.canAlias]_vars

(* The states the sanity checks of allocation, merging and commit FAIL on. *)
SanityFailures ==
    {"unable_to_find_phys_page_for_commit", "physical_page_merge_with_no_intersection",
     "commit-page-overlaps-existing", "unexpected-empty-replace-constraint-set",
     "replacement-constraint-set-out-of-bound"}

(* A page that is clear of the other pages and of the page tables is taken *)
(* into the constraint without a FAIL, wherever it lies and whatever its   *)
(* frame.                                                                  *)
CommitSafe(s) ==
    \A size \in PageSizes : \A n, frame \in PageNumbers(size) :
       LET v == NewVirtual(s, n * size, size, frame * size, DefaultPageRequest(s))
       IN  VirtualMappingAvailable(s, Virtual(v)) /\ Virtual(v) \cap spaces[s].blocks = {}
              => UpdateFailures(spaces[s].constraint, v) = {}

(* Allocation, merging and commit never meet the states their sanity       *)
(* checks FAIL on, and no cached change of a constraint is lost to the     *)
(* other cache.  ReplaceInRange FAILs when a page is committed whose       *)
(* virtual range has nothing usable, as can happen in a flat-mapped space  *)
(* after memory was released and over the page tables of any space.  In a  *)
(* space that is not flat mapped it fails nowhere else, wherever the page  *)
(* lies and whatever its frame.                                            *)
MappingNeverFails ==
    /\ failure \notin SanityFailures
    /\ Consistent(bank.usable) /\ Consistent(bank.shared)
    /\ \A s \in Spaces :
          /\ Consistent(spaces[s].constraint.usable) /\ Consistent(spaces[s].constraint.shared)
          /\ Filled(s) /\ s \notin FlatMapped => CommitSafe(s)

(* A physical page lists all the virtual pages that map to it              *)
(* (PhysicalPage.h:69 on mVirtualPages): every committed page is on the    *)
(* list of the page that holds its frame.                                  *)
AllPagesListed ==
    \A v \in Committed : \E p \in manager.pages : Physical(v) \subseteq Frame(p) /\ v \in Listed(p)
=============================================================================

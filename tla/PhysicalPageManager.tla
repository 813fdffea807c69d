-------------------------- MODULE PhysicalPageManager -------------------------
(***************************************************************************)
(* PhysicalPageManager and PhysicalPage: which physical addresses are in   *)
(* pages, which virtual pages map to each physical page, and how a new     *)
(* virtual page gets its frame, from free memory (NewAllocation) or on top *)
(* of pages that exist (AliasAllocation).  Memory traits are left out:     *)
(* requests carry none, for which MemAttrCompatibility answers true.       *)
(*                                                                         *)
(* A page size stands for its EPteType.  A virtual page is a record of its *)
(* address space, its first virtual and physical address and its size; a   *)
(* request is a record of the attributes the allocation reads:             *)
(*   flat, canAlias, forceMemAttrs, forceAlias, target ("any", "PA" or     *)
(*   "page"), pa.                                                          *)
(***************************************************************************)
EXTENDS Naturals, Sequences

CONSTANTS
    Top,         \* the last address of the physical and of the virtual range
    PageSizes    \* page sizes

(* The sizes are powers of two, of which any two divide one another, and   *)
(* PhysicalAddressLimit is the last address of a page of each of them.     *)
ASSUME PageAssumption ==
    /\ Top \in Nat
    /\ PageSizes \subseteq Nat \ {0} /\ PageSizes # {}
    /\ \A size \in PageSizes : (Top + 1) % size = 0
    /\ \A a, b \in PageSizes : a % b = 0 \/ b % a = 0

Addresses == 0 .. Top
PageNumbers(size) == 0 .. (Top \div size)
PageRange(start, size) == start .. start + size - 1
PageStart(a, size) == (a \div size) * size

Virtual(v) == PageRange(v.lower, v.size)
Physical(v) == PageRange(v.plower, v.size)
Frame(p) == p.lower .. p.upper
Overlaps(p, range) == Frame(p) \cap range # {}

(***************************************************************************)
(* PhysicalPage                                                            *)
(***************************************************************************)
page_less_than(v, w) == v.lower + v.size - 1 < w.lower

(* std::lower_bound, whose answer on a list that is not partitioned (pages *)
(* of different spaces may overlap) is what the bisection runs into: its   *)
(* first and len after k steps, none of which is left after Len(list).     *)
LowerBound(list, v) ==
    LET bisect[k \in 0 .. Len(list)] ==
            IF k = 0 THEN [first |-> 1, len |-> Len(list)]
            ELSE LET b == bisect[k - 1]
                     half == b.len \div 2
                 IN  IF b.len = 0 THEN b
                     ELSE IF page_less_than(list[b.first + half], v)
                          THEN [first |-> b.first + half + 1, len |-> b.len - half - 1]
                          ELSE [first |-> b.first, len |-> half]
    IN  bisect[Len(list)].first

InsertPage(list, k, v) == SubSeq(list, 1, k - 1) \o <<v>> \o SubSeq(list, k, Len(list))

AddPage(p, v) == [p EXCEPT !.virtuals = InsertPage(@, LowerBound(@, v), v)]

(* One round of the loop of PhysicalPage::Merge: x.mine and x.other are    *)
(* the next entries of the two lists.                                      *)
MergeStep_StopsEarly(mine, other, x) ==
    LET mineLeft == x.mine <= Len(mine)
        otherLeft == x.other <= Len(other)
    IN  CASE ~mineLeft -> x
          [] mineLeft /\ (otherLeft => page_less_than(mine[x.mine], other[x.other])) ->
                 [mine |-> x.mine + 1, other |-> x.other, out |-> Append(x.out, mine[x.mine])]
          [] mineLeft /\ otherLeft /\ page_less_than(other[x.other], mine[x.mine]) ->
                 [mine |-> x.mine, other |-> x.other + 1, out |-> Append(x.out, other[x.other])]
          [] OTHER ->
                 [mine |-> x.mine + 1, other |-> x.other + 1, out |-> Append(x.out, mine[x.mine])]

MergeStep(mine, other, x) ==
    LET mineLeft == x.mine <= Len(mine)
        otherLeft == x.other <= Len(other)
    IN  CASE ~mineLeft /\ ~otherLeft -> x
          [] mineLeft /\ (otherLeft => page_less_than(mine[x.mine], other[x.other])) ->
                 [mine |-> x.mine + 1, other |-> x.other, out |-> Append(x.out, mine[x.mine])]
          [] otherLeft /\ (mineLeft => page_less_than(other[x.other], mine[x.mine])) ->
                 [mine |-> x.mine, other |-> x.other + 1, out |-> Append(x.out, other[x.other])]
          [] OTHER ->
                 [mine |-> x.mine + 1, other |-> x.other + 1, out |-> Append(x.out, mine[x.mine])]

(* The two sorted lists are merged; where two entries overlap in virtual   *)
(* address ("pages equal") the entry of the page merged into stays and the *)
(* other is dropped, whatever space either belongs to.                     *)
MergePages(mine, other) ==
    LET merge[k \in 0 .. Len(mine) + Len(other)] ==
            IF k = 0 THEN [mine |-> 1, other |-> 1, out |-> <<>>]
            ELSE MergeStep(mine, other, merge[k - 1])
    IN  merge[Len(mine) + Len(other)].out

(* The virtual pages a physical page lists.                                *)
Listed(p) == {p.virtuals[i] : i \in DOMAIN p.virtuals}

(***************************************************************************)
(* The manager: a record of mpBoundary, mpFreeRanges, mpAllocatedRanges,   *)
(* mpAliasExcludeRanges, mUsablePageAligned (page numbers by size) and     *)
(* mPhysicalPages.                                                         *)
(***************************************************************************)
GetUsablePageAligned(free, size) == {a \div size : a \in free}

PageManager(usableMem, boundary) ==
    [boundary |-> boundary, free |-> usableMem, allocated |-> {}, exclude |-> {},
     aligned |-> [size \in PageSizes |-> GetUsablePageAligned(usableMem, size)],
     pages |-> {}]

PagesIn(m, range) == {p \in m.pages : Overlaps(p, range)}

UpdateUsablePageAligned_OwnSize(aligned, p) ==
    [size \in PageSizes |->
        aligned[size] \ (IF size = p.upper - p.lower + 1 THEN {p.lower \div size} ELSE {})]

UpdateUsablePageAligned(aligned, p) ==
    [size \in PageSizes |-> aligned[size] \ ((p.lower \div size) .. (p.upper \div size))]

AddPhysicalPage(m, p) ==
    [m EXCEPT !.pages = @ \cup {p},
              !.free = @ \ Frame(p),
              !.allocated = @ \cup Frame(p),
              !.exclude = IF p.canAlias THEN @ ELSE @ \cup Frame(p),
              !.aligned = UpdateUsablePageAligned(@, p)]

NewPage(start, size, request, virtuals) ==
    [lower |-> start, upper |-> start + size - 1, canAlias |-> request.canAlias,
     virtuals |-> virtuals]

(* The outcomes of an allocation: the manager after it and the physical    *)
(* start of the page, or that it found none.                               *)
NoPage(m) == [found |-> FALSE, manager |-> m, start |-> 0, failure |-> "none"]
Found(m, start) == [found |-> TRUE, manager |-> m, start |-> start, failure |-> "none"]

(* VmFlatMappingStrategy and VmRandomMappingStrategy::AllocatePhysicalPage *)
(* choose the frame; the largest physical address is Top.                  *)
Frames(m, VA, size, request) ==
    LET usable == m.aligned[size]
    IN  IF request.flat THEN usable \cap {VA \div size}
        ELSE IF request.target = "PA" THEN usable \cap {request.pa \div size}
        ELSE {n \in usable : (VA % size) + n * size \in m.boundary}

NewAllocation(m, VA, size, request) ==
    LET frames == Frames(m, VA, size, request)
    IN  IF frames = {} THEN {NoPage(m)}
        ELSE {Found(AddPhysicalPage(m, NewPage(n * size, size, request, <<>>)), n * size) :
                  n \in frames}

(* SolveAliasConstraints: SubRange(max_physical, UpperBound) has its       *)
(* bounds in the wrong order whenever memory ends below the maximum, and   *)
(* then takes the highest candidate address away.                          *)
SolveAliasConstraints(m, size) ==
    LET candidates == m.allocated \ m.exclude
    IN  {a \div size : a \in {c \in candidates : \E b \in candidates : c < b}}

(* The addresses an alias may aim at; a page id is that of any page.       *)
AliasTargets(m, VA, size, request) ==
    CASE request.flat -> {VA}
      [] ~request.flat /\ request.target = "PA" -> {request.pa}
      [] ~request.flat /\ request.target = "page" -> {p.lower : p \in m.pages}
      [] OTHER -> {n * size : n \in SolveAliasConstraints(m, size)}

(* alloc_page->Merge for each overlapped page, in address order.           *)
MergeVirtuals(over) ==
    LET merged[a \in 0 .. Top + 1] ==
            IF a = 0 THEN <<>>
            ELSE IF \E p \in over : p.lower = a - 1
                 THEN MergePages(merged[a - 1], (CHOOSE p \in over : p.lower = a - 1).virtuals)
                 ELSE merged[a - 1]
    IN  merged[Top + 1]

(* The old pages are erased and alloc_page added.  Merge FAILs when a page *)
(* to be merged is not inside the new one.                                 *)
MergeAll(m, start, size, request, over) ==
    [Found(AddPhysicalPage([m EXCEPT !.pages = @ \ over],
                           NewPage(start, size, request, MergeVirtuals(over))), start)
        EXCEPT !.failure = IF \A p \in over : Frame(p) \subseteq PageRange(start, size) THEN "none"
                           ELSE "physical_page_merge_with_no_intersection"]

(* One page covers the new one: it is used as it is, or made non-aliasable *)
(* when the request asks for that.                                         *)
AliasInside_FlatOnly(m, start, p, request) ==
    IF request.flat \/ request.canAlias
    THEN Found(m, start)
    ELSE Found([m EXCEPT !.pages = (@ \ {p}) \cup {[p EXCEPT !.canAlias = FALSE]},
                         !.exclude = @ \cup Frame(p)], start)

AliasInside(m, start, p, request) ==
    IF request.flat THEN Found(m, start)
    ELSE IF ~p.canAlias THEN NoPage(m)
    ELSE IF request.canAlias THEN Found(m, start)
    ELSE Found([m EXCEPT !.pages = (@ \ {p}) \cup {[p EXCEPT !.canAlias = FALSE]},
                         !.exclude = @ \cup Frame(p)], start)

AliasAt(m, start, size, request) ==
    LET range == PageRange(start, size)
        over == PagesIn(m, range)
        one == \E p \in over : over = {p}
        refused == ~request.flat /\ \E p \in over : ~p.canAlias
    IN  CASE over = {} -> NoPage(m)
          [] one /\ \E p \in over : range \subseteq Frame(p) ->
                 AliasInside(m, start, CHOOSE p \in over : TRUE, request)
          [] one /\ \A p \in over : ~(range \subseteq Frame(p)) ->
                 IF refused THEN NoPage(m)
                 ELSE MergeAll(m, start, size, request, over)
          [] OTHER ->
                 IF ~request.forceMemAttrs /\ refused THEN NoPage(m)
                 ELSE MergeAll(m, start, size, request, over)

AliasAllocation(m, VA, size, request) ==
    LET targets == AliasTargets(m, VA, size, request)
    IN  IF targets = {} THEN {NoPage(m)}
        ELSE {AliasAt(m, PageStart(t, size), size, request) : t \in targets}

(* AllocatePage: the aliasing choice says which way is tried first; the    *)
(* other is tried when that finds nothing.                                 *)
AllocatePage(m, VA, size, request, aliasFirst) ==
    LET new == NewAllocation(m, VA, size, request)
        alias == AliasAllocation(m, VA, size, request)
        Else(first, second) ==
            {o \in first : o.found} \cup (IF \A o \in first : o.found THEN {} ELSE second)
    IN  IF request.forceAlias THEN alias
        ELSE IF aliasFirst THEN Else(alias, new)
        ELSE Else(new, alias)

(* CommitPage files the virtual page under its physical page; FAILs unless *)
(* there is exactly one.                                                   *)
CommitFails(m, v) == ~\E p \in m.pages : PagesIn(m, Physical(v)) = {p}

CommitFrame(m, v) ==
    LET p == CHOOSE q \in m.pages : Overlaps(q, Physical(v))
    IN  [m EXCEPT !.pages = (@ \ {p}) \cup {AddPage(p, v)}]

(* GetVirtualPage: the first page of the space on the list of the physical *)
(* page that maps the address, if there is one.                            *)
GetVirtualPage(m, PA, s) ==
    LET Maps(v) == v.space = s /\ PA \in Physical(v)
        FirstOf(p) == {i \in DOMAIN p.virtuals :
                          Maps(p.virtuals[i]) /\ \A j \in 1 .. i - 1 : ~Maps(p.virtuals[j])}
    IN  UNION {{p.virtuals[i] : i \in FirstOf(p)} : p \in PagesIn(m, {PA})}
=============================================================================

--------------------------- MODULE MCVmAddressSpace ---------------------------
(***************************************************************************)
(* Instances of VmAddressSpace for TLC: eight addresses, two address       *)
(* spaces, and two page sizes.  A page table takes a page of the smaller   *)
(* size, and a block two tables or more.                                   *)
(***************************************************************************)
EXTENDS VmAddressSpace

Request(flat, canAlias, force, target, pa, new) ==
    [flat |-> flat, canAlias |-> canAlias, forceMemAttrs |-> force, forceAlias |-> FALSE,
     forceNew |-> new, target |-> target, pa |-> pa]

MCRequests ==
    {Request(FALSE, TRUE, FALSE, "page", 0, FALSE),
     Request(FALSE, FALSE, TRUE, "PA", 1, TRUE),
     Request(TRUE, TRUE, FALSE, "PA", 1, TRUE)}

MCTableRanges == {0 .. 1, 5 .. 6, 4 .. 7}
MCUpdateRanges == {3 .. 3}
MCReservations == {1 .. 2}
MCRegions == {6}
MCMemory == 0 .. 7
MCMappedVAs == {4}
=============================================================================

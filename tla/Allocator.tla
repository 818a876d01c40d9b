----------------------------- MODULE Allocator -----------------------------
(***************************************************************************)
(* cstdlib_allocator of src/src/allocator.cpp as it is built, with the list *)
(* of live allocations that ALLOCATOR_DEBUG keeps.  The list is the        *)
(* sequence of its pointers, the newest first.                             *)
(***************************************************************************)
EXTENDS Integers, SequencesExt

NULL == 0

\* malloc gives an address that nobody holds; which one does not matter.
Malloc(live) == Min((1 .. Len(live) + 1) \ Range(live))

\* ALLOC and FREE.  FREE asserts that it finds the pointer.
Allocated(live) == <<Malloc(live)>> \o live
IsAllocated(live, p) == p \in Range(live)
Freed(live, p) == RemoveFirst(live, p)
=============================================================================

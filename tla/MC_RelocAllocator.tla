------------------------- MODULE MC_RelocAllocator -------------------------
(***************************************************************************)
(* Model-checking instance of RelocAllocator.  The address space is 5 bits *)
(* wide; BIAS stands for the 256 KiB low region and create(5, 12) keeps   *)
(* its start above it: the range is [5, 12].  Three handles, two sizes     *)
(* and two alignments let the cursor reach the end, wrap, and fail.        *)
(***************************************************************************)
EXTENDS RelocAllocator, TLC

MC_Sizes == {3, 5}
MC_Alignments == {1, 4}
MC_PatIndexes == {0, 1}

(* Handles are opaque map keys: permuting them changes nothing the         *)
(* allocator computes.                                                     *)
MC_Symmetry == Permutations(Handles)

(* The allocator implements the AddressSpace promise, with its own state   *)
(* mapped one to one and the range taken from what create stored.          *)
Abstract == INSTANCE AddressSpace WITH Start <- CreateStart, End <- EndArg

(* Every behaviour of the reloc allocator is one of AddressSpace: offsets  *)
(* are aligned and inside [start, end], a known handle gets its offset     *)
(* back, and ALLOC_INVALID_ADDRESS comes only when no aligned place of the *)
(* whole range could hold the object, whatever the cursor was.             *)
AllocatorRefinesAddressSpace == Abstract!Spec

=============================================================================

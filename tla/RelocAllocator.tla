--------------------------- MODULE RelocAllocator ---------------------------
(***************************************************************************)
(* The "reloc" virtual-address allocator of lib/intel_allocator_reloc.c.   *)
(* It keeps a map from buffer handles to records (offset, size,            *)
(* pat_index), a bump cursor "offset" inside [start, end], and a counter   *)
(* of live records.  A fresh allocation is placed at the aligned cursor;   *)
(* when it would pass "end" the cursor wraps once to the aligned start,    *)
(* and if it still does not fit ALLOC_INVALID_ADDRESS is returned.         *)
(*                                                                         *)
(* Addresses are uint64 in the code; here they are AddrBits wide and all   *)
(* arithmetic on them is taken modulo 2^AddrBits, so that ALIGN and the    *)
(* "aligned_offset + size > end" test behave as the C expressions do.      *)
(* A failed igt_assert ends the subtest: the state "failed" is terminal.   *)
(***************************************************************************)
EXTENDS Naturals, Bitwise

CONSTANTS
  Handles,        \* buffer handles callers pass to alloc and free
  Sizes,          \* object sizes callers request
  Alignments,     \* alignments callers request
  PatIndexes,     \* pat_index tags callers pass
  StartArg,       \* "start" argument of intel_allocator_reloc_create
  EndArg,         \* "end" argument of intel_allocator_reloc_create
  BIAS,           \* low region kept clear (256 KiB in the code)
  AddrBits,       \* width of the address arithmetic
  InvalidAddress, \* ALLOC_INVALID_ADDRESS
  NoRecord        \* igt_map_search found no entry

ASSUME /\ Sizes \subseteq Nat /\ Alignments \subseteq Nat /\ BIAS \in Nat
       /\ StartArg \in Nat /\ EndArg \in Nat /\ AddrBits \in Nat \ {0}
       /\ EndArg < 2^AddrBits

VARIABLES
  objects,           \* handle -> record, or NoRecord (ialr->objects)
  start, end,        \* ialr->start, ialr->end
  offset,            \* ialr->offset, the bump cursor
  allocated_objects, \* ialr->allocated_objects
  ret,               \* value returned by the last alloc
  found,             \* value returned by the last free
  call,              \* the last call made and its arguments
  state              \* "live", "destroyed", or "failed" (an igt_assert fired)

vars == <<objects, start, end, offset, allocated_objects, ret, found, call, state>>

Mod == 2^AddrBits

Records == [offset: 0..Mod - 1, size: Sizes, pat_index: PatIndexes]

(* A call of the allocator interface with its arguments; free and create   *)
(* carry no size, alignment or pat_index.                                  *)
Call(op, handle, size, alignment, pat_index) ==
  [op |-> op, handle |-> handle, size |-> size, alignment |-> alignment,
   pat_index |-> pat_index]

(* ALIGN(v, a) of lib/drmtest.h: ((v) + ((a) - 1)) & ~((a) - 1) on uint64. *)
ALIGN(v, a) ==
  LET mask == (a + Mod - 1) % Mod
  IN  ((v + mask) % Mod) & (Mod - 1 - mask)

(* max_t(uint64_t, start, BIAS) in intel_allocator_reloc_create.           *)
CreateStart == IF StartArg >= BIAS THEN StartArg ELSE BIAS

(* intel_allocator_reloc_create: raise start to BIAS, assert start < end.  *)
Init ==
  /\ objects = [h \in Handles |-> NoRecord]
  /\ start = CreateStart
  /\ end = EndArg
  /\ offset = CreateStart
  /\ allocated_objects = 0
  /\ ret = InvalidAddress
  /\ found = FALSE
  /\ call = Call("create", NoRecord, 0, 0, 0)
  /\ state = IF CreateStart < EndArg THEN "live" ELSE "failed"

(* Placement without the wrap to start (the first "exceed end" check of    *)
(* intel_allocator_reloc_alloc dropped).                                   *)
PlacementNoWrap(size, alignment) == ALIGN(offset, alignment)

(* The placement computed for a fresh handle: the aligned cursor, or the   *)
(* aligned start when the aligned cursor would pass end.                   *)
Placement(size, alignment) ==
  LET aligned_offset == ALIGN(offset, alignment)
  IN  IF (aligned_offset + size) % Mod > end
        THEN ALIGN(start, alignment)
        ELSE aligned_offset

(* alloc of a known handle that also bumps the live-object counter.        *)
AllocExistingCounted(handle, size, alignment, pat_index) ==
  /\ state = "live"
  /\ objects[handle] # NoRecord
  /\ objects[handle].size = size
  /\ objects[handle].pat_index = pat_index
  /\ ret' = objects[handle].offset
  /\ allocated_objects' = allocated_objects + 1
  /\ call' = Call("alloc", handle, size, alignment, pat_index)
  /\ UNCHANGED <<objects, start, end, offset, found, state>>

(* alloc of a handle that has a record: return its offset.                 *)
AllocExisting(handle, size, alignment, pat_index) ==
  /\ state = "live"
  /\ objects[handle] # NoRecord
  /\ objects[handle].size = size
  /\ objects[handle].pat_index = pat_index
  /\ ret' = objects[handle].offset
  /\ call' = Call("alloc", handle, size, alignment, pat_index)
  /\ UNCHANGED <<objects, start, end, offset, allocated_objects, found, state>>

(* alloc of a handle that has a record with another size or pat_index:     *)
(* one of the two igt_asserts fires.                                       *)
AllocMismatch(handle, size, alignment, pat_index) ==
  /\ state = "live"
  /\ objects[handle] # NoRecord
  /\ \/ objects[handle].size # size
     \/ objects[handle].pat_index # pat_index
  /\ state' = "failed"
  /\ call' = Call("alloc", handle, size, alignment, pat_index)
  /\ UNCHANGED <<objects, start, end, offset, allocated_objects, ret, found>>

(* alloc of a new handle that fits: insert the record, bump the cursor.    *)
AllocFresh(handle, size, alignment, pat_index) ==
  LET o == Placement(size, alignment)
  IN  /\ state = "live"
      /\ objects[handle] = NoRecord
      /\ (o + size) % Mod <= end
      /\ objects' = [objects EXCEPT ![handle] =
                       [offset |-> o, size |-> size, pat_index |-> pat_index]]
      /\ offset' = (o + size) % Mod
      /\ allocated_objects' = allocated_objects + 1
      /\ ret' = o
      /\ call' = Call("alloc", handle, size, alignment, pat_index)
      /\ UNCHANGED <<start, end, found, state>>

(* alloc of a new handle that does not fit even after the wrap.            *)
AllocNoSpace(handle, size, alignment, pat_index) ==
  /\ state = "live"
  /\ objects[handle] = NoRecord
  /\ (Placement(size, alignment) + size) % Mod > end
  /\ ret' = InvalidAddress
  /\ call' = Call("alloc", handle, size, alignment, pat_index)
  /\ UNCHANGED <<objects, start, end, offset, allocated_objects, found, state>>

(* free that decrements the counter whether or not the handle had a       *)
(* record.                                                                 *)
FreeAlwaysDecrement(handle) ==
  /\ state = "live"
  /\ objects' = [objects EXCEPT ![handle] = NoRecord]
  /\ allocated_objects' = allocated_objects - 1
  /\ found' = (objects[handle] # NoRecord)
  /\ call' = Call("free", handle, 0, 0, 0)
  /\ UNCHANGED <<start, end, offset, ret, state>>

(* intel_allocator_reloc_free: drop the record if there is one.            *)
Free(handle) ==
  /\ state = "live"
  /\ IF objects[handle] # NoRecord
       THEN /\ objects' = [objects EXCEPT ![handle] = NoRecord]
            /\ allocated_objects' = allocated_objects - 1
            /\ found' = TRUE
       ELSE /\ found' = FALSE
            /\ UNCHANGED <<objects, allocated_objects>>
  /\ call' = Call("free", handle, 0, 0, 0)
  /\ UNCHANGED <<start, end, offset, ret, state>>

(* intel_allocator_reloc_destroy: release every record and the allocator.  *)
Destroy ==
  /\ state = "live"
  /\ objects' = [h \in Handles |-> NoRecord]
  /\ state' = "destroyed"
  /\ call' = Call("destroy", NoRecord, 0, 0, 0)
  /\ UNCHANGED <<start, end, offset, allocated_objects, ret, found>>

(* intel_allocator_reloc_is_empty.                                         *)
IsEmpty == allocated_objects = 0

(* The allocator is gone or a test assertion ended the subtest.            *)
Stopped ==
  /\ state # "live"
  /\ UNCHANGED vars

Next ==
  \/ \E h \in Handles, s \in Sizes, a \in Alignments, p \in PatIndexes :
        \/ AllocExisting(h, s, a, p)
        \/ AllocMismatch(h, s, a, p)
        \/ AllocFresh(h, s, a, p)
        \/ AllocNoSpace(h, s, a, p)
  \/ \E h \in Handles : Free(h)
  \/ Destroy
  \/ Stopped

Spec == Init /\ [][Next]_vars

-----------------------------------------------------------------------------

Live == {h \in Handles : objects[h] # NoRecord}

TypeOK ==
  /\ objects \in [Handles -> Records \cup {NoRecord}]
  /\ start \in 0..Mod - 1 /\ end \in 0..Mod - 1 /\ offset \in 0..Mod - 1
  /\ allocated_objects \in Nat
  /\ ret \in 0..Mod - 1 \cup {InvalidAddress}
  /\ found \in BOOLEAN
  /\ call \in {Call(op, h, s, a, p) : op \in {"alloc"}, h \in Handles,
                s \in Sizes, a \in Alignments, p \in PatIndexes}
              \cup {Call("free", h, 0, 0, 0) : h \in Handles}
              \cup {Call(op, NoRecord, 0, 0, 0) : op \in {"create", "destroy"}}
  /\ state \in {"live", "destroyed", "failed"}

(* is_empty answers from the counter, not from the map: it must be true    *)
(* exactly when no handle has a record, across any sequence of allocs of   *)
(* new and known handles and frees of known and unknown handles.           *)
EmptyIffNoObjects ==
  state = "live" => (IsEmpty <=> Live = {})

(* Two live records never share an address: the spec's "hand out          *)
(* non-overlapping offsets".  The wrap to start in alloc does not look at  *)
(* the records still live there.                                           *)
NoOverlap ==
  \A h1, h2 \in Live :
    h1 # h2 =>
      \/ objects[h1].offset + objects[h1].size <= objects[h2].offset
      \/ objects[h2].offset + objects[h2].size <= objects[h1].offset

=============================================================================

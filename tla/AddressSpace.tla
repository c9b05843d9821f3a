---------------------------- MODULE AddressSpace ----------------------------
(***************************************************************************)
(* What an intel_allocator promises its callers, independent of placement  *)
(* policy: alloc of a handle with a record returns that record's offset;   *)
(* alloc of a new handle returns an aligned offset whose whole object lies *)
(* in [Start, End], or the invalid address only when no aligned offset of  *)
(* the range can hold the object; free drops the record.  The reloc        *)
(* allocator (RelocAllocator) is checked to implement this.                *)
(***************************************************************************)
EXTENDS Naturals

CONSTANTS Handles, Sizes, Alignments, PatIndexes, Start, End,
          InvalidAddress, NoRecord

VARIABLES objects, ret, found, call, state

vars == <<objects, ret, found, call, state>>

(* The last call and its arguments, as the caller sees it.                *)
Call(op, handle, size, alignment, pat_index) ==
  [op |-> op, handle |-> handle, size |-> size, alignment |-> alignment,
   pat_index |-> pat_index]

(* The offsets where an object of this size and alignment may be placed.   *)
Fits(size, alignment) ==
  {o \in Start..End : o % alignment = 0 /\ o + size <= End}

Init ==
  /\ objects = [h \in Handles |-> NoRecord]
  /\ ret = InvalidAddress
  /\ found = FALSE
  /\ call = Call("create", NoRecord, 0, 0, 0)
  /\ state = IF Start < End THEN "live" ELSE "failed"

Known(handle, size, alignment, pat_index) ==
  /\ state = "live"
  /\ objects[handle] # NoRecord
  /\ objects[handle].size = size /\ objects[handle].pat_index = pat_index
  /\ ret' = objects[handle].offset
  /\ call' = Call("alloc", handle, size, alignment, pat_index)
  /\ UNCHANGED <<objects, found, state>>

Misuse(handle, size, alignment, pat_index) ==
  /\ state = "live"
  /\ objects[handle] # NoRecord
  /\ (objects[handle].size # size \/ objects[handle].pat_index # pat_index)
  /\ state' = "failed"
  /\ call' = Call("alloc", handle, size, alignment, pat_index)
  /\ UNCHANGED <<objects, ret, found>>

Place(handle, size, alignment, pat_index) ==
  /\ state = "live"
  /\ objects[handle] = NoRecord
  /\ \E o \in Fits(size, alignment) :
        /\ objects' = [objects EXCEPT ![handle] =
                         [offset |-> o, size |-> size, pat_index |-> pat_index]]
        /\ ret' = o
  /\ call' = Call("alloc", handle, size, alignment, pat_index)
  /\ UNCHANGED <<found, state>>

Exhausted(handle, size, alignment, pat_index) ==
  /\ state = "live"
  /\ objects[handle] = NoRecord
  /\ Fits(size, alignment) = {}
  /\ ret' = InvalidAddress
  /\ call' = Call("alloc", handle, size, alignment, pat_index)
  /\ UNCHANGED <<objects, found, state>>

Release(handle) ==
  /\ state = "live"
  /\ objects' = [objects EXCEPT ![handle] = NoRecord]
  /\ found' = (objects[handle] # NoRecord)
  /\ call' = Call("free", handle, 0, 0, 0)
  /\ UNCHANGED <<ret, state>>

Close ==
  /\ state = "live"
  /\ objects' = [h \in Handles |-> NoRecord]
  /\ state' = "destroyed"
  /\ call' = Call("destroy", NoRecord, 0, 0, 0)
  /\ UNCHANGED <<ret, found>>

Next ==
  \/ \E h \in Handles, s \in Sizes, a \in Alignments, p \in PatIndexes :
        \/ Known(h, s, a, p)
        \/ Misuse(h, s, a, p)
        \/ Place(h, s, a, p)
        \/ Exhausted(h, s, a, p)
  \/ \E h \in Handles : Release(h)
  \/ Close

Spec == Init /\ [][Next]_vars

=============================================================================

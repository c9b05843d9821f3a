------------------------------- MODULE CmdBase -------------------------------
(***************************************************************************)
(* The command-stream encoder of lib/amdgpu/amd_ip_blocks.c (struct        *)
(* amdgpu_cmd_base): a cursor cdw into a dword buffer buf of capacity      *)
(* max_dw, the buffer either calloc'ed by allocate_buf or lent by the      *)
(* caller through attach_buf (is_assigned_buf), the emit family that       *)
(* writes at and advances the cursor under assert(), and free_cmd_base.    *)
(*                                                                         *)
(* The heap is made explicit: every buffer the encoder ever points at is   *)
(* a block with an owner (the encoder for calloc, the caller for attach),  *)
(* its real size in dwords and whether it is live or freed.  Writes are    *)
(* checked against the block buf really points at, not against max_dw, so  *)
(* that max_dw itself can be wrong.  uint32 arithmetic is taken modulo     *)
(* 2^DwBits.  A failed assert() aborts the process: state "aborted" is     *)
(* terminal.  Dword values and the payload of emit_buf are left out.       *)
(***************************************************************************)
EXTENDS Integers, Bitwise

CONSTANTS
  SizeDwArgs,    \* size_dw arguments of allocate_buf
  AttachArgs,    \* size_bytes arguments of attach_buf (the caller's buffer size)
  RepeatArgs,    \* number_of_times arguments of emit_repeat
  MaskArgs,      \* mask arguments of emit_aligned
  OffsetArgs,    \* offset_dwords arguments of emit_at_offset
  BufByteArgs,   \* offset_bytes and size_bytes arguments of emit_buf
  MaxBuffers,    \* bound on the blocks calloc'ed or attached in one run
  DwBits,        \* width of the uint32 arithmetic
  NULL

ASSUME MaxBuffers \in Nat /\ DwBits \in Nat \ {0}

Mod == 2^DwBits

Buffers == 1..MaxBuffers

VARIABLES
  cdw, max_dw, buf, is_assigned_buf,  \* the fields of amdgpu_cmd_base
  heap,     \* block -> [owner, dw, st]: what buf may point at
  nextBuf,  \* the next block calloc or the caller hands out
  ret,      \* value returned by the last allocate_buf or attach_buf
  oob,      \* some write fell outside the live block buf points at
  state     \* "live", "freed" (free_cmd_base ran) or "aborted" (assert fired)

vars == <<cdw, max_dw, buf, is_assigned_buf, heap, nextBuf, ret, oob, state>>

Unused == [owner |-> "none", dw |-> 0, st |-> "unused"]

(* get_cmd_base: a zeroed struct with no buffer.                           *)
Init ==
  /\ cdw = 0 /\ max_dw = 0 /\ buf = NULL /\ is_assigned_buf = FALSE
  /\ heap = [b \in Buffers |-> Unused]
  /\ nextBuf = 1
  /\ ret = 0
  /\ oob = FALSE
  /\ state = "live"

(* Writing dwords lo..hi-1 of buf strays outside the block it points at.   *)
Stray(lo, hi) ==
  /\ lo < hi
  /\ \/ buf = NULL
     \/ heap[buf].st # "live"
     \/ hi > heap[buf].dw

(* free(base->buf).                                                        *)
FreeBuf(h) == [h EXCEPT ![buf].st = "freed"]

(* The "if (base->buf) { free; NULL; 0; 0 }" block shared by allocate_buf  *)
(* and attach_buf, as the heap it leaves.                                  *)
DropBuf == IF buf # NULL THEN FreeBuf(heap) ELSE heap

(* A new block of dw dwords, owned by owner, at nextBuf.                   *)
NewBlock(h, owner, dw) ==
  [h EXCEPT ![nextBuf] = [owner |-> owner, dw |-> dw, st |-> "live"]]

(* An assert() fired after the writes that preceded it.                    *)
Abort(lo, hi) ==
  /\ oob' = (oob \/ Stray(lo, hi))
  /\ state' = "aborted"
  /\ UNCHANGED <<cdw, max_dw, buf, is_assigned_buf, heap, nextBuf, ret>>

(* cmd_allocate_buf when the buffer is already large enough.               *)
AllocateBufKeep(size_dw) ==
  /\ state = "live"
  /\ size_dw <= max_dw
  /\ ret' = 0
  /\ UNCHANGED <<cdw, max_dw, buf, is_assigned_buf, heap, nextBuf, oob, state>>

(* cmd_allocate_buf growing: free the old buffer whoever owns it, then     *)
(* calloc(4, size_dw) succeeds.                                            *)
AllocateBufGrow(size_dw) ==
  /\ state = "live"
  /\ size_dw > max_dw
  /\ nextBuf \in Buffers
  /\ heap' = NewBlock(DropBuf, "encoder", size_dw)
  /\ buf' = nextBuf
  /\ nextBuf' = nextBuf + 1
  /\ max_dw' = size_dw
  /\ cdw' = 0
  /\ ret' = 0
  /\ UNCHANGED <<is_assigned_buf, oob, state>>

(* cmd_allocate_buf growing when calloc returns NULL: the old buffer is    *)
(* already gone; cdw and max_dw are reset only if there was one.           *)
AllocateBufNoMem(size_dw) ==
  /\ state = "live"
  /\ size_dw > max_dw
  /\ heap' = DropBuf
  /\ buf' = NULL
  /\ max_dw' = IF buf # NULL THEN 0 ELSE max_dw
  /\ cdw' = IF buf # NULL THEN 0 ELSE cdw
  /\ ret' = -1
  /\ UNCHANGED <<is_assigned_buf, nextBuf, oob, state>>

(* cmd_attach_buf refused: an attached buffer is already in place.         *)
AttachBufRefused ==
  /\ state = "live"
  /\ buf # NULL /\ is_assigned_buf
  /\ ret' = -1
  /\ UNCHANGED <<cdw, max_dw, buf, is_assigned_buf, heap, nextBuf, oob, state>>

(* attach_buf taking size_bytes as the capacity in dwords (the >> 2       *)
(* dropped).                                                               *)
AttachBufBytes(size_bytes) ==
  /\ state = "live"
  /\ ~(buf # NULL /\ is_assigned_buf)
  /\ nextBuf \in Buffers
  /\ heap' = NewBlock(DropBuf, "caller", size_bytes \div 4)
  /\ buf' = nextBuf
  /\ nextBuf' = nextBuf + 1
  /\ max_dw' = size_bytes
  /\ cdw' = 0
  /\ is_assigned_buf' = TRUE
  /\ ret' = 0
  /\ UNCHANGED <<oob, state>>

(* cmd_attach_buf accepted: free the old buffer, take the caller's block   *)
(* of size_bytes bytes, capacity size_bytes >> 2.                          *)
AttachBuf(size_bytes) ==
  /\ state = "live"
  /\ ~(buf # NULL /\ is_assigned_buf)
  /\ nextBuf \in Buffers
  /\ heap' = NewBlock(DropBuf, "caller", size_bytes \div 4)
  /\ buf' = nextBuf
  /\ nextBuf' = nextBuf + 1
  /\ max_dw' = size_bytes \div 4
  /\ cdw' = 0
  /\ is_assigned_buf' = TRUE
  /\ ret' = 0
  /\ UNCHANGED <<oob, state>>

(* cmd_emit without its assert.                                           *)
EmitUnchecked ==
  /\ state = "live"
  /\ oob' = (oob \/ Stray(cdw, cdw + 1))
  /\ cdw' = (cdw + 1) % Mod
  /\ UNCHANGED <<max_dw, buf, is_assigned_buf, heap, nextBuf, ret, state>>

(* cmd_emit: assert(cdw < max_dw), write buf[cdw++].                       *)
Emit ==
  /\ state = "live"
  /\ IF cdw < max_dw
       THEN /\ oob' = (oob \/ Stray(cdw, cdw + 1))
            /\ cdw' = cdw + 1
            /\ UNCHANGED <<max_dw, buf, is_assigned_buf, heap, nextBuf, ret, state>>
       ELSE Abort(cdw, cdw)

(* The first cursor value from cdw on with no bit of mask set: where the   *)
(* emit loop of cmd_emit_aligned stops, unless an assert stops it first.   *)
AlignedStop(mask) ==
  LET stops == {k \in cdw..Mod : k = Mod \/ (k & mask) = 0}
  IN  CHOOSE k \in stops : \A j \in stops : k <= j

(* cmd_emit_aligned: emit until (cdw & mask) == 0, each emit asserted.     *)
EmitAligned(mask) ==
  LET stop == AlignedStop(mask)
  IN  /\ state = "live"
      /\ IF stop <= max_dw
           THEN /\ oob' = (oob \/ Stray(cdw, stop))
                /\ cdw' = stop
                /\ UNCHANGED <<max_dw, buf, is_assigned_buf, heap, nextBuf, ret, state>>
           ELSE Abort(cdw, max_dw)

(* cmd_emit_repeat: number_of_times asserted writes at the cursor.         *)
EmitRepeat(n) ==
  /\ state = "live"
  /\ IF cdw + n <= max_dw
       THEN /\ oob' = (oob \/ Stray(cdw, cdw + n))
            /\ cdw' = cdw + n
            /\ UNCHANGED <<max_dw, buf, is_assigned_buf, heap, nextBuf, ret, state>>
       ELSE Abort(cdw, max_dw)

(* cmd_emit_buf: total_offset_dw = (offset_bytes + size_bytes) >> 2 in     *)
(* uint32; three asserts; memcpy of size_bytes at buf + cdw + offset_dw    *)
(* (pointer arithmetic, no wrap); cdw += total_offset_dw.                  *)
EmitBuf(offset_bytes, size_bytes) ==
  LET total  == ((offset_bytes + size_bytes) % Mod) \div 4
      first  == cdw + offset_bytes \div 4
  IN  /\ state = "live"
      /\ IF /\ size_bytes % 4 = 0
            /\ offset_bytes % 4 = 0
            /\ (cdw + total) % Mod < max_dw
           THEN /\ oob' = (oob \/ Stray(first, first + size_bytes \div 4))
                /\ cdw' = (cdw + total) % Mod
                /\ UNCHANGED <<max_dw, buf, is_assigned_buf, heap, nextBuf, ret, state>>
           ELSE Abort(cdw, cdw)

(* cmd_emit_at_offset: assert(cdw + offset_dwords < max_dw) in uint32,     *)
(* write buf[cdw + offset_dwords]; the cursor stays.                       *)
EmitAtOffset(offset_dwords) ==
  LET at == (cdw + offset_dwords) % Mod
  IN  /\ state = "live"
      /\ IF at < max_dw
           THEN /\ oob' = (oob \/ Stray(at, at + 1))
                /\ UNCHANGED <<cdw, max_dw, buf, is_assigned_buf, heap, nextBuf, ret, state>>
           ELSE Abort(cdw, cdw)

(* free_cmd_base: free buf only when it was not attached, then the struct. *)
FreeCmdBase ==
  /\ state = "live"
  /\ heap' = IF buf # NULL /\ ~is_assigned_buf THEN FreeBuf(heap) ELSE heap
  /\ state' = "freed"
  /\ UNCHANGED <<cdw, max_dw, buf, is_assigned_buf, nextBuf, ret, oob>>

(* The encoder is gone, or an assert ended the process.                    *)
Stopped ==
  /\ state # "live"
  /\ UNCHANGED vars

Next ==
  \/ \E s \in SizeDwArgs :
        AllocateBufKeep(s) \/ AllocateBufGrow(s) \/ AllocateBufNoMem(s)
  \/ AttachBufRefused
  \/ \E s \in AttachArgs : AttachBuf(s)
  \/ Emit
  \/ \E m \in MaskArgs : EmitAligned(m)
  \/ \E n \in RepeatArgs : EmitRepeat(n)
  \/ \E o, s \in BufByteArgs : EmitBuf(o, s)
  \/ \E o \in OffsetArgs : EmitAtOffset(o)
  \/ FreeCmdBase
  \/ Stopped

Spec == Init /\ [][Next]_vars

-----------------------------------------------------------------------------

Block == [owner: {"none", "encoder", "caller"}, dw: 0..Mod - 1,
          st: {"unused", "live", "freed"}]

TypeOK ==
  /\ cdw \in 0..Mod - 1 /\ max_dw \in 0..Mod - 1
  /\ buf \in Buffers \cup {NULL}
  /\ is_assigned_buf \in BOOLEAN
  /\ heap \in [Buffers -> Block]
  /\ nextBuf \in 1..MaxBuffers + 1
  /\ ret \in {0, -1} /\ oob \in BOOLEAN
  /\ state \in {"live", "freed", "aborted"}

(* Every dword the emit family writes lands inside the live block buf      *)
(* points at, across any sequence of allocate_buf (growing, keeping,       *)
(* failing), attach_buf and emits: the asserts against max_dw are enough   *)
(* only if max_dw never exceeds what buf really holds.                     *)
NoWriteOutsideBuffer == ~oob

(* The encoder never frees memory the caller lent it with attach_buf:      *)
(* is_assigned_buf says "allocated externally, no free".  allocate_buf     *)
(* frees the old buffer without looking at is_assigned_buf.                *)
NoCallerBufferFreed ==
  \A b \in Buffers : heap[b].owner = "caller" => heap[b].st # "freed"


(* free_cmd_base releases everything the encoder calloc'ed: once it has    *)
(* run, no block owned by the encoder is still live.  It decides from      *)
(* is_assigned_buf, which allocate_buf never clears when it replaces an    *)
(* attached buffer by one of its own.                                      *)
NoBufferLeakedAtFree ==
  state = "freed" => \A b \in Buffers : heap[b].owner = "encoder" => heap[b].st # "live"

=============================================================================

------------------------------ MODULE HangSdma ------------------------------
(***************************************************************************)
(* amdgpu_hang_sdma_helper of lib/amdgpu/amd_deadlock_helpers.c, over the  *)
(* IP-block registry of AmdIpBlocks.  The helper asks get_ip_block for the *)
(* device's SDMA block and builds an IB with its copy_linear: for the      *)
(* corrupted-header hang, one copy packet whose header it overwrites; for  *)
(* the slow-copy hang, MAX_DMABUF_COUNT - 1 pairs of copy packets, the     *)
(* second of each pair patched through a command encoder attached to the   *)
(* IB (emit_at_offset at pm4_dw * 2 * j - 4 .. - 1) to copy back from bo2  *)
(* to bo.  The helper runs in the test's thread between the registry's     *)
(* other calls; a NULL block (no setup for the device, or a GFX6 chip)     *)
(* is dereferenced and ends the process.                                   *)
(***************************************************************************)
EXTENDS AmdIpBlocks

CONSTANTS
  MaxDmabuf,   \* MAX_DMABUF_COUNT (0x20000 in the code)
  MaxDword,    \* MAX_DWORD_COUNT (256)
  HangTypes    \* the hang_type values the tests pass

VARIABLE
  lastHang     \* the last helper call [d, ht, fam, st]: st "none" before
               \* any, "built", or "segv" (it dereferenced a NULL block)

hvars == <<rvars, lastHang>>

(* ring_context->write_length for a hang type.                             *)
WriteLength(ht) ==
  IF ht = "DMA_CORRUPTED_HEADER_HANG" THEN 4096 ELSE MaxDword * 4 * MaxDmabuf

(* Mutant: the offset of the first copy of the pair.                       *)
PairEndFirst(n, j) == n * (2 * j - 1)

(* offset = ring_context->pm4_dw * 2 * j: the end of pair j.               *)
PairEnd(n, j) == n * 2 * j

(* The loop of emit_at_offset calls: for j from 1 while j < MAX_DMABUF_COUNT *)
(* the four address dwords ending at offset pm4_dw * 2 * j (base->cdw is 0, *)
(* the encoder being attached at the start of the IB).                     *)
RECURSIVE PatchPairs(_, _, _)
PatchPairs(buf, n, j) ==
  IF j >= MaxDmabuf THEN buf
  ELSE LET offset == PairEnd(n, j)
       IN  PatchPairs([buf EXCEPT ![offset - 3] = DW("bo2_lo"),
                                  ![offset - 2] = DW("bo2_hi"),
                                  ![offset - 1] = DW("bo_lo"),
                                  ![offset]     = DW("bo_hi")], n, j + 1)

(* The IB the helper submits, up to its final pm4_dw, for SDMA family fam: *)
(* copy_linear at pm4, pm4 advanced by pm4_dw after each copy, the rest of *)
(* the calloc'd pm4 zero.                                                  *)
HangIb(fam, ht) ==
  LET p == SdmaCopyLinear(fam, WriteLength(ht))
      n == Len(p)
  IN  IF ht = "DMA_CORRUPTED_HEADER_HANG"
      THEN [p EXCEPT ![1] = DW("corrupt_header")]
      ELSE LET written == [k \in 1..2 * n * (MaxDmabuf - 1) |-> p[((k - 1) % n) + 1]]
           IN  PatchPairs(written, n, 1) \o [k \in 1..2 * n |-> DW("0")]

HInit == RInit /\ lastHang = [d |-> NULL, ht |-> "none", fam |-> 0, st |-> "none"]

(* amdgpu_hang_sdma_helper(d, ht): the SDMA funcs table's family_id is read *)
(* by copy_linear when the helper builds.                                  *)
HangSdmaHelper(d, ht) ==
  LET blk == IpBlock(d, "DMA") IN
  /\ RCall
  /\ lastHang' = IF blk = NULL
                 THEN [d |-> d, ht |-> ht, fam |-> 0, st |-> "segv"]
                 ELSE [d |-> d, ht |-> ht, fam |-> funcs_family[BlockFuncs[blk]],
                       st |-> "built"]
  /\ UNCHANGED <<devinfo, blocks, funcs_family, g_chip, held, rv>>

Alive == lastHang.st # "segv"

HNext ==
  \/ Alive /\ RNext /\ UNCHANGED lastHang
  \/ Alive /\ \E d \in Devices, ht \in HangTypes : HangSdmaHelper(d, ht)
  \/ ~Alive /\ UNCHANGED hvars

-----------------------------------------------------------------------------

(* The IB the helper means to submit, built independently: the copy        *)
(* packets of the device's family, each pair copying bo to bo2 and back.   *)
ReferenceIb(fam, ht) ==
  LET len == WriteLength(ht) IN
  IF ht = "DMA_CORRUPTED_HEADER_HANG"
  THEN << DW("corrupt_header") >> \o Tail(SdmaCopyLinear(fam, len))
  ELSE LET pair == SdmaCopy(fam, len, "bo", "bo2") \o SdmaCopy(fam, len, "bo2", "bo")
       IN  [k \in 1..Len(pair) * (MaxDmabuf - 1) |-> pair[((k - 1) % Len(pair)) + 1]]

(* Every IB amdgpu_hang_sdma_helper builds starts with the packets it      *)
(* means: the layout of the device's SDMA family, and for the slow copy    *)
(* pairs that copy bo to bo2 and back, the patched address dwords landing  *)
(* exactly on the second copy's source and destination.  The two packets   *)
(* its final pm4_dw adds beyond them are not compared.                     *)
HangIbAsIntended ==
  lastHang.st = "built" =>
    LET ib  == HangIb(lastHang.fam, lastHang.ht)
        ref == ReferenceIb(devinfo[lastHang.d].family_id, lastHang.ht)
    IN  Len(ib) >= Len(ref) /\ SubSeq(ib, 1, Len(ref)) = ref

=============================================================================

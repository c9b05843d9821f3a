------------------------------ MODULE AmdIpBlocks ------------------------------
(***************************************************************************)
(* The IP-block registry of lib/amdgpu/amd_ip_blocks.c and the packet      *)
(* builders its blocks point at.  setup_amdgpu_ip_blocks identifies the    *)
(* chip of the amdgpu_gpu_info it is given into the process-wide g_chip,   *)
(* derives its chip class, and for GFX7 and later appends the gfx, compute *)
(* and sdma blocks to the process-wide amdgpu_ips and writes the family   *)
(* id into the two static funcs tables the blocks share.  get_ip_block     *)
(* answers only for the device of the last successful setup.  A test      *)
(* keeps the block pointer and builds packets through its funcs later.    *)
(*                                                                         *)
(* A chip revision is abstracted to the ASICREV range it falls in (the     *)
(* name of the asic, or "other"); a dword of a packet to a record of the   *)
(* field it holds and, for counts, its value.                              *)
(***************************************************************************)
EXTENDS Integers, Sequences, FiniteSets

CONSTANTS
  Devices,      \* amdgpu_device_handle values
  Infos,        \* the amdgpu_gpu_info a device may report: [family_id, rev]
  ChipOrder,    \* the CHIP_* names in the order of enum radeon_family
  AMD_IP_MAX,   \* capacity of amdgpu_ips.ip_blocks
  Types,        \* the block types a test asks get_ip_block for
  Ops,          \* the funcs a test builds packets with
  Lengths,      \* write_length values of the ring contexts
  MaxCalls,     \* bound on the calls of a behaviour
  NULL

(* The AMDGPU_FAMILY_* ids of amdgpu_drm.h. *)
FAMILY_SI == 110
FAMILY_CI == 120
FAMILY_KV == 125
FAMILY_VI == 130
FAMILY_CZ == 135
FAMILY_AI == 141
FAMILY_RV == 142
FAMILY_NV == 143
FAMILY_VGH == 144
FAMILY_GFX1100 == 145
FAMILY_YC == 146
FAMILY_GFX1103 == 148
FAMILY_GFX1036 == 149
FAMILY_GFX1150 == 150
FAMILY_GFX1037 == 151

(* The switch on family_id: identify_chip2(asic, chip) pairs per family.   *)
FamilyChips ==
  [f \in {FAMILY_SI, FAMILY_CI, FAMILY_KV, FAMILY_VI, FAMILY_CZ, FAMILY_AI,
          FAMILY_RV, FAMILY_NV, FAMILY_VGH, FAMILY_YC, FAMILY_GFX1036,
          FAMILY_GFX1037, FAMILY_GFX1100, FAMILY_GFX1103, FAMILY_GFX1150} |->
   LET same(S) == {<<c, c>> : c \in S} IN
   CASE f = FAMILY_SI -> same({"TAHITI", "PITCAIRN", "OLAND", "HAINAN"})
                          \cup {<<"CAPEVERDE", "VERDE">>}
     [] f = FAMILY_CI -> same({"BONAIRE", "HAWAII"})
     [] f = FAMILY_KV -> {<<"SPECTRE", "KAVERI">>, <<"SPOOKY", "KAVERI">>,
                          <<"KALINDI", "KABINI">>, <<"GODAVARI", "KABINI">>}
     [] f = FAMILY_VI -> same({"ICELAND", "TONGA", "FIJI", "POLARIS10",
                               "POLARIS11", "POLARIS12", "VEGAM"})
     [] f = FAMILY_CZ -> same({"CARRIZO", "STONEY"})
     [] f = FAMILY_AI -> same({"VEGA10", "VEGA12", "VEGA20", "ARCTURUS", "ALDEBARAN"})
     [] f = FAMILY_RV -> same({"RAVEN", "RAVEN2", "RENOIR"})
     [] f = FAMILY_NV -> same({"NAVI10", "NAVI12", "NAVI14", "SIENNA_CICHLID",
                               "NAVY_FLOUNDER", "DIMGREY_CAVEFISH", "BEIGE_GOBY"})
     [] f = FAMILY_VGH -> same({"VANGOGH"})
     [] f = FAMILY_YC -> same({"YELLOW_CARP"})
     [] f = FAMILY_GFX1036 -> same({"GFX1036"})
     [] f = FAMILY_GFX1037 -> same({"GFX1037"})
     [] f = FAMILY_GFX1100 -> same({"GFX1100", "GFX1101", "GFX1102"})
     [] f = FAMILY_GFX1103 -> same({"GFX1103_R1", "GFX1103_R2"})
     [] f = FAMILY_GFX1150 -> same({"GFX1150"})]

(* The chip the identify_chip calls for info leave in g_chip: the match,   *)
(* or what g_chip already held (the calls only assign on a match).         *)
Identify(info, old) ==
  LET m == IF info.family_id \in DOMAIN FamilyChips
           THEN {p \in FamilyChips[info.family_id] : p[1] = info.rev} ELSE {}
  IN  IF m = {} THEN old ELSE (CHOOSE p \in m : TRUE)[2]

Rank(c) == CHOOSE i \in DOMAIN ChipOrder : ChipOrder[i] = c

(* The "info->family >= CHIP_x" ladder, first threshold from the top.      *)
Ladder == << <<"GFX1100", "GFX11">>, <<"SIENNA_CICHLID", "GFX10_3">>,
             <<"NAVI10", "GFX10">>, <<"VEGA10", "GFX9">>, <<"TONGA", "GFX8">>,
             <<"BONAIRE", "GFX7">>, <<"TAHITI", "GFX6">> >>

ClassOf(chip) ==
  LET hit == {i \in DOMAIN Ladder : Rank(chip) >= Rank(Ladder[i][1])}
  IN  IF hit = {} THEN "unknown"
      ELSE Ladder[CHOOSE i \in hit : \A j \in hit : i <= j][2]

(* The blocks and the static funcs tables they point at.                  *)
BlockType == [gfx |-> "GFX", compute |-> "COMPUTE", sdma |-> "DMA"]
BlockFuncs == [gfx |-> "gfx_funcs", compute |-> "gfx_funcs", sdma |-> "sdma_funcs"]
FuncsTables == {"gfx_funcs", "sdma_funcs"}

-----------------------------------------------------------------------------
(* The packet builders.  A dword is the field it holds; counts keep their  *)
(* value.  SI families use the older packet formats; from AI on the SDMA   *)
(* count is write_length - 1.                                              *)

DW(f) == [f |-> f, v |-> 0]
Count(f, n) == [f |-> f, v |-> n]
Fill(n) == [j \in 1..n |-> DW("deadbeaf")]
Addr(bo) == <<DW(bo \o "_lo"), DW(bo \o "_hi")>>
SdmaCount(fam, len) == Count("count", IF fam >= FAMILY_AI THEN len - 1 ELSE len)

(* sdma_ring_write_linear *)
SdmaWriteLinear(fam, len) ==
  << IF fam = FAMILY_SI THEN Count("sdma_write_si", len) ELSE DW("sdma_write_linear") >>
  \o Addr("bo") \o << SdmaCount(fam, len) >> \o Fill(len)

(* sdma_ring_atomic: the same compare-swap packet for every family. *)
SdmaAtomic(fam, len) ==
  << DW("sdma_atomic") >> \o Addr("bo")
  \o << DW("src"), DW("zero"), DW("deadbeaf"), DW("zero"), DW("loop_interval") >>

(* sdma_ring_const_fill *)
SdmaConstFill(fam, len) ==
  IF fam = FAMILY_SI
  THEN << Count("sdma_fill_si", len \div 4), DW("bo_lo"), DW("deadbeaf"), DW("bo_hi_shr16") >>
  ELSE << DW("sdma_fill") >> \o Addr("bo") \o << DW("deadbeaf"), SdmaCount(fam, len) >>

(* sdma_ring_copy_linear, from src to dst; the builder copies bo to bo2.   *)
SdmaCopy(fam, len, src, dst) ==
  IF fam = FAMILY_SI
  THEN << Count("sdma_copy_si", len) >> \o Addr(src) \o Addr(dst)
  ELSE << DW("sdma_copy_linear"), SdmaCount(fam, len), DW("zero") >>
       \o Addr(src) \o Addr(dst)

SdmaCopyLinear(fam, len) == SdmaCopy(fam, len, "bo", "bo2")

(* gfx_ring_write_linear: PACKET3 WRITE_DATA, the same for every family. *)
GfxWriteLinear(fam, len) ==
  << Count("write_data", 2 + len), DW("dst_sel5_confirm") >> \o Addr("bo") \o Fill(len)

(* gfx_ring_atomic *)
GfxAtomic(fam, len) ==
  << DW("atomic_mem"), DW("cmpswap_rtn_32") >> \o Addr("bo")
  \o << DW("src"), DW("zero"), DW("deadbeaf"), DW("zero"), DW("loop_interval") >>

(* gfx_ring_const_fill: DMA_DATA from data, SI and later encodings. *)
GfxConstFill(fam, len) ==
  IF fam = FAMILY_SI
  THEN << DW("dma_data_si"), DW("deadbeaf"), DW("si_src_data") >> \o Addr("bo")
       \o << Count("bytes", len) >>
  ELSE << DW("dma_data"), DW("src_data"), DW("deadbeaf"), DW("zero") >> \o Addr("bo")
       \o << Count("bytes", len) >>

(* gfx_ring_copy_linear: on SI the high source address shares a dword     *)
(* with the control bits.                                                  *)
GfxCopyLinear(fam, len) ==
  IF fam = FAMILY_SI
  THEN << DW("dma_data_si"), DW("bo_lo"), DW("si_src_addr_bo_hi") >> \o Addr("bo2")
       \o << Count("bytes", len) >>
  ELSE << DW("dma_data"), DW("src_addr") >> \o Addr("bo") \o Addr("bo2")
       \o << Count("bytes", len) >>

(* The funcs tables gfx_v8_x_ip_funcs and sdma_v3_x_ip_funcs: the packet  *)
(* op builds for family fam.                                               *)
Packet(funcs, op, fam, len) ==
  IF funcs = "sdma_funcs"
  THEN CASE op = "write_linear" -> SdmaWriteLinear(fam, len)
         [] op = "atomic"       -> SdmaAtomic(fam, len)
         [] op = "const_fill"   -> SdmaConstFill(fam, len)
         [] op = "copy_linear"  -> SdmaCopyLinear(fam, len)
  ELSE CASE op = "write_linear" -> GfxWriteLinear(fam, len)
         [] op = "atomic"       -> GfxAtomic(fam, len)
         [] op = "const_fill"   -> GfxConstFill(fam, len)
         [] op = "copy_linear"  -> GfxCopyLinear(fam, len)

-----------------------------------------------------------------------------

VARIABLES
  devinfo,      \* devinfo[d]: the amdgpu_gpu_info device d reports
  blocks,       \* amdgpu_ips.ip_blocks[0..num_ip_blocks-1]
  funcs_family, \* the family_id field of each static funcs table
  g_chip,       \* g_chip: [chip, class, dev]
  held,         \* held[d][t]: the block pointer a test got for d and type t
  rv,           \* the value the last setup returned
  calls

rvars == <<devinfo, blocks, funcs_family, g_chip, held, rv, calls>>

(* Zero-initialised globals; the funcs tables start at FAMILY_VI.          *)
RInit ==
  /\ devinfo \in [Devices -> Infos]
  /\ blocks = <<>>
  /\ funcs_family = [f \in FuncsTables |-> FAMILY_VI]
  /\ g_chip = [chip |-> "none", class |-> "CLASS_UNKNOWN", dev |-> NULL]
  /\ held = [d \in Devices |-> [t \in Types |-> NULL]]
  /\ rv = 0
  /\ calls = 0

RCall == calls < MaxCalls /\ calls' = calls + 1

(* Mutant: amdgpu_device_ip_block_add without its capacity check. *)
BlockAddUnbounded(bs, b) == Append(bs, b)

(* amdgpu_device_ip_block_add: refused once the array is full. *)
BlockAdd(bs, b) == IF Len(bs) >= AMD_IP_MAX THEN bs ELSE Append(bs, b)

(* Mutant: the GFX6 case without its break falls into the registration.   *)
RegistersBlocksGfx6(cls) == cls \in {"GFX6", "GFX7", "GFX8", "GFX9", "GFX10", "GFX10_3", "GFX11"}

(* The chip classes whose case registers the blocks.                      *)
RegistersBlocks(cls) == cls \in {"GFX7", "GFX8", "GFX9", "GFX10", "GFX10_3", "GFX11"}

(* The loop over the registered blocks writing family_id into the funcs  *)
(* table each one points at.                                               *)
FamilyOverwrite(bs, fam) ==
  [f \in FuncsTables |->
     IF \E i \in DOMAIN bs : BlockFuncs[bs[i]] = f THEN fam ELSE funcs_family[f]]

(* setup_amdgpu_ip_blocks(major, minor, &devinfo[d], d).                   *)
Setup(d) ==
  LET info == devinfo[d]
      chip == Identify(info, g_chip.chip)
      cls  == ClassOf(chip)
      bs   == BlockAdd(BlockAdd(BlockAdd(blocks, "gfx"), "compute"), "sdma")
  IN
  /\ RCall
  /\ CASE chip = "none" ->
            rv' = -1 /\ UNCHANGED <<g_chip, blocks, funcs_family>>
       [] cls = "unknown" ->
            /\ rv' = -1 /\ g_chip' = [g_chip EXCEPT !.chip = chip]
            /\ UNCHANGED <<blocks, funcs_family>>
       [] RegistersBlocks(cls) ->
            /\ blocks' = bs
            /\ funcs_family' = FamilyOverwrite(bs, info.family_id)
            /\ g_chip' = [chip |-> chip, class |-> cls, dev |-> d]
            /\ rv' = 0
       [] cls = "GFX6" ->
            /\ g_chip' = [chip |-> chip, class |-> cls, dev |-> d]
            /\ rv' = 0 /\ UNCHANGED <<blocks, funcs_family>>
  /\ UNCHANGED <<devinfo, held>>

(* get_ip_block(d, t): NULL unless d is g_chip.dev; else the first block   *)
(* of type t.                                                              *)
IpBlock(d, t) ==
  LET hits == {i \in DOMAIN blocks : BlockType[blocks[i]] = t}
  IN  IF g_chip.dev # d \/ hits = {} THEN NULL
      ELSE blocks[CHOOSE i \in hits : \A j \in hits : i <= j]

(* A test calls get_ip_block and keeps the pointer.                        *)
GetIpBlock(d, t) ==
  /\ RCall
  /\ held' = [held EXCEPT ![d][t] = IpBlock(d, t)]
  /\ UNCHANGED <<devinfo, blocks, funcs_family, g_chip, rv>>

RDone == calls = MaxCalls /\ UNCHANGED rvars

RNext ==
  \/ \E d \in Devices : Setup(d)
  \/ \E d \in Devices, t \in Types : GetIpBlock(d, t)
  \/ RDone

RSpec == RInit /\ [][RNext]_rvars

-----------------------------------------------------------------------------

RegistryTypeOK ==
  /\ Len(blocks) \in 0..AMD_IP_MAX
  /\ \A i \in DOMAIN blocks : blocks[i] \in DOMAIN BlockType
  /\ funcs_family \in [FuncsTables -> {FAMILY_VI} \cup {i.family_id : i \in Infos}]
  /\ g_chip.dev \in Devices \cup {NULL}
  /\ held \in [Devices -> [Types -> DOMAIN BlockType \cup {NULL}]]
  /\ rv \in {0, -1}

(* No packet can ever be built in an SI layout: SI chips are GFX6, whose case  *)
(* registers no block and writes no family_id, so the SI branches of the   *)
(* builders are reached only if a funcs table is given FAMILY_SI.          *)
SiLayoutsUnreachable ==
  \A f \in FuncsTables : funcs_family[f] # FAMILY_SI

=============================================================================

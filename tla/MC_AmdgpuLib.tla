---------------------------- MODULE MC_AmdgpuLib ----------------------------
(***************************************************************************)
(* The two stateful parts of lib/amdgpu/amd_ip_blocks.c side by side: the *)
(* command encoder (CmdBase) and the IP-block registry with its packet    *)
(* builders (AmdIpBlocks).  They share no state: a step is a step of one  *)
(* of them, the other unchanged.  The registry comes with the SDMA hang   *)
(* helper of amd_deadlock_helpers.c (HangSdma), which builds through it.  *)
(*                                                                         *)
(* One device, which reports one of four amdgpu_gpu_info values: an SI    *)
(* chip (Tahiti, GFX6), a VI chip (Polaris11, GFX8), an AI chip (Vega10,  *)
(* GFX9, whose SDMA counts are length - 1) and an NV revision no          *)
(* identify_chip matches.  AMD_IP_MAX is 4, so a second setup fills the   *)
(* array and has two of its adds refused.                                 *)
(***************************************************************************)
EXTENDS CmdBase

CONSTANTS Devices, Infos, ChipOrder, AMD_IP_MAX, Types, Ops, Lengths, MaxCalls,
          MaxDmabuf, MaxDword, HangTypes

VARIABLES devinfo, blocks, funcs_family, g_chip, held, rv, calls, lastHang

R == INSTANCE HangSdma

regvars == <<devinfo, blocks, funcs_family, g_chip, held, rv, calls, lastHang>>

MC_SizeDwArgs == {2, 4}
MC_AttachArgs == {10, 16}
MC_RepeatArgs == {1, 2}
MC_MaskArgs == {1, 3}
MC_OffsetArgs == {1, 15}
MC_BufByteArgs == {0, 4, 6}

MC_Infos == {[family_id |-> 110, rev |-> "TAHITI"],
             [family_id |-> 130, rev |-> "POLARIS11"],
             [family_id |-> 141, rev |-> "VEGA10"],
             [family_id |-> 143, rev |-> "other"]}

(* enum radeon_family from TAHITI on, with the names the code uses.       *)
MC_ChipOrder ==
  << "TAHITI", "PITCAIRN", "VERDE", "OLAND", "HAINAN", "BONAIRE", "KAVERI",
     "KABINI", "HAWAII", "TONGA", "ICELAND", "CARRIZO", "FIJI", "STONEY",
     "POLARIS10", "POLARIS11", "POLARIS12", "VEGAM", "VEGA10", "VEGA12",
     "VEGA20", "RAVEN", "RAVEN2", "RENOIR", "ARCTURUS", "ALDEBARAN", "NAVI10",
     "NAVI12", "NAVI14", "SIENNA_CICHLID", "NAVY_FLOUNDER", "VANGOGH",
     "DIMGREY_CAVEFISH", "BEIGE_GOBY", "YELLOW_CARP", "GFX1036", "GFX1037",
     "GFX1100", "GFX1101", "GFX1102", "GFX1103_R1", "GFX1103_R2", "GFX1150" >>

LibInit == Init /\ R!HInit

(* A helper that dereferenced a NULL block has ended the process.          *)
LibNext ==
  \/ R!Alive /\ Next /\ UNCHANGED regvars
  \/ R!HNext /\ UNCHANGED vars

LibSpec == LibInit /\ [][LibNext]_<<vars, regvars>>

(* The registry's arrays stay within their bounds and hold blocks.        *)
RegistryTypeOK == R!RegistryTypeOK

(* See AmdIpBlocks: no funcs table ever carries FAMILY_SI.                 *)
SiLayoutsUnreachable == R!SiLayoutsUnreachable

(* See HangSdma: the hang helper's IB is the one it means to build.        *)
HangIbAsIntended == R!HangIbAsIntended
=============================================================================

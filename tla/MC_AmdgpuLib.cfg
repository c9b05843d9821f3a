CONSTANTS
  SizeDwArgs <- MC_SizeDwArgs
  AttachArgs <- MC_AttachArgs
  RepeatArgs <- MC_RepeatArgs
  MaskArgs <- MC_MaskArgs
  OffsetArgs <- MC_OffsetArgs
  BufByteArgs <- MC_BufByteArgs
  MaxBuffers = 4
  DwBits = 4
  NULL = NULL
  Devices = {"dev0"}
  Infos <- MC_Infos
  ChipOrder <- MC_ChipOrder
  AMD_IP_MAX = 4
  Types = {"GFX", "COMPUTE", "DMA"}
  Ops = {"write_linear", "atomic", "const_fill", "copy_linear"}
  Lengths = {2}
  MaxCalls = 4
  MaxDmabuf = 3
  MaxDword = 256
  HangTypes = {"DMA_CORRUPTED_HEADER_HANG", "DMA_SLOW_LINEARCOPY_HANG"}

SPECIFICATION LibSpec

INVARIANT TypeOK
INVARIANT NoWriteOutsideBuffer
INVARIANT RegistryTypeOK
INVARIANT SiLayoutsUnreachable
INVARIANT HangIbAsIntended

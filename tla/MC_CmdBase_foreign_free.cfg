CONSTANTS
  SizeDwArgs <- MC_SizeDwArgs
  AttachArgs <- MC_AttachArgs
  RepeatArgs <- MC_RepeatArgs
  MaskArgs <- MC_MaskArgs
  OffsetArgs <- MC_OffsetArgs
  BufByteArgs <- MC_BufByteArgs
  MaxBuffers = 4
  DwBits = 4
  NULL = NULL

SPECIFICATION Spec

INVARIANT NoCallerBufferFreed

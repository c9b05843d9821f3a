---------------------------- MODULE MC_CmdBase ----------------------------
(***************************************************************************)
(* Model-checking instance of CmdBase.  uint32 is 4 bits wide (values      *)
(* 0..15); buffers hold 2 to 4 dwords so that every emit can both succeed  *)
(* and run out of room; a 10-byte attached buffer has a tail that is not a *)
(* whole dword.  Four blocks allow allocate and attach to follow each      *)
(* other in every order.                                                   *)
(***************************************************************************)
EXTENDS CmdBase

MC_SizeDwArgs == {2, 4}
MC_AttachArgs == {10, 16}
MC_RepeatArgs == {1, 2}
MC_MaskArgs == {1, 3}
MC_OffsetArgs == {1, 15}
MC_BufByteArgs == {0, 4, 6}

=============================================================================

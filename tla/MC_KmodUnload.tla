--------------------------- MODULE MC_KmodUnload ---------------------------
(***************************************************************************)
(* Model-checking instances of KmodUnload.  Five modules: "e" is built in; *)
(* in the tree, b and c use a and d uses b, as a driver, a helper library  *)
(* and a sound module stacked on a core module; in the diamond b uses both *)
(* a and c, and c uses a, as i915 uses drm_display_helper and              *)
(* drm_kms_helper, and drm_display_helper uses drm_kms_helper.  Any        *)
(* consistent set of them may be loaded, coming or pinned at the call.     *)
(***************************************************************************)
EXTENDS KmodUnload

MC_Mods == {"a", "b", "c", "d", "e"}
MC_TreeHolds == {<<"b", "a">>, <<"c", "a">>, <<"d", "b">>}
MC_DiamondHolds == {<<"b", "a">>, <<"c", "a">>, <<"b", "c">>}
MC_Builtin == {"e"}
MC_Targets == {"a", "e"}

=============================================================================

------------------------------ MODULE MC_DrmOpen ------------------------------
(* Three cards: card0 is an amdgpu device whose module is not loaded when  *)
(* the test starts, card1 an i915 device, card2 a nouveau device (a driver *)
(* modules[] does not list); card0 and card1 have render nodes, card2    *)
(* has none.  The test runs either without --device or with one filter,   *)
(* for index 0, that matches card1.  Callers ask for DRIVER_INTEL,       *)
(* DRIVER_AMDGPU, DRIVER_ANY and DRIVER_VGEM (which never takes the      *)
(* filter path).                                                           *)
EXTENDS DrmOpen, TLC

MCNodeDriver == (0 :> "amdgpu") @@ (1 :> "i915") @@ (2 :> "nouveau")
MCLoaded == {"i915", "nouveau"}
MCFilterChoices == {[i \in {} |-> 0], 0 :> 1}
MCRenderNodes == {0, 1}
MCChipsets == {{0}, {3}, DRIVER_ANY, DRIVER_VGEM}
====

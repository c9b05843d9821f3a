--------------------------- MODULE MC_DriverUnload ---------------------------
(***************************************************************************)
(* An Intel and an AMD graphics stack.  i915 and amdgpu hold               *)
(* drm_kms_helper and drm, and drm_kms_helper holds drm; drm is built in  *)
(* (CONFIG_DRM=y).  snd_hda_intel and intel_ips use i915 without being     *)
(* listed as its holders.  Another process may hold snd_hda_intel (an     *)
(* audio daemon) or drm_kms_helper, and i915 or snd_hda_intel may still   *)
(* be in their init.                                                       *)
(***************************************************************************)
EXTENDS DriverUnload

MCMods == {"i915", "amdgpu", "snd_hda_intel", "intel_ips", "drm_kms_helper", "drm"}
MCHolds == {<<"i915", "drm_kms_helper">>, <<"i915", "drm">>,
            <<"amdgpu", "drm_kms_helper">>, <<"amdgpu", "drm">>,
            <<"drm_kms_helper", "drm">>}
MCSoftHolds == {<<"snd_hda_intel", "i915">>, <<"intel_ips", "i915">>}
MCPinnable == {"snd_hda_intel", "drm_kms_helper"}
MCBuiltin == {"drm"}
MCIniting == {"i915", "snd_hda_intel"}
=============================================================================

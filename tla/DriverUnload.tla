---------------------------- MODULE DriverUnload ----------------------------
(***************************************************************************)
(* The driver unload sequences of lib/igt_kmod.c, each a series of         *)
(* igt_kmod_unload calls (modelled by KmodUnload, whose call stack runs    *)
(* between two steps of the sequence).                                     *)
(*                                                                         *)
(* igt_intel_driver_unload(driver) calls __igt_intel_driver_unload: the    *)
(* audio drivers first (igt_always_unload_audio_driver: for each one that  *)
(* is loaded, kill the processes using /dev/snd and unload it; on any      *)
(* failure it gives up on audio and returns 0), then the auxiliary modules *)
(* that use the driver without being listed as its holders, then the       *)
(* driver; the first failure there is returned.  On success it unloads     *)
(* intel-gtt if loaded, drm_kms_helper and drm ignoring their results,     *)
(* and checks that the driver is gone.  igt_amdgpu_driver_unload unloads   *)
(* amdgpu if loaded (failure: IGT_EXIT_SKIP), then drm_kms_helper and drm, *)
(* and fails if amdgpu is still loaded.  fbcon unbinding, the pipewire     *)
(* reservation and the unbinding of snd_hda_intel devices are left out:    *)
(* they do not change which modules are loaded.                            *)
(***************************************************************************)
EXTENDS KmodUnload

CONSTANTS
  Driver,     \* the driver igt_intel_driver_unload is given ("i915")
  Pinnable,   \* modules another process may hold when the unload starts
  Initing     \* modules that may still be in their init

VARIABLES
  drv,        \* the sequence: [entry, pc, i], i the index into a module list
  dret        \* the value the sequence returned, "none" before

varsD == <<vars, drv, dret>>

(* The arrays of igt_always_unload_audio_driver and of                     *)
(* __igt_intel_driver_unload.                                              *)
AudioMods == <<"snd_hda_intel", "snd_hdmi_lpe_audio">>

(* Mutant: the auxiliary list without intel_ips. *)
AuxModsNoIps == <<"mei_pxp", "mei_hdcp", "mei_gsc">>

AuxMods == <<"intel_ips", "mei_pxp", "mei_hdcp", "mei_gsc">>

(* The modules unloaded after the driver: intel-gtt only if loaded.       *)
CleanupMods(entry) ==
  IF entry = "intel"
  THEN << [mod |-> "intel-gtt", ifLoaded |-> TRUE],
          [mod |-> "drm_kms_helper", ifLoaded |-> FALSE],
          [mod |-> "drm", ifLoaded |-> FALSE] >>
  ELSE << [mod |-> "drm_kms_helper", ifLoaded |-> FALSE],
          [mod |-> "drm", ifLoaded |-> FALSE] >>

(* igt_kmod_is_loaded: the name is among the loaded modules.               *)
IsLoaded(name) == name \in loaded

InitD ==
  /\ \E L \in SUBSET Mods, C \in SUBSET Initing :
        /\ Consistent(L, C)
        /\ loaded = L /\ coming = C /\ loaded0 = L
        /\ pinned \in SUBSET (L \cap Pinnable)
  /\ timedOut = {}
  /\ target = Driver
  /\ stack = <<>>
  /\ rv = "ok" /\ result = "none"
  /\ drv \in {[entry |-> "intel", pc |-> "audio", i |-> 1],
              [entry |-> "amdgpu", pc |-> "amdgpu", i |-> 1]}
  /\ dret = "none"

Idle == stack = <<>>

(* The sequence goes on at pc with index i.                                *)
Goto(pc, i) == drv' = [drv EXCEPT !.pc = pc, !.i = i]

(* Call igt_kmod_unload(m) and resume at pc when it has returned.          *)
CallUnload(m, pc) ==
  /\ stack' = <<Frame(m)>> /\ target' = m /\ loaded0' = loaded
  /\ result' = "none"
  /\ drv' = [drv EXCEPT !.pc = pc]
  /\ UNCHANGED <<loaded, coming, timedOut, rv, dret>>

Return2(e) ==
  /\ drv' = [drv EXCEPT !.pc = "done"] /\ dret' = e
  /\ UNCHANGED vars

Step(pc) == Idle /\ drv.pc = pc

-----------------------------------------------------------------------------
(* igt_always_unload_audio_driver.                                         *)

AudioNext ==
  /\ Step("audio") /\ drv.i <= Len(AudioMods)
  /\ ~IsLoaded(AudioMods[drv.i])
  /\ Goto("audio", drv.i + 1) /\ UNCHANGED <<vars, dret>>

(* igt_lsof_kill_audio_processes could not stop a process holding the     *)
(* module: warn and return 0, leaving the other audio modules alone.       *)
AudioKillFailed ==
  /\ Step("audio") /\ drv.i <= Len(AudioMods)
  /\ AudioMods[drv.i] \in loaded \cap pinned
  /\ Goto("aux", 1) /\ UNCHANGED <<vars, dret>>

(* The processes are gone; unload the module.                              *)
AudioUnload ==
  /\ Step("audio") /\ drv.i <= Len(AudioMods)
  /\ IsLoaded(AudioMods[drv.i])
  /\ pinned' = pinned \ {AudioMods[drv.i]}
  /\ CallUnload(AudioMods[drv.i], "audio_ret")

AudioReturned ==
  /\ Step("audio_ret")
  /\ IF result = "ok" THEN Goto("audio", drv.i + 1) ELSE Goto("aux", 1)
  /\ UNCHANGED <<vars, dret>>

AudioDone ==
  /\ Step("audio") /\ drv.i > Len(AudioMods)
  /\ Goto("aux", 1) /\ UNCHANGED <<vars, dret>>

-----------------------------------------------------------------------------
(* __igt_intel_driver_unload after the audio drivers.                      *)

AuxNext ==
  /\ Step("aux") /\ drv.i <= Len(AuxMods) /\ ~IsLoaded(AuxMods[drv.i])
  /\ Goto("aux", drv.i + 1) /\ UNCHANGED <<vars, dret>>

AuxUnload ==
  /\ Step("aux") /\ drv.i <= Len(AuxMods) /\ IsLoaded(AuxMods[drv.i])
  /\ CallUnload(AuxMods[drv.i], "aux_ret") /\ UNCHANGED pinned

AuxReturned ==
  /\ Step("aux_ret")
  /\ IF result = "ok" THEN Goto("aux", drv.i + 1) /\ UNCHANGED <<vars, dret>>
     ELSE Return2(result)

AuxDone ==
  /\ Step("aux") /\ drv.i > Len(AuxMods)
  /\ Goto("driver", 1) /\ UNCHANGED <<vars, dret>>

(* Mutant: the driver itself is never unloaded. *)
DriverStepSkip ==
  /\ Step("driver")
  /\ Goto("cleanup", 1) /\ UNCHANGED <<vars, dret>>

(* Unload the driver if it is loaded.                                      *)
DriverStep ==
  /\ Step("driver")
  /\ IF IsLoaded(Driver)
     THEN CallUnload(Driver, "driver_ret") /\ UNCHANGED pinned
     ELSE Goto("cleanup", 1) /\ UNCHANGED <<vars, dret>>

DriverReturned ==
  /\ Step("driver_ret")
  /\ IF result = "ok" THEN Goto("cleanup", 1) /\ UNCHANGED <<vars, dret>>
     ELSE Return2(result)

-----------------------------------------------------------------------------
(* igt_amdgpu_driver_unload.                                               *)

AmdgpuStep ==
  /\ Step("amdgpu")
  /\ IF IsLoaded("amdgpu")
     THEN CallUnload("amdgpu", "amdgpu_ret") /\ UNCHANGED pinned
     ELSE Goto("cleanup", 1) /\ UNCHANGED <<vars, dret>>

AmdgpuReturned ==
  /\ Step("amdgpu_ret")
  /\ IF result = "ok" THEN Goto("cleanup", 1) /\ UNCHANGED <<vars, dret>>
     ELSE Return2("SKIP")

-----------------------------------------------------------------------------
(* The common tail: the helper modules, results ignored, then the check.   *)

CleanupNext ==
  LET c == CleanupMods(drv.entry) IN
  /\ Step("cleanup") /\ drv.i <= Len(c)
  /\ IF c[drv.i].ifLoaded /\ ~IsLoaded(c[drv.i].mod)
     THEN Goto("cleanup", drv.i + 1) /\ UNCHANGED <<vars, dret>>
     ELSE CallUnload(c[drv.i].mod, "cleanup_ret") /\ UNCHANGED pinned

CleanupReturned ==
  /\ Step("cleanup_ret")
  /\ Goto("cleanup", drv.i + 1) /\ UNCHANGED <<vars, dret>>

(* igt_intel_driver_unload asks igt_kmod_is_loaded("driver"), the string,  *)
(* not its argument; igt_amdgpu_driver_unload asks for "amdgpu".           *)
Check ==
  /\ Step("cleanup") /\ drv.i > Len(CleanupMods(drv.entry))
  /\ IF drv.entry = "intel"
     THEN Return2(IF IsLoaded("driver") THEN "EBUSY" ELSE "ok")
     ELSE Return2(IF IsLoaded("amdgpu") THEN "FAILURE" ELSE "ok")

(* The sequence has returned.                                              *)
Done ==
  /\ drv.pc = "done"
  /\ UNCHANGED varsD

Sequence ==
  \/ AudioNext \/ AudioKillFailed \/ AudioUnload \/ AudioReturned \/ AudioDone
  \/ AuxNext \/ AuxUnload \/ AuxReturned \/ AuxDone
  \/ DriverStep \/ DriverReturned \/ AmdgpuStep \/ AmdgpuReturned
  \/ CleanupNext \/ CleanupReturned \/ Check

NextD ==
  \/ Unload /\ UNCHANGED <<drv, dret>>
  \/ \E m \in Mods : FinishInit(m) /\ UNCHANGED <<drv, dret>>
  \/ Sequence
  \/ Done

(* One test thread runs both the sequence and the unloads it calls.        *)
SpecD == InitD /\ [][NextD]_varsD /\ WF_varsD(Unload /\ UNCHANGED <<drv, dret>>)
         /\ WF_varsD(Sequence)

-----------------------------------------------------------------------------

TypeOKD ==
  /\ TypeOK
  /\ drv.entry \in {"intel", "amdgpu"} /\ drv.i \in 1..5
  /\ dret \in Errors \cup {"none", "SKIP", "FAILURE"}

(* When a driver unload sequence reports success, the driver it was asked *)
(* to remove is no longer loaded.  igt_intel_driver_unload's own final     *)
(* check asks about a module named "driver", so only the steps before it   *)
(* make this hold.                                                         *)
DriverGone ==
  (drv.pc = "done" /\ dret = "ok")
    => ~IsLoaded(IF drv.entry = "intel" THEN Driver ELSE "amdgpu")

(* A driver unload sequence fails only because another process holds    *)
(* the driver or a module using it (soft users included), or a module     *)
(* outlasted its init: the sequence itself removes every user the kernel  *)
(* does not list as a holder (the audio and auxiliary modules) before the *)
(* driver.                                                                 *)
SequenceFailureExplained ==
  (drv.pc = "done" /\ dret # "ok")
    => AllUsers[IF drv.entry = "intel" THEN Driver ELSE "amdgpu"]
         \cap (pinned \cup timedOut) # {}

(* The unload sequence returns, whatever the other processes and module   *)
(* inits do.                                                               *)
SequenceReturns ==
  <>(drv.pc = "done")

=============================================================================

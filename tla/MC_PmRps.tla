------------------------------ MODULE MC_PmRps ------------------------------
(***************************************************************************)
(* The test process of tests/intel/i915_pm_rps.c: the load helper it forks *)
(* (LoadHelper) and the sysfs helpers it calls on the device's directory   *)
(* (IgtSysfs).  The two share no state.  The test thread calls a sysfs    *)
(* helper only when it is not blocked in load_helper_sync's read() or in   *)
(* load_helper_stop's wait, and its exit handler restores the cursor blink *)
(* once it is done with the helper: after its last call, or after a       *)
(* failed assert.                                                          *)
(*                                                                         *)
(* The sysfs data: "str" may show the empty string, "Y\n", and values      *)
(* whose length lands on either side of the 63-, 127- and 255-byte marks   *)
(* of igt_sysfs_get's doubling loop; the callers write "Y" and 128- and   *)
(* 129-byte strings (the two branches of igt_sysfs_vprintf), and set u32   *)
(* values inside and outside the "freq" range.                             *)
(***************************************************************************)
EXTENDS LoadHelper, IgtSysfs

Xs(n) == [i \in 1..n |-> "x"]
MCShows == {<<>>, <<"Y", "nl">>, Xs(62) \o <<"nl">>, Xs(63) \o <<"nl">>,
            Xs(126) \o <<"nl", "nl">>, Xs(200)}
MCWrites == {<<"Y">>, Xs(128), Xs(129)}
MCTails == {<<>>, <<"7">>}

(* The test thread is not blocked on the helper.                           *)
TestRuns == parent \notin {"sync", "wait"}

(* The test is done with the helper: the process is on its way out.        *)
TestDone == parent = "failed" \/ (calls = MaxCalls /\ parent \in {"none", "idle"})

allVars == <<vars, varsS>>

NextP ==
  \/ Next /\ UNCHANGED varsS
  \/ TestRuns /\ NextS /\ ~FbconBlinkRestore /\ UNCHANGED vars
  \/ TestDone /\ ~restored /\ FbconBlinkRestore /\ UNCHANGED vars

(* The test process starts with no helper and the attributes as booted.   *)
InitP == Init /\ InitS

SpecP == InitP /\ [][NextP]_allVars /\ Fairness
=============================================================================

------------------------------ MODULE LoadHelper ------------------------------
(***************************************************************************)
(* The background-load helper of tests/intel/i915_pm_rps.c.  The test      *)
(* process (the parent) forks a helper that keeps one or two spinners on   *)
(* the GPU.  The parent switches the load by setting its copy of lh.load   *)
(* and sending SIGUSR2, then blocks in read() on a pipe until the helper   *)
(* acknowledges; SIGTERM ends the helper.  The helper's signal handler     *)
(* toggles its own copy of lh.load and sets lh.signal; its main loop       *)
(* samples lh.load, rebuilds the spinners, and writes one byte to the pipe *)
(* when lh.signal is set and the sampled load differs from the previous    *)
(* one, clearing lh.signal afterwards.                                     *)
(*                                                                         *)
(* After fork the two processes have separate copies of lh: the parent's   *)
(* load is "load"; the helper's are child_load, child_signal, child_exit.  *)
(* The handler runs between any two steps of the helper loop.  Spinner     *)
(* creation, busy-waits and sleeps are one step each.  The helper's array  *)
(* spin[2] is kept slot by slot: a slot is NULL, a live spinner, or a      *)
(* pointer to one already freed.  LOW = 0, HIGH = 1.  A NULL dereference   *)
(* kills the helper ("crashed"); a failed igt_assert ends the test         *)
(* ("failed").                                                             *)
(***************************************************************************)
EXTENDS Naturals

CONSTANTS
  MaxCalls   \* bound on load_helper_run/set_load/stop calls by the test

ASSUME MaxCalls \in Nat

Loads == {0, 1}
Slots == {"null", "live", "freed"}   \* what an igt_spin_t * points at

VARIABLES
  parent,        \* where the test process is (see ParentStates)
  load,          \* the parent's lh.load
  calls,         \* calls the test has made so far
  helper,        \* where the helper process is (see HelperStates)
  child_load,    \* the helper's lh.load
  child_signal,  \* the helper's lh.signal
  child_exit,    \* the helper's lh.exit
  prev_load,     \* prev_load in the helper loop
  high_load,     \* high_load in the helper loop
  spin,          \* the helper's spin[0] and spin[1]
  pending,       \* signals sent to the helper and not yet handled
  pipe           \* acknowledgement bytes written and not yet read

vars == <<parent, load, calls, helper, child_load, child_signal, child_exit,
          prev_load, high_load, spin, pending, pipe>>

ParentStates == {"none", "idle", "sync", "wait", "failed"}
HelperStates == {"unborn", "setup", "top", "sample", "check", "write",
                 "clear", "exited", "crashed"}

(* The helper has installed its handlers and not yet left its loop.        *)
Handling == helper \in {"top", "sample", "check", "write", "clear"}

Init ==
  /\ parent = "none" /\ load = 0 /\ calls = 0
  /\ helper = "unborn"
  /\ child_load = 0 /\ child_signal = FALSE /\ child_exit = FALSE
  /\ prev_load = 0 /\ high_load = 0 /\ spin = [i \in 0..1 |-> "null"]
  /\ pending = {} /\ pipe = 0

-----------------------------------------------------------------------------
(* The test process.                                                       *)

(* load_helper_run with no helper running: set lh.exit, lh.load and        *)
(* lh.signal, open the pipe, fork (the helper starts with copies of lh),   *)
(* then wait for the first acknowledgement.                                *)
Run(l) ==
  /\ parent = "none" /\ helper \in {"unborn", "exited"}
  /\ calls < MaxCalls
  /\ calls' = calls + 1
  /\ load' = l
  /\ helper' = "setup"
  /\ child_load' = l /\ child_signal' = TRUE /\ child_exit' = FALSE
  /\ pending' = {} /\ pipe' = 0
  /\ parent' = "sync"
  /\ UNCHANGED <<prev_load, high_load, spin>>

(* load_helper_set_load, also reached from load_helper_run while the       *)
(* helper is still running: return if the load is already l, otherwise    *)
(* set lh.load, send SIGUSR2 and wait for the acknowledgement.             *)
SetLoad(l) ==
  /\ parent = "idle"
  /\ calls < MaxCalls
  /\ calls' = calls + 1
  /\ IF load = l
       THEN UNCHANGED <<load, pending, parent>>
       ELSE /\ load' = l
            /\ pending' = pending \cup {"SIGUSR2"}
            /\ parent' = "sync"
  /\ UNCHANGED <<helper, child_load, child_signal, child_exit, prev_load,
                 high_load, spin, pipe>>

(* load_helper_sync that does not wait for the byte.                     *)
SyncNoWait ==
  /\ parent = "sync"
  /\ pipe' = pipe - 1
  /\ parent' = "idle"
  /\ UNCHANGED <<load, calls, helper, child_load, child_signal, child_exit,
                 prev_load, high_load, spin, pending>>

(* load_helper_sync: read() returns a byte once one is in the pipe, or 0   *)
(* at end of file once the helper, the only writer, is dead; the assert   *)
(* on its length then fails.                                               *)
Sync ==
  /\ parent = "sync"
  /\ \/ pipe > 0 /\ pipe' = pipe - 1 /\ parent' = "idle"
     \/ pipe = 0 /\ helper \in {"exited", "crashed"}
        /\ parent' = "failed" /\ UNCHANGED pipe
  /\ UNCHANGED <<load, calls, helper, child_load, child_signal, child_exit,
                 prev_load, high_load, spin, pending>>

(* load_helper_stop: send SIGTERM, then igt_wait_helper.                   *)
Stop ==
  /\ parent = "idle"
  /\ calls < MaxCalls
  /\ calls' = calls + 1
  /\ pending' = pending \cup {"SIGTERM"}
  /\ parent' = "wait"
  /\ UNCHANGED <<load, helper, child_load, child_signal, child_exit,
                 prev_load, high_load, spin, pipe>>

(* igt_wait_helper returns when the helper has ended; the assert that it  *)
(* returned 0 fails if a signal killed it.                                 *)
WaitHelper ==
  /\ parent = "wait" /\ helper \in {"exited", "crashed"}
  /\ parent' = IF helper = "exited" THEN "none" ELSE "failed"
  /\ UNCHANGED <<load, calls, helper, child_load, child_signal, child_exit,
                 prev_load, high_load, spin, pending, pipe>>

-----------------------------------------------------------------------------
(* The helper process.                                                     *)

(* Install the handlers, start spin[0], and spin[1] too for HIGH; set     *)
(* prev_load to the opposite of the load so the first round acknowledges.  *)
Setup ==
  /\ helper = "setup"
  /\ helper' = "top"
  /\ spin' = [i \in 0..1 |-> IF i = 0 \/ child_load = 1 THEN "live" ELSE "null"]
  /\ prev_load' = 1 - child_load
  /\ UNCHANGED <<parent, load, calls, child_load, child_signal, child_exit,
                 high_load, pending, pipe>>

(* while (!lh.exit).  Both the loop body and the exit path start with      *)
(* handle = spin[0]->handle: a NULL spin[0] kills the helper.  On exit,    *)
(* end both spinners, wait for them, free them and exit 0.                 *)
Top ==
  /\ helper = "top"
  /\ helper' = CASE spin[0] = "null" -> "crashed"
                  [] child_exit -> "exited"
                  [] OTHER -> "sample"
  /\ spin' = IF helper' = "exited" THEN [i \in 0..1 |-> "null"] ELSE spin
  /\ UNCHANGED <<parent, load, calls, child_load, child_signal, child_exit,
                 prev_load, high_load, pending, pipe>>

(* End spin[0], wait until idle, free it (the pointer is left dangling),   *)
(* sleep, then high_load = lh.load == HIGH.                                *)
Sample ==
  /\ helper = "sample"
  /\ spin' = [spin EXCEPT ![0] = "freed"]
  /\ high_load' = child_load
  /\ helper' = "check"
  /\ UNCHANGED <<parent, load, calls, child_load, child_signal, child_exit,
                 prev_load, pending, pipe>>

(* The spinner rebuild: for LOW with a spin[1], free it and NULL it;       *)
(* otherwise spin[0] = spin[1]; then spin[high_load] = a new spinner.      *)
Rebuild(h) ==
  LET kept == IF h = 0 /\ spin[1] # "null"
                THEN [spin EXCEPT ![1] = "null"]
                ELSE [spin EXCEPT ![0] = spin[1]]
  IN  [kept EXCEPT ![h] = "live"]

(* The acknowledgement test without "high_load != prev_load".             *)
CheckAnySignal ==
  /\ helper = "check"
  /\ spin' = Rebuild(high_load)
  /\ IF child_signal
       THEN /\ helper' = "write"
            /\ UNCHANGED prev_load
       ELSE /\ helper' = "top"
            /\ prev_load' = high_load
  /\ UNCHANGED <<parent, load, calls, child_load, child_signal, child_exit,
                 high_load, pending, pipe>>

(* Keep or drop spinner 1, start spinner[high_load]; then acknowledge if   *)
(* lh.signal is set and the load changed, else prev_load = high_load.      *)
Check ==
  /\ helper = "check"
  /\ spin' = Rebuild(high_load)
  /\ IF child_signal /\ high_load # prev_load
       THEN /\ helper' = "write"
            /\ UNCHANGED prev_load
       ELSE /\ helper' = "top"
            /\ prev_load' = high_load
  /\ UNCHANGED <<parent, load, calls, child_load, child_signal, child_exit,
                 high_load, pending, pipe>>

(* write(lh.link, &lh.signal, 1).                                          *)
Write ==
  /\ helper = "write"
  /\ pipe' = pipe + 1
  /\ helper' = "clear"
  /\ UNCHANGED <<parent, load, calls, child_load, child_signal, child_exit,
                 prev_load, high_load, spin, pending>>

(* lh.signal = false; prev_load = high_load.                               *)
Clear ==
  /\ helper = "clear"
  /\ child_signal' = FALSE
  /\ prev_load' = high_load
  /\ helper' = "top"
  /\ UNCHANGED <<parent, load, calls, child_load, child_exit, high_load,
                 spin, pending, pipe>>

(* A handler that only knows SIGUSR2.                                     *)
HandlerNoExit(sig) ==
  /\ Handling
  /\ sig \in pending
  /\ pending' = pending \ {sig}
  /\ IF sig = "SIGUSR2"
       THEN /\ child_load' = 1 - child_load
            /\ child_signal' = TRUE
       ELSE UNCHANGED <<child_load, child_signal>>
  /\ UNCHANGED <<parent, load, calls, helper, child_exit, prev_load,
                 high_load, spin, pipe>>

(* load_helper_signal_handler, run between two steps of the loop.          *)
Handler(sig) ==
  /\ Handling
  /\ sig \in pending
  /\ pending' = pending \ {sig}
  /\ IF sig = "SIGUSR2"
       THEN /\ child_load' = 1 - child_load
            /\ child_signal' = TRUE
            /\ UNCHANGED child_exit
       ELSE /\ child_exit' = TRUE
            /\ UNCHANGED <<child_load, child_signal>>
  /\ UNCHANGED <<parent, load, calls, helper, prev_load, high_load, spin,
                 pipe>>

(* The test has made its calls and no helper is left running, or an       *)
(* igt_assert of the test has failed (its helper is then dead).            *)
Finished ==
  /\ \/ /\ calls = MaxCalls /\ parent \in {"none", "idle"}
        /\ helper \in {"unborn", "exited", "crashed"}
     \/ parent = "failed"
  /\ UNCHANGED vars

HelperStep == Setup \/ Top \/ Sample \/ Check \/ Write \/ Clear

Next ==
  \/ \E l \in Loads : Run(l) \/ SetLoad(l)
  \/ Sync \/ Stop \/ WaitHelper \/ Finished
  \/ HelperStep
  \/ \E sig \in {"SIGUSR2", "SIGTERM"} : Handler(sig)

(* The kernel schedules the helper and delivers a pending signal when it   *)
(* runs; read() and waitpid() return once their data or the exit is       *)
(* there.  The test itself is free to stop calling.                        *)
Fairness ==
  /\ WF_vars(HelperStep)
  /\ \A sig \in {"SIGUSR2", "SIGTERM"} : WF_vars(Handler(sig))
  /\ WF_vars(Sync)
  /\ WF_vars(WaitHelper)

Spec == Init /\ [][Next]_vars /\ Fairness

-----------------------------------------------------------------------------

TypeOK ==
  /\ parent \in ParentStates /\ helper \in HelperStates
  /\ load \in Loads /\ calls \in 0..MaxCalls
  /\ child_load \in Loads /\ child_signal \in BOOLEAN
  /\ child_exit \in BOOLEAN
  /\ prev_load \in Loads /\ high_load \in Loads
  /\ spin \in [0..1 -> Slots]
  /\ pending \subseteq {"SIGUSR2", "SIGTERM"}
  /\ pipe \in Nat

(* When load_helper_run or load_helper_set_load has returned, the helper's *)
(* last sample of lh.load is the load the test asked for: the              *)
(* acknowledgement it read was not sent for a round that sampled the old   *)
(* load.                                                                   *)
AckMeansSampled ==
  parent = "idle" => high_load = load

(* "wait for load-helper to switch": load_helper_sync never blocks for     *)
(* good; it returns the byte, or fails its assert once the helper is dead. *)
SwitchAcknowledged ==
  parent = "sync" ~> parent \in {"idle", "failed"}

(* load_helper_stop returns: the helper sees SIGTERM and leaves its loop   *)
(* (igt_wait_helper then returns, and asserts on the helper's status).     *)
StopTerminates ==
  parent = "wait" ~> parent \in {"none", "failed"}

=============================================================================

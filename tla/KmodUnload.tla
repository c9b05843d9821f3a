----------------------------- MODULE KmodUnload -----------------------------
(***************************************************************************)
(* igt_kmod_unload of lib/igt_kmod.c and its recursive helper              *)
(* igt_kmod_unload_r.  To remove a module, first remove every module that  *)
(* holds it (the list read once from /sys/module/<m>/holders, in directory *)
(* order), stopping at the first error; wait for a module still in its     *)
(* init; then call delete_module up to MAX_TRIES times while it answers    *)
(* EBUSY or EAGAIN.                                                        *)
(*                                                                         *)
(* The recursion is an explicit call stack of frames, so that the kernel   *)
(* and other processes can act between any two calls.  The kernel is the  *)
(* set of loaded modules, the ones still in their init ("coming"), and the *)
(* ones another process holds a reference to ("pinned").  delete_module    *)
(* answers ENOENT for a module not loaded, EBUSY while it is coming, and   *)
(* EAGAIN (EWOULDBLOCK) while a loaded module holds it or it is pinned.    *)
(* A soft user (a module that took a reference with symbol_get, or an     *)
(* auxiliary-device driver) keeps it busy the same way but is not listed  *)
(* among its holders.                                                      *)
(***************************************************************************)
EXTENDS Naturals, Sequences, SequencesExt, Relation

CONSTANTS
  Mods,       \* kernel modules
  Holds,      \* <<h, m>> \in Holds: module h uses (holds) module m
  SoftHolds,  \* <<h, m>>: h keeps a reference to m not shown as a holder
  Builtin,    \* modules built into the kernel
  Targets,    \* modules a test may ask igt_kmod_unload to remove
  MaxTries    \* MAX_TRIES (20 in the code)

ASSUME /\ Holds \cup SoftHolds \subseteq Mods \X Mods /\ Builtin \subseteq Mods
       /\ Targets \subseteq Mods /\ MaxTries \in Nat \ {0}

Busy == {"EBUSY", "EAGAIN"}
Errors == {"ok", "ENOENT", "ETIMEDOUT"} \cup Busy

VARIABLES
  loaded,    \* modules the kernel has loaded
  coming,    \* loaded modules still running their init
  pinned,    \* loaded modules another process holds a reference to
  loaded0,   \* the modules loaded when igt_kmod_unload was called
  timedOut,  \* modules whose init outlasted the wait of igt_kmod_unload_r
  target,    \* the module passed to igt_kmod_unload
  stack,     \* the frames of igt_kmod_unload_r, innermost last
  rv,        \* the value the last returning frame returned
  result     \* the value igt_kmod_unload returned, "none" before

vars == <<loaded, coming, pinned, loaded0, timedOut, target, stack, rv,
          result>>

Frame(m) == [mod |-> m, pc |-> "start", todo |-> <<>>, tries |-> 0]

(* A set of modules that can be loaded together: a module's users need it  *)
(* loaded, built-in modules always are, and nothing uses a module before   *)
(* its init ends.                                                          *)
Consistent(L, C) ==
  /\ Builtin \subseteq L /\ C \subseteq L \ Builtin
  /\ \A <<h, m>> \in Holds \cup SoftHolds : h \in L => m \in L /\ m \notin C

Init ==
  /\ \E L \in SUBSET Mods, C \in SUBSET Mods :
        /\ Consistent(L, C)
        /\ loaded = L /\ coming = C /\ loaded0 = L
        /\ pinned \in SUBSET (L \ Builtin)
  /\ timedOut = {}
  /\ target \in Targets
  /\ stack = <<Frame(target)>>
  /\ rv = "ok" /\ result = "none"

Top == stack[Len(stack)]

(* The top frame goes on at pc with its holder list and try count.        *)
SetTop(pc, todo, tries) ==
  stack' = [stack EXCEPT ![Len(stack)] =
              [mod |-> Top.mod, pc |-> pc, todo |-> todo, tries |-> tries]]

(* kmod_module_get_holders: the loaded modules that use m.                 *)
HoldersOf(m) == {h \in loaded : <<h, m>> \in Holds}

(* The top frame returns e; the outermost return is igt_kmod_unload's      *)
(* "err < 0 ? err : 0".                                                    *)
Return(e) ==
  /\ stack' = Front(stack)
  /\ rv' = e
  /\ result' = IF Len(stack) = 1 THEN e ELSE result

(* delete_module(m): the kernel's answer.                                  *)
Delete(m) ==
  CASE m \notin loaded -> "ENOENT"
    [] m \in coming -> "EBUSY"
    [] HoldersOf(m) # {} \/ m \in pinned
         \/ \E h \in loaded : <<h, m>> \in SoftHolds -> "EAGAIN"
    [] OTHER -> "ok"

Env == <<loaded, coming, pinned, loaded0, timedOut, target>>

-----------------------------------------------------------------------------
(* igt_kmod_unload_r, one step of the top frame.                           *)

(* The holder walk that only visits the first module of the list.         *)
StartFirstHolder ==
  /\ stack # <<>> /\ Top.pc = "start"
  /\ IF Top.mod \in Builtin
       THEN Return("ok")
       ELSE /\ \E order \in SetToSeqs(HoldersOf(Top.mod)) :
                 SetTop("holders", SubSeq(order, 1, IF order = <<>> THEN 0 ELSE 1), 0)
            /\ UNCHANGED <<rv, result>>
  /\ UNCHANGED Env

(* A built-in module is done; otherwise read its holders, in any order.    *)
Start ==
  /\ stack # <<>> /\ Top.pc = "start"
  /\ IF Top.mod \in Builtin
       THEN Return("ok")
       ELSE /\ \E order \in SetToSeqs(HoldersOf(Top.mod)) :
                 SetTop("holders", order, 0)
            /\ UNCHANGED <<rv, result>>
  /\ UNCHANGED Env

(* Call igt_kmod_unload_r on the next holder of the list.                  *)
NextHolder ==
  /\ stack # <<>> /\ Top.pc = "holders" /\ Top.todo # <<>>
  /\ stack' = Append([stack EXCEPT ![Len(stack)] =
                        [Top EXCEPT !.pc = "holder_ret", !.todo = Tail(Top.todo)]],
                     Frame(Head(Top.todo)))
  /\ UNCHANGED <<rv, result>>
  /\ UNCHANGED Env

(* The holder's unload returned: stop at its error, else go on.            *)
HolderReturned ==
  /\ stack # <<>> /\ Top.pc = "holder_ret"
  /\ IF rv # "ok"
       THEN Return(rv)
       ELSE SetTop("holders", Top.todo, 0) /\ UNCHANGED <<rv, result>>
  /\ UNCHANGED Env

(* Every holder is gone: on to the wait for a module still initialising.   *)
HoldersDone ==
  /\ stack # <<>> /\ Top.pc = "holders" /\ Top.todo = <<>>
  /\ SetTop("wait", <<>>, 0)
  /\ UNCHANGED <<rv, result>>
  /\ UNCHANGED Env

(* Mutant: go on to remove the module without asking whether it is still *)
(* in its init.                                                            *)
WaitDoneUnguarded ==
  /\ stack # <<>> /\ Top.pc = "wait"
  /\ SetTop("remove", <<>>, 0)
  /\ UNCHANGED <<rv, result>>
  /\ UNCHANGED Env

(* igt_kmod_is_loading is false, or igt_wait saw the init end.             *)
WaitDone ==
  /\ stack # <<>> /\ Top.pc = "wait" /\ Top.mod \notin coming
  /\ SetTop("remove", <<>>, 0)
  /\ UNCHANGED <<rv, result>>
  /\ UNCHANGED Env

(* igt_wait gives up after 10 s with the module still coming; the code     *)
(* returns if the value it got is negative and goes on to remove it        *)
(* otherwise (igt_wait is defined outside this tree: both are kept).       *)
WaitTimeout ==
  /\ stack # <<>> /\ Top.pc = "wait" /\ Top.mod \in coming
  /\ timedOut' = timedOut \cup {Top.mod}
  /\ \/ Return("ETIMEDOUT")
     \/ SetTop("remove", <<>>, 0) /\ UNCHANGED <<rv, result>>
  /\ UNCHANGED <<loaded, coming, pinned, loaded0, target>>

(* The retry loop with "tries <= MAX_TRIES".                               *)
RemoveModuleOneMore ==
  /\ stack # <<>> /\ Top.pc = "remove"
  /\ LET e == Delete(Top.mod) IN
       /\ loaded' = IF e = "ok" THEN loaded \ {Top.mod} ELSE loaded
       /\ IF e \in Busy /\ Top.tries + 1 <= MaxTries
            THEN SetTop("remove", <<>>, Top.tries + 1) /\ UNCHANGED <<rv, result>>
            ELSE Return(e)
  /\ UNCHANGED <<coming, pinned, loaded0, timedOut, target>>

(* The retry loop that never counts its tries.                             *)
RemoveModuleUnbounded ==
  /\ stack # <<>> /\ Top.pc = "remove"
  /\ LET e == Delete(Top.mod) IN
       /\ loaded' = IF e = "ok" THEN loaded \ {Top.mod} ELSE loaded
       /\ IF e \in Busy
            THEN SetTop("remove", <<>>, Top.tries) /\ UNCHANGED <<rv, result>>
            ELSE Return(e)
  /\ UNCHANGED <<coming, pinned, loaded0, timedOut, target>>

(* kmod_module_remove_module; retry on EBUSY and EAGAIN (after a sleep)    *)
(* while tries < MAX_TRIES, and return the last answer.                    *)
RemoveModule ==
  /\ stack # <<>> /\ Top.pc = "remove"
  /\ LET e == Delete(Top.mod) IN
       /\ loaded' = IF e = "ok" THEN loaded \ {Top.mod} ELSE loaded
       /\ IF e \in Busy /\ Top.tries + 1 < MaxTries
            THEN SetTop("remove", <<>>, Top.tries + 1) /\ UNCHANGED <<rv, result>>
            ELSE Return(e)
  /\ UNCHANGED <<coming, pinned, loaded0, timedOut, target>>

-----------------------------------------------------------------------------
(* The kernel and the rest of the system.                                  *)

(* A module's init ends.                                                   *)
FinishInit(m) ==
  /\ m \in coming
  /\ coming' = coming \ {m}
  /\ UNCHANGED <<loaded, pinned, loaded0, timedOut, target, stack, rv, result>>

(* igt_kmod_unload has returned.                                           *)
Returned ==
  /\ stack = <<>>
  /\ UNCHANGED vars

Unload ==
  Start \/ NextHolder \/ HolderReturned \/ HoldersDone \/ WaitDone
  \/ WaitTimeout \/ RemoveModule

Next == Unload \/ (\E m \in Mods : FinishInit(m)) \/ Returned

(* The test thread runs; the kernel need not finish any init.              *)
Spec == Init /\ [][Next]_vars /\ WF_vars(Unload)

-----------------------------------------------------------------------------

TypeOK ==
  /\ loaded \subseteq Mods /\ coming \subseteq loaded /\ pinned \subseteq Mods
  /\ loaded0 \subseteq Mods /\ timedOut \subseteq Mods /\ target \in Targets
  /\ \A i \in 1..Len(stack) :
        /\ stack[i].mod \in Mods
        /\ stack[i].pc \in {"start", "holders", "holder_ret", "wait", "remove"}
        /\ stack[i].tries \in 0..MaxTries - 1
  /\ rv \in Errors /\ result \in Errors \cup {"none"}

(* The modules that use each module through the relation R (of pairs     *)
(* <<user, used>>), directly or through others, and the module itself.    *)
UsersThrough(R) ==
  LET Rt == ReflexiveTransitiveClosure([x, y \in Mods |-> <<x, y>> \in R], Mods)
  IN  [m \in Mods |-> {x \in Mods : Rt[x, m]}]

HardUsers == UsersThrough(Holds)
AllUsers == UsersThrough(Holds \cup SoftHolds)

(* igt_kmod_unload fails only for a reason outside the code: the module    *)
(* was not loaded, or it or a module using it is held by another process   *)
(* or outlasted the wait, or a module the holder lists cannot show (a soft *)
(* user) uses one of them.  It never fails because of the order in which   *)
(* it removed the users of the module.                                     *)
FailureExplained ==
  result \notin {"none", "ok"} =>
    \/ target \notin loaded0
    \/ HardUsers[target] \cap (pinned \cup timedOut) # {}
    \/ \E <<h, d>> \in SoftHolds : h \in loaded0 /\ d \in HardUsers[target]

(* igt_kmod_unload returns, however long the module stays busy.            *)
UnloadReturns ==
  <>(stack = <<>>)

=============================================================================

---------------------------- MODULE KunitModprobe ----------------------------
(***************************************************************************)
(* The legacy KUnit runner of lib/igt_kmod.c (__igt_kunit_legacy with      *)
(* kunit_kmsg_result_get) and the modprobe thread it starts               *)
(* (modprobe_task).  The thread loads the test module; while the module's *)
(* init runs, the kernel writes one KTAP result per test case to          *)
(* /dev/kmsg.  The runner reads kmsg in blocking mode and learns whether  *)
(* the load is over through a robust mutex: the thread ends holding it,   *)
(* so the runner's next lock returns EOWNERDEAD (and, after the unlock    *)
(* that leaves it unrecoverable, ENOTRECOVERABLE).  When modprobe fails   *)
(* while the runner is blocked in read() holding the mutex, the thread    *)
(* keeps sending SIGCHLD to the runner, whose empty handler is installed  *)
(* without SA_RESTART, until read() fails with EINTR.                      *)
(*                                                                         *)
(* KTAP records are abstracted to their count: the Cases-th one ends the   *)
(* report (igt_ktap_parse returns 0), the others return -EINPROGRESS with  *)
(* one result.  A thread that takes the mutex returns at once, so the      *)
(* mutex is "dead" (owner died) rather than held by a running thread.      *)
(* "saved" is the uninitialised struct sigaction pointer of               *)
(* kunit_kmsg_result_get: NULL, or an address sigaction can write to.      *)
(***************************************************************************)
EXTENDS Naturals

CONSTANTS
  Cases,          \* KTAP results the module reports when its init succeeds
  SavedOutcomes   \* values the uninitialised "saved" pointer may hold

ASSUME /\ Cases \in Nat \ {0}
       /\ SavedOutcomes \subseteq {"null", "valid"} /\ SavedOutcomes # {}

VARIABLES
  runner,      \* where the test thread is (see RunnerStates)
  thread,      \* where the modprobe thread is (see ThreadStates)
  mutex,       \* modprobe.lock: "free", "runner", "dead" (owner died), "unrecoverable"
  err,         \* modprobe.err
  cancel,      \* pthread_cancel has been called on the thread
  joined,      \* pthread_join on the thread has returned
  emitted,     \* KTAP records the kernel has written to kmsg
  readPos,     \* records the runner has read
  interrupted, \* the runner's blocked read() was interrupted by SIGCHLD
  handler,     \* kunit_sigchld_handler is the SIGCHLD disposition
  saved,       \* the pointer passed as oldact to sigaction
  ret,         \* ret of __igt_kunit_legacy
  verdict      \* how the subtest ends

vars == <<runner, thread, mutex, err, cancel, joined, emitted, readPos,
          interrupted, handler, saved, ret, verdict>>

RunnerStates == {"start", "sig", "lock", "pre_read", "read", "after_read",
                 "outer", "check", "next", "final", "join", "done"}
ThreadStates == {"unborn", "modprobe", "locking", "trying", "kill",
                 "exited", "cancelled"}
Rets == {"inprogress", "ok", "eintr", "moderr"}

Ended == thread \in {"exited", "cancelled"}

Init ==
  /\ runner = "start" /\ thread = "unborn"
  /\ mutex = "free" /\ err = 0 /\ cancel = FALSE /\ joined = FALSE
  /\ emitted = 0 /\ readPos = 0 /\ interrupted = FALSE
  /\ handler = FALSE /\ saved \in SavedOutcomes
  /\ ret = "inprogress" /\ verdict = "none"

(* sigaction(SIGCHLD, saved, NULL): with saved NULL it changes nothing.    *)
Restore == handler' = (saved = "null" /\ handler)

-----------------------------------------------------------------------------
(* The runner: __igt_kunit_legacy and kunit_kmsg_result_get.               *)

(* Init the robust mutex and pthread_create the modprobe thread.           *)
Spawn ==
  /\ runner = "start"
  /\ runner' = "sig" /\ thread' = "modprobe"
  /\ UNCHANGED <<mutex, err, cancel, joined, emitted, readPos, interrupted,
                 handler, saved, ret, verdict>>

(* sigaction(SIGCHLD, &sigchld, saved): install the empty handler.         *)
InstallHandler ==
  /\ runner = "sig"
  /\ handler' = TRUE
  /\ runner' = "lock"
  /\ UNCHANGED <<thread, mutex, err, cancel, joined, emitted, readPos,
                 interrupted, saved, ret, verdict>>

(* pthread_mutex_lock in kunit_kmsg_result_get.  0: read with the mutex    *)
(* held.  EOWNERDEAD: unlock (now unrecoverable), then as ENOTRECOVERABLE: *)
(* restore SIGCHLD and return modprobe->err if set, else read unlocked.    *)
GetLock ==
  /\ runner = "lock"
  /\ \/ /\ mutex = "free"
        /\ mutex' = "runner" /\ runner' = "pre_read"
        /\ UNCHANGED <<handler, ret>>
     \/ /\ mutex \in {"dead", "unrecoverable"}
        /\ mutex' = "unrecoverable"
        /\ Restore
        /\ IF err # 0
             THEN runner' = "outer" /\ ret' = "moderr"
             ELSE runner' = "pre_read" /\ UNCHANGED ret
  /\ UNCHANGED <<thread, err, cancel, joined, emitted, readPos, interrupted,
                 saved, verdict>>

(* The runner reaches the read() call; a SIGCHLD before it is handled and  *)
(* leaves no trace.                                                        *)
EnterRead ==
  /\ runner = "pre_read"
  /\ runner' = "read"
  /\ UNCHANGED <<thread, mutex, err, cancel, joined, emitted, readPos,
                 interrupted, handler, saved, ret, verdict>>

(* read() on a /dev/kmsg left in O_NONBLOCK mode: with no record it fails *)
(* at once with EAGAIN.                                                    *)
ReadNonBlocking ==
  /\ runner = "read"
  /\ \/ /\ interrupted
        /\ interrupted' = FALSE /\ ret' = "eintr"
        /\ UNCHANGED readPos
     \/ /\ ~interrupted /\ readPos < emitted
        /\ readPos' = readPos + 1
        /\ ret' = IF readPos + 1 = Cases THEN "ok" ELSE "inprogress"
        /\ UNCHANGED interrupted
     \/ /\ ~interrupted /\ readPos = emitted
        /\ ret' = "eagain" /\ UNCHANGED <<readPos, interrupted>>
  /\ runner' = "after_read"
  /\ UNCHANGED <<thread, mutex, err, cancel, joined, emitted, handler, saved,
                 verdict>>

(* read(fd, record, BUF_LEN) returns -1 with EINTR once a SIGCHLD has     *)
(* interrupted it while it was blocked, or the next record, which          *)
(* igt_ktap_parse answers with 0 for the last and -EINPROGRESS (one        *)
(* result on the list) for the others.                                     *)
Read ==
  /\ runner = "read"
  /\ \/ /\ interrupted
        /\ interrupted' = FALSE /\ ret' = "eintr"
        /\ UNCHANGED readPos
     \/ /\ ~interrupted /\ readPos < emitted
        /\ readPos' = readPos + 1
        /\ ret' = IF readPos + 1 = Cases THEN "ok" ELSE "inprogress"
        /\ UNCHANGED interrupted
  /\ runner' = "after_read"
  /\ UNCHANGED <<thread, mutex, err, cancel, joined, emitted, handler, saved,
                 verdict>>

(* The success path that unlocks and forgets to restore SIGCHLD.          *)
AfterReadNoRestore ==
  /\ runner = "after_read"
  /\ IF mutex = "runner"
       THEN mutex' = "free" /\ UNCHANGED handler
       ELSE UNCHANGED <<mutex, handler>>
  /\ runner' = "outer"
  /\ UNCHANGED <<thread, err, cancel, joined, emitted, readPos, interrupted,
                 saved, ret, verdict>>

(* If the lock succeeded, unlock and restore SIGCHLD, then return.         *)
AfterRead ==
  /\ runner = "after_read"
  /\ IF mutex = "runner"
       THEN mutex' = "free" /\ Restore
       ELSE UNCHANGED <<mutex, handler>>
  /\ runner' = "outer"
  /\ UNCHANGED <<thread, err, cancel, joined, emitted, readPos, interrupted,
                 saved, ret, verdict>>

(* Leave the do-while of __igt_kunit_legacy on an error; otherwise the     *)
(* dynamic subtest of the result runs.  A result that is not a success     *)
(* ends it in an igt_skip/igt_fail before the mutex check.                 *)
Outer ==
  /\ runner = "outer"
  /\ IF ret \in {"inprogress", "ok"}
       THEN runner' \in {"check", "next"}
       ELSE runner' = "final"
  /\ UNCHANGED <<thread, mutex, err, cancel, joined, emitted, readPos,
                 interrupted, handler, saved, ret, verdict>>

(* The dynamic subtest's pthread_mutex_lock: unlock on 0 or EOWNERDEAD     *)
(* (leaving it unrecoverable) and assert modprobe.err is 0 on the latter   *)
(* two.                                                                    *)
Check ==
  /\ runner = "check"
  /\ mutex' = IF mutex = "free" THEN "free" ELSE "unrecoverable"
  /\ runner' = "next"
  /\ UNCHANGED <<thread, err, cancel, joined, emitted, readPos, interrupted,
                 handler, saved, ret, verdict>>

(* kunit_result_free, then loop while ret == -EINPROGRESS.                 *)
Loop ==
  /\ runner = "next"
  /\ runner' = IF ret = "inprogress" THEN "sig" ELSE "final"
  /\ UNCHANGED <<thread, mutex, err, cancel, joined, emitted, readPos,
                 interrupted, handler, saved, ret, verdict>>

(* igt_skip_on(modprobe.err); igt_skip_on_f(ret, "KTAP parser failed").    *)
VerdictNoErr == IF ret # "ok" THEN "skip" ELSE "pass"

Verdict == IF err # 0 \/ ret # "ok" THEN "skip" ELSE "pass"

(* The final switch without the pthread_join of case 0.                    *)
FinalLockNoJoin ==
  /\ runner = "final"
  /\ IF mutex = "free"
       THEN /\ cancel' = TRUE /\ UNCHANGED mutex
       ELSE /\ mutex' = "unrecoverable" /\ UNCHANGED cancel
  /\ runner' = "done" /\ verdict' = Verdict
  /\ UNCHANGED <<thread, err, joined, emitted, readPos, interrupted, handler,
                 saved, ret>>

(* The final pthread_mutex_lock.  0: pthread_cancel, unlock, then join.    *)
(* EOWNERDEAD: unlock (unrecoverable).  ENOTRECOVERABLE: nothing.  In the  *)
(* last two the subtest ends without joining the thread.                   *)
FinalLock ==
  /\ runner = "final"
  /\ IF mutex = "free"
       THEN /\ cancel' = TRUE /\ runner' = "join"
            /\ UNCHANGED <<mutex, verdict>>
       ELSE /\ mutex' = "unrecoverable"
            /\ runner' = "done" /\ verdict' = Verdict
            /\ UNCHANGED cancel
  /\ UNCHANGED <<thread, err, joined, emitted, readPos, interrupted, handler,
                 saved, ret>>

(* pthread_join returns when the thread has returned or been cancelled.    *)
Join ==
  /\ runner = "join" /\ Ended
  /\ joined' = TRUE
  /\ runner' = "done" /\ verdict' = Verdict
  /\ UNCHANGED <<thread, mutex, err, cancel, emitted, readPos, interrupted,
                 handler, saved, ret>>

-----------------------------------------------------------------------------
(* The modprobe thread: modprobe_task.                                     *)

(* The module's init runs a test case and the kernel logs its result.      *)
Emit ==
  /\ thread = "modprobe" /\ emitted < Cases
  /\ emitted' = emitted + 1
  /\ UNCHANGED <<runner, thread, mutex, err, cancel, joined, readPos,
                 interrupted, handler, saved, ret, verdict>>

(* modprobe() returns: 0 once init has run every case, or an error at any  *)
(* point.  A pending cancel acts at one of its cancellation points.        *)
Modprobe ==
  /\ thread = "modprobe"
  /\ \/ /\ emitted = Cases
        /\ thread' = "locking" /\ UNCHANGED err
     \/ /\ err' = 1 /\ thread' = "trying"
     \/ /\ cancel
        /\ thread' = "cancelled" /\ UNCHANGED err
  /\ UNCHANGED <<runner, mutex, cancel, joined, emitted, readPos, interrupted,
                 handler, saved, ret, verdict>>

(* On success pthread_mutex_lock, then return holding it.                  *)
ThreadLock ==
  /\ thread = "locking" /\ mutex = "free"
  /\ mutex' = "dead" /\ thread' = "exited"
  /\ UNCHANGED <<runner, err, cancel, joined, emitted, readPos, interrupted,
                 handler, saved, ret, verdict>>

(* On error pthread_mutex_trylock: taken, return holding it; EBUSY, go on  *)
(* to pthread_kill.                                                        *)
TryLock ==
  /\ thread = "trying"
  /\ IF mutex = "free"
       THEN mutex' = "dead" /\ thread' = "exited"
       ELSE thread' = "kill" /\ UNCHANGED mutex
  /\ UNCHANGED <<runner, err, cancel, joined, emitted, readPos, interrupted,
                 handler, saved, ret, verdict>>

(* A SIGCHLD sent to the runner interrupts its read() only while the read  *)
(* is blocked (no record to return) and the handler is installed; the      *)
(* default disposition ignores it.                                         *)
Signal ==
  interrupted' = \/ interrupted
                 \/ runner = "read" /\ handler /\ readPos = emitted

(* The error path that sends SIGCHLD once and returns.                     *)
KillOnce ==
  /\ thread = "kill"
  /\ Signal
  /\ thread' = "exited"
  /\ UNCHANGED <<runner, mutex, err, cancel, joined, emitted, readPos,
                 handler, saved, ret, verdict>>

(* pthread_kill(data->parent, SIGCHLD), then trylock again.                *)
Kill ==
  /\ thread = "kill"
  /\ Signal
  /\ thread' = "trying"
  /\ UNCHANGED <<runner, mutex, err, cancel, joined, emitted, readPos,
                 handler, saved, ret, verdict>>

(* The subtest has ended and the thread is gone.                           *)
Finished ==
  /\ runner = "done" /\ Ended
  /\ UNCHANGED vars

RunnerStep ==
  \/ Spawn \/ InstallHandler \/ GetLock \/ EnterRead \/ Read \/ AfterRead
  \/ Outer \/ Check \/ Loop \/ FinalLock \/ Join

ThreadStep == Emit \/ Modprobe \/ ThreadLock \/ TryLock \/ Kill

Next == RunnerStep \/ ThreadStep \/ Finished

(* Both threads are scheduled; read() and pthread_join return once their   *)
(* record, signal or thread end is there.                                  *)
Fairness == WF_vars(RunnerStep) /\ WF_vars(ThreadStep)

Spec == Init /\ [][Next]_vars /\ Fairness

-----------------------------------------------------------------------------

TypeOK ==
  /\ runner \in RunnerStates /\ thread \in ThreadStates
  /\ mutex \in {"free", "runner", "dead", "unrecoverable"}
  /\ err \in {0, 1} /\ cancel \in BOOLEAN /\ joined \in BOOLEAN
  /\ emitted \in 0..Cases /\ readPos \in 0..Cases
  /\ interrupted \in BOOLEAN /\ handler \in BOOLEAN
  /\ saved \in {"null", "valid"}
  /\ ret \in Rets /\ verdict \in {"none", "pass", "skip"}

(* struct modprobe_data lives on __igt_kunit_legacy's stack: when the      *)
(* function returns, the modprobe thread that writes data->err and locks   *)
(* data->lock has returned or been cancelled.                              *)
NoThreadOutlivesRunner ==
  runner = "done" => Ended

(* A subtest whose module failed to load never passes: the err the         *)
(* thread sets is seen by the final igt_skip_on, and is never set later.   *)
ErrorNeverPasses ==
  verdict = "pass" => err = 0

(* kunit_kmsg_result_get does not block forever: a failed modprobe wakes   *)
(* the read() with SIGCHLD, so the subtest always ends.                    *)
RunnerTerminates ==
  <>(runner = "done")

(* Every kunit_kmsg_result_get restores the SIGCHLD disposition it found:  *)
(* after the subtest the process has its old SIGCHLD action again.         *)
SigchldRestored ==
  runner = "done" => ~handler

=============================================================================

------------------------------ MODULE WaitMemory ------------------------------
(***************************************************************************)
(* amdgpu_wait_memory_helper of lib/amdgpu/amd_deadlock_helpers.c.  The    *)
(* main thread builds one IB that makes the engine poll a dword until it   *)
(* is non-zero, blocks SIGUSR1 and SIGUSR2, starts a stress thread, and    *)
(* waits for its SIGUSR1.  It then submits the IB until a submission fails *)
(* (the kernel's job timeout has reset the engine and cancelled the        *)
(* context) or MAX_JOB_COUNT jobs are in, waits without a timeout for the  *)
(* last fence, and only then sends SIGUSR2, on which the stress thread     *)
(* writes the dword and returns.                                           *)
(*                                                                         *)
(* The engine runs the jobs in order; the first one polls the dword.  With *)
(* GPU recovery on, a job that polls too long is ended by a reset that     *)
(* signals every fence of the context and makes later submissions return   *)
(* -ECANCELED.  Building the IB (lines 81-100) is sequential and always    *)
(* emits 16 dwords; it is one step here.  A SIGUSR1 or SIGUSR2 delivered   *)
(* to a thread that does not block it takes the default action and ends    *)
(* the process.  A job completing because the engine read the dword as   *)
(* non-zero is not a step: WriteAfterHang shows no state reaches it.      *)
(***************************************************************************)
EXTENDS Naturals

CONSTANTS
  MaxJobs,   \* MAX_JOB_COUNT (200 in the code)
  Recovery   \* the kernel resets a hung engine (amdgpu gpu_recovery)

ASSUME MaxJobs \in Nat \ {0} /\ Recovery \in BOOLEAN

Threads == {"main", "stress"}
SetReady == {"SIGUSR1", "SIGUSR2"}

VARIABLES
  main,       \* where amdgpu_wait_memory_helper is
  stress,     \* where write_mem_address is
  mask,       \* the blocked signals of each thread
  pending,    \* the signals pending for each thread
  killed,     \* a signal's default action ended the process
  failed,     \* an igt_assert fired
  mem,        \* ib_result_cpu[MEMORY_OFFSET]
  submitted,  \* jobs accepted by amdgpu_cs_submit
  completed,  \* jobs whose fence has signalled
  seq_no,     \* ibs_request.seq_no: the last accepted job
  job_count,  \* job_count
  guilty,     \* the context was cancelled by a reset
  reset       \* the engine was reset

vars == <<main, stress, mask, pending, killed, failed, mem, submitted,
          completed, seq_no, job_count, guilty, reset>>

Init ==
  /\ main = "setup" /\ stress = "unborn"
  /\ mask = [t \in Threads |-> {}] /\ pending = [t \in Threads |-> {}]
  /\ killed = FALSE /\ failed = FALSE
  /\ mem = 0 /\ submitted = 0 /\ completed = 0 /\ seq_no = 0
  /\ job_count = 0 /\ guilty = FALSE /\ reset = FALSE

(* The process runs: no signal has ended it and no assert has fired.       *)
Running == ~killed /\ ~failed

(* pthread_kill(t, s): pending if t blocks s, else the process dies.       *)
Send(t, s) ==
  IF s \in mask[t]
    THEN pending' = [pending EXCEPT ![t] = @ \cup {s}] /\ UNCHANGED killed
    ELSE killed' = TRUE /\ UNCHANGED pending

(* sigwait(&set_ready, &sig) in thread t returns s; assert s is expected.  *)
SigWait(t, expected) ==
  \E s \in pending[t] \cap SetReady :
     /\ pending' = [pending EXCEPT ![t] = @ \ {s}]
     /\ failed' = (s # expected)

GpuVars == <<mem, submitted, completed, seq_no, job_count, guilty, reset>>

-----------------------------------------------------------------------------
(* The main thread.                                                        *)

(* Create the context and the IB buffer, attach it, emit the poll packet   *)
(* padded to 16 dwords, clear the dword, fill the request; then            *)
(* pthread_sigmask(SIG_BLOCK, {SIGUSR1, SIGUSR2}).                         *)
Setup ==
  /\ Running /\ main = "setup"
  /\ mask' = [mask EXCEPT !["main"] = SetReady]
  /\ main' = "create"
  /\ UNCHANGED <<stress, pending, killed, failed>>
  /\ UNCHANGED GpuVars

(* pthread_create: the stress thread starts with no signal blocked.        *)
CreateUnmasked ==
  /\ Running /\ main = "create"
  /\ stress' = "ready"
  /\ main' = "wait_ready"
  /\ UNCHANGED <<mask, pending, killed, failed>>
  /\ UNCHANGED GpuVars

(* pthread_create: the stress thread inherits the main thread's mask.      *)
Create ==
  /\ Running /\ main = "create"
  /\ stress' = "ready"
  /\ mask' = [mask EXCEPT !["stress"] = mask["main"]]
  /\ main' = "wait_ready"
  /\ UNCHANGED <<pending, killed, failed>>
  /\ UNCHANGED GpuVars

(* sigwait for the thread's readiness; assert the signal is SIGUSR1.       *)
WaitReady ==
  /\ Running /\ main = "wait_ready"
  /\ SigWait("main", "SIGUSR1")
  /\ main' = "submit"
  /\ UNCHANGED <<stress, mask, killed>>
  /\ UNCHANGED GpuVars

(* The submit loop that runs while job_count <= MAX_JOB_COUNT.           *)
SubmitOneMore ==
  /\ Running /\ main = "submit"
  /\ job_count' = job_count + 1
  /\ IF guilty
       THEN /\ main' = "fence"
            /\ UNCHANGED <<submitted, seq_no>>
       ELSE /\ submitted' = submitted + 1
            /\ seq_no' = submitted + 1
            /\ main' = IF job_count + 1 <= MaxJobs THEN "submit" ELSE "fence"
  /\ UNCHANGED <<stress, mask, pending, killed, failed, mem, completed,
                 guilty, reset>>

(* amdgpu_cs_submit; job_count++; loop while it returned 0 and fewer than  *)
(* MAX_JOB_COUNT jobs went in.  -ECANCELED ends the loop and is accepted.  *)
Submit ==
  /\ Running /\ main = "submit"
  /\ job_count' = job_count + 1
  /\ IF guilty
       THEN /\ main' = "fence"
            /\ UNCHANGED <<submitted, seq_no>>
       ELSE /\ submitted' = submitted + 1
            /\ seq_no' = submitted + 1
            /\ main' = IF job_count + 1 < MaxJobs THEN "submit" ELSE "fence"
  /\ UNCHANGED <<stress, mask, pending, killed, failed, mem, completed,
                 guilty, reset>>

FenceWait ==
  /\ Running /\ main = "fence"
  /\ completed >= seq_no
  /\ main' = "kill"
  /\ UNCHANGED <<stress, mask, pending, killed, failed>>
  /\ UNCHANGED GpuVars

(* The release of the thread that waits for it to end first.              *)
SignalAfterJoin ==
  /\ Running /\ main = "kill" /\ stress = "done"
  /\ Send("stress", "SIGUSR2")
  /\ main' = "join"
  /\ UNCHANGED <<stress, mask, failed>>
  /\ UNCHANGED GpuVars

(* pthread_kill(stress_thread, SIGUSR2): let the thread write the dword.   *)
SignalStress ==
  /\ Running /\ main = "kill"
  /\ Send("stress", "SIGUSR2")
  /\ main' = "join"
  /\ UNCHANGED <<stress, mask, failed>>
  /\ UNCHANGED GpuVars

(* pthread_join, then free the bo list, the buffer, the context and the    *)
(* encoder.                                                                *)
Join ==
  /\ Running /\ main = "join" /\ stress = "done"
  /\ main' = "done"
  /\ UNCHANGED <<stress, mask, pending, killed, failed>>
  /\ UNCHANGED GpuVars

-----------------------------------------------------------------------------
(* The stress thread: write_mem_address.                                   *)

(* pthread_kill(main_thread, SIGUSR1).                                     *)
Ready ==
  /\ Running /\ stress = "ready"
  /\ Send("main", "SIGUSR1")
  /\ stress' = "wait"
  /\ UNCHANGED <<main, mask, failed>>
  /\ UNCHANGED GpuVars

(* The thread that writes the dword without waiting for SIGUSR2.           *)
WriteEarly ==
  /\ Running /\ stress = "wait"
  /\ mem' = 1
  /\ stress' = "done"
  /\ UNCHANGED <<main, mask, pending, killed, failed, submitted, completed,
                 seq_no, job_count, guilty, reset>>

(* sigwait, assert SIGUSR2, write the dword the engine polls, return.      *)
Release ==
  /\ Running /\ stress = "wait"
  /\ SigWait("stress", "SIGUSR2")
  /\ mem' = 1
  /\ stress' = "done"
  /\ UNCHANGED <<main, mask, killed, submitted, completed, seq_no,
                 job_count, guilty, reset>>

-----------------------------------------------------------------------------
(* The engine and the kernel.                                              *)

(* The job timeout fires on the polling job: the engine is reset, every   *)
(* fence of the context signals, the context is marked guilty.            *)
Reset ==
  /\ Running /\ Recovery
  /\ completed < submitted /\ mem = 0
  /\ completed' = submitted
  /\ guilty' = TRUE /\ reset' = TRUE
  /\ UNCHANGED <<main, stress, mask, pending, killed, failed, mem, submitted,
                 seq_no, job_count>>

(* The helper has returned, or the process has ended.                      *)
Stopped ==
  /\ ~Running \/ (main = "done" /\ stress = "done")
  /\ UNCHANGED vars

MainStep ==
  Setup \/ Create \/ WaitReady \/ Submit \/ FenceWait \/ SignalStress \/ Join
StressStep == Ready \/ Release
GpuStep == Reset

Next == MainStep \/ StressStep \/ GpuStep \/ Stopped

(* Both threads are scheduled, blocked calls return once their signal or   *)
(* fence is there, and the kernel's job timeout fires on a hung job.       *)
Fairness == WF_vars(MainStep) /\ WF_vars(StressStep) /\ WF_vars(GpuStep)

Spec == Init /\ [][Next]_vars /\ Fairness

-----------------------------------------------------------------------------

TypeOK ==
  /\ main \in {"setup", "create", "wait_ready", "submit", "fence", "kill",
               "join", "done"}
  /\ stress \in {"unborn", "ready", "wait", "done"}
  /\ mask \in [Threads -> SUBSET SetReady]
  /\ pending \in [Threads -> SUBSET SetReady]
  /\ killed \in BOOLEAN /\ failed \in BOOLEAN /\ mem \in {0, 1}
  /\ completed \in 0..submitted /\ submitted \in 0..MaxJobs
  /\ seq_no \in 0..submitted /\ job_count \in 0..MaxJobs
  /\ guilty \in BOOLEAN /\ reset \in BOOLEAN

(* Neither thread is ever sent a SIGUSR1 or SIGUSR2 it does not block:    *)
(* the mask set before pthread_create covers the stress thread too, and   *)
(* each sigwait gets the signal it asserts.                               *)
SignalsHandled ==
  ~killed /\ ~failed

WriteAfterHang ==
  mem = 1 => guilty /\ completed = submitted

(* amdgpu_wait_memory_helper returns: the reset ends the fence wait, the  *)
(* SIGUSR2 then releases the thread, and the join returns.                *)
HelperReturns ==
  <>(main = "done")

=============================================================================

----------------------------- MODULE KunitRunner -----------------------------
(***************************************************************************)
(* igt_kunit of lib/igt_kmod.c: list the module's test cases               *)
(* (kunit_get_tests), then run them with the modern runner __igt_kunit,   *)
(* or with __igt_kunit_legacy (module KunitModprobe) when the list is      *)
(* empty.  Both runners share the modprobe thread and                      *)
(* kunit_kmsg_result_get, whose actions KunitModprobe defines: a call of   *)
(* it enters at runner state "sig" and returns at "outer", where the       *)
(* runner that called it goes on.                                          *)
(*                                                                         *)
(* The report the kernel writes while the module loads is a sequence of    *)
(* results, one per test case in the order of the listing, each preceded   *)
(* for a parametrised case by a result with code IGT_EXIT_INVALID of the   *)
(* same suite and case.  KunitModprobe's record count Cases is its length. *)
(* A case is a record [suite, name]; the strings are compared with strcmp, *)
(* i.e. by equality.                                                       *)
(***************************************************************************)
EXTENDS KunitModprobe, Sequences

SE == INSTANCE SequencesExt

CONSTANTS
  CaseList,   \* the test cases of the module, in the order it runs them
  Filters     \* the filter igt_kunit is given: a suite name, or "none"

ASSUME Cases = Len(CaseList) + 1

VARIABLES
  path,     \* "none" before kunit_get_tests, then "legacy" or "modern"
  filter,   \* the name/filter argument of igt_kunit
  stream,   \* the results the kernel reports while the module loads
  tests,    \* the list kunit_get_tests returned
  ti,       \* the index of the test case t of __igt_kunit's loop
  held,     \* r points to the result stream[readPos]; FALSE: r is NULL
  freed,    \* the case of the last result kunit_result_free freed
  pcode,    \* the code of that result, kept across the refill
  cont,     \* where __igt_kunit goes on when kunit_kmsg_result_get returns
  dyn       \* the verdict of the dynamic subtest of each listed case

runnerVars == <<path, filter, stream, tests, ti, held, freed, pcode, cont, dyn>>
varsR == <<vars, runnerVars>>

Codes == {"success", "skip", "fail"}
NoCase == [suite |-> "", name |-> ""]

(* The report of a module whose cases end with the given codes, case p     *)
(* being parametrised.                                                     *)
KernelReport(codes, p) ==
  SE!FlattenSeq([i \in 1..Len(CaseList) |->
    (IF i = p THEN << [case |-> CaseList[i], code |-> "invalid"] >> ELSE << >>)
    \o << [case |-> CaseList[i], code |-> codes[i]] >>])

(* The result r points to after kunit_kmsg_result_get read record readPos. *)
R == stream[readPos]

InitR ==
  /\ Init
  /\ path = "none" /\ filter \in Filters
  /\ stream \in {KernelReport(c, p) : c \in [1..Len(CaseList) -> Codes],
                                      p \in 1..Len(CaseList)}
  /\ tests = << >> /\ ti = 1 /\ held = FALSE
  /\ freed = NoCase /\ pcode = "success" /\ cont = "first"
  /\ dyn = [i \in 1..Len(CaseList) |-> "none"]

-----------------------------------------------------------------------------
(* kunit_get_tests and the choice of runner in igt_kunit.                  *)

(* The listing: the cases whose suite is the filter, all without one.      *)
Listed(f) == SE!SelectSeq(CaseList, LAMBDA c : f = "none" \/ c.suite = f)

(* The kunit module does not load with filter_action=skip (kernels before  *)
(* the listing): an empty list.  The listing has a result other than SKIP, *)
(* a parse error, or the module will not unload: the subtest skips.        *)
(* Otherwise the cases that pass the filter.  An empty list selects        *)
(* __igt_kunit_legacy, a non-empty one __igt_kunit.                        *)
GetTests ==
  /\ runner = "start" /\ path = "none"
  /\ \/ /\ path' = "legacy" /\ UNCHANGED <<tests, runner, verdict>>
     \/ /\ runner' = "done" /\ verdict' = "skip"
        /\ UNCHANGED <<path, tests>>
     \/ /\ tests' = Listed(filter)
        /\ IF tests' = << >>
             THEN path' = "legacy" /\ UNCHANGED runner
             ELSE path' = "modern" /\ runner' = "t_begin"
        /\ UNCHANGED verdict
  /\ UNCHANGED <<thread, mutex, err, cancel, joined, emitted, readPos,
                 interrupted, handler, saved, ret,
                 filter, stream, ti, held, freed, pcode, cont, dyn>>

-----------------------------------------------------------------------------
(* __igt_kunit.                                                            *)

Fail == dyn' = [dyn EXCEPT ![ti] = "fail"] /\ runner' = "t_end"

(* Call kunit_kmsg_result_get, going on at c when it returns.             *)
Get(c) == runner' = "sig" /\ cont' = c

(* The dynamic subtest of case ti begins.  The first one initialises the   *)
(* robust mutex, starts the modprobe thread and gets the first result.     *)
TBegin ==
  /\ runner = "t_begin"
  /\ IF thread = "unborn"
       THEN thread' = "modprobe" /\ Get("first")
       ELSE runner' = "t_match" /\ UNCHANGED <<thread, cont>>
  /\ UNCHANGED <<mutex, err, cancel, joined, emitted, readPos, interrupted,
                 handler, saved, ret, verdict,
                 path, filter, stream, tests, ti, held, freed, pcode, dyn>>

(* kunit_kmsg_result_get has returned.  Every record read adds one result; *)
(* an error return leaves the list empty and igt_fail_on ends the dynamic *)
(* subtest.  After a parametrised result the next must be of the same      *)
(* suite and case.                                                         *)
Got ==
  /\ runner = "outer"
  /\ IF ret \in {"inprogress", "ok"}
       THEN /\ held' = TRUE
            /\ IF cont = "refill" /\ pcode = "invalid" /\ R.case # freed
                 THEN Fail
                 ELSE runner' = "t_match" /\ UNCHANGED dyn
       ELSE Fail /\ UNCHANGED held
  /\ UNCHANGED <<thread, mutex, err, cancel, joined, emitted, readPos,
                 interrupted, handler, saved, ret, verdict,
                 path, filter, stream, tests, ti, freed, pcode, cont>>

(* Mutant: the while condition compares only the case names.               *)
SkipsNameOnly(r, t) == r.case.name # t.name \/ r.code = "invalid"

(* The while condition: a result of another suite or case, or a            *)
(* parametrised one, is skipped.                                           *)
Skips(r, t) == r.case # t \/ r.code = "invalid"

(* kunit_result_free(&r, &suite_name, &case_name): unlink and free r, and *)
(* keep its suite and case names for the parametrised-result check.        *)
ResultFree == held' = FALSE /\ freed' = R.case

(* kunit_results_free: free every result left on the list.                 *)
ResultsFree == held' = FALSE

(* The while loop body: kunit_result_free, and if the list is now empty   *)
(* assert that the report goes on and get the next result.  The loop ends *)
(* on a result of case t.                                                  *)
TMatch ==
  /\ runner = "t_match"
  /\ IF Skips(R, tests[ti])
       THEN /\ ResultFree /\ pcode' = R.code
            /\ IF ret = "inprogress"
                 THEN Get("refill") /\ UNCHANGED dyn
                 ELSE Fail /\ UNCHANGED cont
       ELSE runner' = "t_code" /\ UNCHANGED <<held, freed, pcode, cont, dyn>>
  /\ UNCHANGED <<thread, mutex, err, cancel, joined, emitted, readPos,
                 interrupted, handler, saved, ret, verdict,
                 path, filter, stream, tests, ti>>

(* The result's code: SKIP skips, FAILURE fails, SUCCESS goes on to the    *)
(* mutex check.                                                            *)
TCode ==
  /\ runner = "t_code"
  /\ IF R.code = "success"
       THEN runner' = "t_check" /\ UNCHANGED dyn
       ELSE dyn' = [dyn EXCEPT ![ti] = R.code] /\ runner' = "t_end"
  /\ UNCHANGED <<thread, mutex, err, cancel, joined, emitted, readPos,
                 interrupted, handler, saved, ret, verdict,
                 path, filter, stream, tests, ti, held, freed, pcode, cont>>

(* pthread_mutex_lock: 0, unlock; EOWNERDEAD, unlock (unrecoverable); on   *)
(* the last two assert that modprobe.err is 0.  Then the case passes.      *)
TCheck ==
  /\ runner = "t_check"
  /\ mutex' = IF mutex = "free" THEN "free" ELSE "unrecoverable"
  /\ dyn' = [dyn EXCEPT ![ti] = IF mutex # "free" /\ err # 0
                                  THEN "fail" ELSE "pass"]
  /\ runner' = "t_end"
  /\ UNCHANGED <<thread, err, cancel, joined, emitted, readPos, interrupted,
                 handler, saved, ret, verdict,
                 path, filter, stream, tests, ti, held, freed, pcode, cont>>

(* Mutant: the loop over the list stops one case early.                    *)
TEndShort ==
  /\ runner = "t_end"
  /\ IF ret # "inprogress" \/ ti + 1 >= Len(tests)
       THEN runner' = "final" /\ UNCHANGED ti
       ELSE runner' = "t_begin" /\ ti' = ti + 1
  /\ UNCHANGED <<thread, mutex, err, cancel, joined, emitted, readPos,
                 interrupted, handler, saved, ret, verdict,
                 path, filter, stream, tests, held, freed, pcode, cont, dyn>>

(* After the dynamic subtest: break when the report has ended or failed,  *)
(* else the next case of the list.                                         *)
TEnd ==
  /\ runner = "t_end"
  /\ IF ret # "inprogress" \/ ti + 1 > Len(tests)
       THEN runner' = "final" /\ UNCHANGED ti
       ELSE runner' = "t_begin" /\ ti' = ti + 1
  /\ UNCHANGED <<thread, mutex, err, cancel, joined, emitted, readPos,
                 interrupted, handler, saved, ret, verdict,
                 path, filter, stream, tests, held, freed, pcode, cont, dyn>>

(* igt_skip_on(modprobe.err); the KTAP skip only if the report ended.      *)
VerdictM == IF err # 0 \/ ret \notin {"inprogress", "ok"} THEN "skip" ELSE "pass"

(* kunit_results_free, then the final switch of __igt_kunit, as in the     *)
(* legacy runner (the thread exists: the first case started it).          *)
FinalLockM ==
  /\ runner = "final"
  /\ ResultsFree
  /\ IF mutex = "free"
       THEN /\ cancel' = TRUE /\ runner' = "join"
            /\ UNCHANGED <<mutex, verdict>>
       ELSE /\ mutex' = "unrecoverable"
            /\ runner' = "done" /\ verdict' = VerdictM
            /\ UNCHANGED cancel
  /\ UNCHANGED <<thread, err, joined, emitted, readPos, interrupted, handler,
                 saved, ret, path, filter, stream, tests, ti, freed, pcode,
                 cont, dyn>>

JoinM ==
  /\ runner = "join" /\ Ended
  /\ joined' = TRUE
  /\ runner' = "done" /\ verdict' = VerdictM
  /\ UNCHANGED <<thread, mutex, err, cancel, emitted, readPos, interrupted,
                 handler, saved, ret, runnerVars>>

-----------------------------------------------------------------------------

(* kunit_kmsg_result_get, shared by both runners. *)
ResultGet == InstallHandler \/ GetLock \/ EnterRead \/ Read \/ AfterRead

ModernStep ==
  TBegin \/ Got \/ TMatch \/ TCode \/ TCheck \/ TEnd \/ FinalLockM \/ JoinM

RunnerStepR ==
  \/ GetTests
  \/ path = "legacy" /\ RunnerStep /\ UNCHANGED runnerVars
  \/ path = "modern" /\ ResultGet /\ UNCHANGED runnerVars
  \/ path = "modern" /\ ModernStep

(* The subtest has ended; a thread it started is gone.                     *)
FinishedR ==
  /\ runner = "done" /\ (Ended \/ thread = "unborn")
  /\ UNCHANGED varsR

NextR ==
  \/ RunnerStepR
  \/ ThreadStep /\ UNCHANGED runnerVars
  \/ FinishedR

SpecR == InitR /\ [][NextR]_varsR
         /\ WF_varsR(RunnerStepR) /\ WF_varsR(ThreadStep /\ UNCHANGED runnerVars)

-----------------------------------------------------------------------------

TypeOKR ==
  /\ runner \in RunnerStates \cup
       {"t_begin", "t_match", "t_code", "t_check", "t_end"}
  /\ thread \in ThreadStates
  /\ mutex \in {"free", "runner", "dead", "unrecoverable"}
  /\ err \in {0, 1} /\ cancel \in BOOLEAN /\ joined \in BOOLEAN
  /\ emitted \in 0..Cases /\ readPos \in 0..Cases
  /\ interrupted \in BOOLEAN /\ handler \in BOOLEAN
  /\ ret \in Rets /\ verdict \in {"none", "pass", "skip"}
  /\ path \in {"none", "legacy", "modern"}
  /\ ti \in 1..Len(CaseList) /\ held \in BOOLEAN
  /\ pcode \in Codes \cup {"invalid"} /\ cont \in {"first", "refill"}
  /\ dyn \in [1..Len(CaseList) -> {"none", "pass", "fail", "skip"}]

(* The code of the result the kernel reports for case c.                   *)
Outcome(c) ==
  LET i == CHOOSE j \in 1..Len(stream) :
             stream[j].case = c /\ stream[j].code # "invalid"
  IN stream[i].code

(* A dynamic subtest of __igt_kunit passes only if the kernel reported     *)
(* SUCCESS for its own case: results of other suites and cases, and the    *)
(* results of a parametrised case's parameters, are skipped, never taken   *)
(* for it.                                                                 *)
DynamicPassMatchesReport ==
  \A i \in 1..Len(tests) : dyn[i] = "pass" => Outcome(tests[i]) = "success"

(* When the module loads without error, __igt_kunit gives every listed     *)
(* case its dynamic subtest: the loop neither stops early nor runs out of  *)
(* results before the last listed case.                                    *)
ListedCasesReported ==
  (runner = "done" /\ path = "modern" /\ err = 0)
    => \A i \in 1..Len(tests) : dyn[i] # "none"

(* Whichever runner igt_kunit chose, the modprobe thread that writes into  *)
(* its stack frame is gone when it returns.                                *)
ThreadGoneAtReturn ==
  runner = "done" => (Ended \/ thread = "unborn")

=============================================================================

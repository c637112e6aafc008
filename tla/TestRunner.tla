------------------------------ MODULE TestRunner ------------------------------
(***************************************************************************)
(* The runner of the unit tests (tests/testrun.c), with every test in a    *)
(* process of its own: `isolated`, which initTestManager sets and nothing  *)
(* clears.  The runner is a loop over a table of jobs that two signal      *)
(* handlers read and write while it runs: SIGCHLD collects processes that  *)
(* have ended, SIGINT (like SIGTERM and SIGHUP) kills the running ones and *)
(* exits.                                                                  *)
(*                                                                         *)
(* Test t is the t-th of the list, and t is also the pid of its process    *)
(* (0 is none): pids are not used again.  How a test ends is a record: the *)
(* result its process writes when it exits, if it gets to, the exit status *)
(* and whether it wrote to stderr.  SIGINT comes once at most, and to the  *)
(* runner only.                                                            *)
(***************************************************************************)
EXTENDS Integers, FiniteSets, Sequences

CONSTANTS NumTests,  \* the length of manager->tests
          Jobs,      \* manager->jobs
          Endings    \* the ways in which tests may end

ASSUME ParametersAssumption ==
  /\ NumTests \in Nat \ {0} /\ Jobs \in Nat \ {0}
  /\ Endings \subseteq [sent : {"none", "undone", "success", "failed"}, exit : Nat, noisy : BOOLEAN]

Tests == 1..NumTests
Slots == 1..Jobs
Results == {"undone", "success", "failed", "error"}
NotEnded == [sent |-> "none", exit |-> 0, noisy |-> FALSE]
Killed == [sent |-> "none", exit |-> 9, noisy |-> FALSE]

VARIABLES
  ending,         \* how each test ended
  process,        \* "none", "alive", "killed" but not yet gone, "zombie" or "reaped"
  sent,           \* what the result pipe of each test holds
  job,            \* manager->running_tests
  test_case,      \* the next test to start
  running_tests,
  result, counts, \* the results of the tests and manager->counts
  at, slot,       \* where the loop of the runner is
  frames,         \* the signal handlers in progress, the innermost last
  pending,        \* the signals sent to the runner and not delivered
  interrupted,    \* SIGINT has been sent
  early,          \* the tests reaped before the runner was done with their fork
  outcome         \* "running", or how the process of the runner ended

vars == <<ending, process, sent, job, test_case, running_tests, result, counts, at, slot,
          frames, pending, interrupted, early, outcome>>
loopVars == <<test_case, running_tests, result, counts, at, slot>>
testVars == <<ending, process, sent>>
signalVars == <<frames, pending, interrupted, early>>

IdleJob == [status |-> "idle", test |-> 0, pid |-> 0, exit |-> 0]
Frame == [signal : {"CHLD", "INT"}, part : {"check", "kill", "collect"}, slot : 0..Jobs + 1, pid : 0..NumTests]

TypeOK ==
  /\ ending \in [Tests -> Endings \cup {NotEnded, Killed}]
  /\ process \in [Tests -> {"none", "alive", "killed", "zombie", "reaped"}]
  /\ sent \in [Tests -> {"none", "undone", "success", "failed"}]
  /\ job \in [Slots -> [status : {"idle", "running", "exited"}, test : 0..NumTests,
                        pid : 0..NumTests, exit : {e.exit : e \in Endings \cup {NotEnded, Killed}}]]
  /\ test_case \in 1..NumTests + 1 /\ running_tests \in 0..Jobs
  /\ result \in [Tests -> Results] /\ counts \in [Results -> 0..NumTests]
  /\ at \in {"loop", "slot", "fork", "stored", "freed"} /\ slot \in Slots
  /\ frames \in Seq(Frame) /\ Len(frames) <= 2
  /\ pending \subseteq {"CHLD", "INT"} /\ interrupted \in BOOLEAN /\ early \subseteq Tests
  /\ outcome \in {"running", "success", "failure", "became the test",
                  "interrupted", "crashed", "group killed"}

Init ==
  /\ ending = [t \in Tests |-> NotEnded]
  /\ process = [t \in Tests |-> "none"] /\ sent = [t \in Tests |-> "none"]
  /\ job = [i \in Slots |-> IdleJob] /\ test_case = 1 /\ running_tests = 0
  /\ result = [t \in Tests |-> "undone"]
  /\ counts = [r \in Results |-> IF r = "undone" THEN NumTests ELSE 0]
  /\ at = "loop" /\ slot = 1
  /\ frames = <<>> /\ pending = {} /\ interrupted = FALSE /\ early = {}
  /\ outcome = "running"

-----------------------------------------------------------------------------
(* The loop of the runner.  It stands still while a handler runs.          *)

Running == outcome = "running" /\ frames = <<>>

\* Mutant: the loop is left when the last test has been started.
LoopWhileTests ==
  /\ Running /\ at = "loop"
  /\ IF test_case <= NumTests THEN at' = "slot" ELSE at' = "freed"
  /\ slot' = 1
  /\ UNCHANGED <<testVars, signalVars, job, test_case, running_tests, result, counts, outcome>>

\* The loop ends, and frees the table, when all tests are started and none is running.
Loop ==
  /\ Running /\ at = "loop"
  /\ IF test_case <= NumTests \/ running_tests # 0 THEN at' = "slot" ELSE at' = "freed"
  /\ slot' = 1
  /\ UNCHANGED <<testVars, signalVars, job, test_case, running_tests, result, counts, outcome>>

NextSlot == IF slot = Jobs THEN at' = "loop" /\ slot' = 1
                           ELSE at' = "slot" /\ slot' = slot + 1

AtSlot(status) == Running /\ at = "slot" /\ job[slot].status = status

\* startRunningTestCase up to the fork: the process runs before the job has its pid.
Start ==
  /\ AtSlot("idle") /\ test_case <= NumTests
  /\ job' = [job EXCEPT ![slot].test = test_case, ![slot].status = "running"]
  /\ process' = [process EXCEPT ![test_case] = "alive"]
  /\ at' = "fork"
  /\ UNCHANGED <<signalVars, ending, sent, test_case, running_tests, result, counts, slot, outcome>>

StorePid ==
  /\ Running /\ at = "fork"
  /\ job' = [job EXCEPT ![slot].pid = test_case]
  /\ at' = "stored"
  /\ UNCHANGED <<testVars, signalVars, test_case, running_tests, result, counts, slot, outcome>>

\* Whether this is the process of the test is read off the pid: from the job,
\* where SIGCHLD may have cleared it, unless the build still has it at hand.
\* A runner that takes itself for the test runs it and exits with 0.
Forked ==
  /\ Running /\ at = "stored"
  /\ \E pid \in {test_case, job[slot].pid} :
       IF pid = 0
       THEN outcome' = "became the test" /\ UNCHANGED <<loopVars>>
       ELSE /\ running_tests' = running_tests + 1
            /\ test_case' = test_case + 1
            /\ NextSlot
            /\ UNCHANGED <<result, counts, outcome>>
  /\ UNCHANGED <<testVars, signalVars, job>>

\* An idle job without a test left, and a running one, are passed over.
SkipSlot ==
  /\ AtSlot("running") \/ (AtSlot("idle") /\ test_case > NumTests)
  /\ NextSlot
  /\ UNCHANGED <<testVars, signalVars, job, test_case, running_tests, result, counts, outcome>>

\* Mutant: the result is taken as it is although the process failed.
CollectedAsSent(j) == IF sent[j.test] # "none" THEN sent[j.test] ELSE result[j.test]

\* stopRunningTestCase: what was sent is the result, but a test that did not
\* get to one is an error if anything else speaks against it.
Collected(j) ==
  LET r == IF sent[j.test] # "none" THEN sent[j.test] ELSE result[j.test]
  IN  IF /\ sent[j.test] = "none" \/ j.exit # 0 \/ ending[j.test].noisy
         /\ r = "undone"
      THEN "error"
      ELSE r

\* Mutant: the tests that run are not counted down.
FinishTestUncounted ==
  /\ AtSlot("exited")
  /\ LET t == job[slot].test
         r == Collected(job[slot])
     IN  /\ result' = [result EXCEPT ![t] = r]
         /\ counts' = [counts EXCEPT ![result[t]] = @ - 1, ![r] = @ + 1]
         /\ sent' = [sent EXCEPT ![t] = "none"]
  /\ job' = [job EXCEPT ![slot].test = 0, ![slot].status = "idle"]
  /\ NextSlot
  /\ UNCHANGED <<ending, process, signalVars, test_case, running_tests, outcome>>

FinishTest ==
  /\ AtSlot("exited")
  /\ LET t == job[slot].test
         r == Collected(job[slot])
     IN  /\ result' = [result EXCEPT ![t] = r]
         /\ counts' = [counts EXCEPT ![result[t]] = @ - 1, ![r] = @ + 1]
         /\ sent' = [sent EXCEPT ![t] = "none"]
  /\ running_tests' = running_tests - 1
  /\ job' = [job EXCEPT ![slot].test = 0, ![slot].status = "idle"]
  /\ NextSlot
  /\ UNCHANGED <<ending, process, signalVars, test_case, outcome>>

\* The handlers are taken out, and main exits with what the counts say.
Report ==
  /\ Running /\ at = "freed"
  /\ outcome' = IF counts["failed"] + counts["error"] = 0 THEN "success" ELSE "failure"
  /\ UNCHANGED <<testVars, signalVars, job, loopVars>>

-----------------------------------------------------------------------------
(* The processes of the tests, and whoever interrupts the runner.          *)

\* A test comes to its end, writing its result if it exits at all; nothing is
\* written by a process that was killed.
EndTest(t) ==
  /\ process[t] \in {"alive", "killed"}
  /\ process' = [process EXCEPT ![t] = "zombie"]
  /\ \E e \in IF process[t] = "alive" THEN Endings ELSE {Killed} :
       ending' = [ending EXCEPT ![t] = e] /\ sent' = [sent EXCEPT ![t] = e.sent]
  /\ pending' = pending \cup {"CHLD"}
  /\ UNCHANGED <<job, loopVars, frames, interrupted, early, outcome>>

Interrupt ==
  /\ outcome = "running" /\ ~ interrupted
  /\ interrupted' = TRUE
  /\ pending' = pending \cup {"INT"}
  /\ UNCHANGED <<testVars, job, loopVars, frames, early, outcome>>

-----------------------------------------------------------------------------
(* The signal handlers.  A handler blocks its own signal, not the other.   *)

Top == frames[Len(frames)]
InHandler(part) == outcome = "running" /\ frames # <<>> /\ Top.part = part
SetTop(f) == frames' = [frames EXCEPT ![Len(frames)] = f]

\* The table is global_test_case->manager->running_tests: there is none to
\* look at before the first test is started, and it is NULL after the loop.
NoTests == test_case = 1 /\ at \notin {"fork", "stored"}
TableFreed == at = "freed"

Deliver(signal) ==
  /\ outcome = "running" /\ signal \in pending
  /\ \A i \in DOMAIN frames : frames[i].signal # signal
  /\ pending' = pending \ {signal}
  /\ frames' = Append(frames, [signal |-> signal, slot |-> 1, pid |-> 0,
                               part |-> IF signal = "CHLD" \/ NoTests THEN "collect" ELSE "check"])
  /\ UNCHANGED <<testVars, job, loopVars, interrupted, early, outcome>>

\* Mutant: one process is collected for each signal.
ReapOne(t) ==
  /\ InHandler("collect") /\ process[t] = "zombie"
  /\ process' = [process EXCEPT ![t] = "reaped"]
  /\ early' = IF at \in {"fork", "stored"} /\ test_case = t THEN early \cup {t} ELSE early
  /\ job' = [i \in Slots |->
               IF job[i].pid = t
               THEN [job[i] EXCEPT !.exit = ending[t].exit, !.pid = 0,
                                   !.status = IF @ = "running" THEN "exited" ELSE @]
               ELSE job[i]]
  /\ frames' = SubSeq(frames, 1, Len(frames) - 1)
  /\ UNCHANGED <<ending, sent, loopVars, pending, interrupted, outcome>>

\* One turn of the loop of collectChilds: any process that has ended may be
\* the one that waitpid returns.
Reap(t) ==
  /\ InHandler("collect") /\ process[t] = "zombie"
  /\ process' = [process EXCEPT ![t] = "reaped"]
  /\ early' = IF at \in {"fork", "stored"} /\ test_case = t THEN early \cup {t} ELSE early
  /\ outcome' = IF TableFreed THEN "crashed" ELSE outcome
  /\ job' = [i \in Slots |->
               IF job[i].pid = t
               THEN [job[i] EXCEPT !.exit = ending[t].exit, !.pid = 0,
                                   !.status = IF @ = "running" THEN "exited" ELSE @]
               ELSE job[i]]
  /\ UNCHANGED <<ending, sent, loopVars, frames, pending, interrupted>>

\* waitpid finds nothing more: SIGCHLD is handled, after SIGINT the runner exits.
EndCollect ==
  /\ InHandler("collect") /\ \A t \in Tests : process[t] # "zombie"
  /\ IF Top.signal = "CHLD"
     THEN frames' = SubSeq(frames, 1, Len(frames) - 1) /\ UNCHANGED outcome
     ELSE outcome' = "interrupted" /\ UNCHANGED frames
  /\ UNCHANGED <<testVars, job, loopVars, pending, interrupted, early>>

\* One turn of the loop of killChilds: the test of the condition ...
KillCheck ==
  /\ InHandler("check")
  /\ IF TableFreed
     THEN outcome' = "crashed" /\ UNCHANGED frames
     ELSE /\ UNCHANGED outcome
          /\ IF Top.slot > Jobs
             THEN SetTop([Top EXCEPT !.part = "collect", !.slot = 0])
             ELSE IF job[Top.slot].pid # 0 /\ job[Top.slot].status = "running"
             THEN SetTop([Top EXCEPT !.part = "kill", !.pid = job[Top.slot].pid])
             ELSE SetTop([Top EXCEPT !.slot = @ + 1])
  /\ UNCHANGED <<testVars, job, loopVars, pending, interrupted, early>>

\* ... and the kill.  SIGCHLD may come in between, and the build decides
\* whether the pid is read a second time: kill(0) is for all of the group.
Kill ==
  /\ InHandler("kill")
  /\ \E pid \in {Top.pid, job[Top.slot].pid} :
       /\ process' = [t \in Tests |-> IF pid \in {0, t} /\ process[t] = "alive" THEN "killed" ELSE process[t]]
       /\ outcome' = IF pid = 0 THEN "group killed" ELSE outcome
  /\ SetTop([Top EXCEPT !.part = "check", !.slot = @ + 1, !.pid = 0])
  /\ UNCHANGED <<ending, sent, job, loopVars, pending, interrupted, early>>

-----------------------------------------------------------------------------

Main == Loop \/ Start \/ StorePid \/ Forked \/ SkipSlot \/ FinishTest \/ Report
Handler == (\E t \in Tests : Reap(t)) \/ EndCollect \/ KillCheck \/ Kill
Next ==
  \/ Main \/ Handler \/ Interrupt
  \/ \E signal \in {"CHLD", "INT"} : Deliver(signal)
  \/ \E t \in Tests : EndTest(t)

\* The runner is scheduled, signals are delivered, and every test ends (there
\* is no limit on its time).  Nobody has to interrupt the runner.
Fairness ==
  /\ WF_vars(Main) /\ WF_vars(Handler)
  /\ WF_vars(\E signal \in {"CHLD", "INT"} : Deliver(signal))
  /\ \A t \in Tests : WF_vars(EndTest(t))

Spec == Init /\ [][Next]_vars /\ Fairness

-----------------------------------------------------------------------------

\* What is to be said of a test that ran to its end.
Verdict(e) ==
  CASE e.sent \in {"success", "failed"} -> e.sent
    [] e.sent = "none" -> "error"
    [] OTHER -> IF e.exit # 0 \/ e.noisy THEN "error" ELSE "undone"

\* Whatever the interleaving, the result of a test is that of its own process,
\* the counts are those of the results, and the exit status tells whether a
\* test failed: a job that is used again mixes nothing up.
ReportIsRight ==
  /\ \A t \in Tests :
       result[t] = IF process[t] = "reaped" /\ \A i \in Slots : job[i].test # t
                   THEN Verdict(ending[t]) ELSE "undone"
  /\ \A r \in Results : counts[r] = Cardinality({t \in Tests : result[t] = r})
  /\ outcome = "success" => \A t \in Tests : Verdict(ending[t]) \in {"success", "undone"}
  /\ outcome = "failure" => \E t \in Tests : Verdict(ending[t]) \in {"failed", "error"}

\* The table of jobs outlives the processes of the tests, so that SIGCHLD
\* never finds it freed, and an interrupt leaves no process running but one
\* that was forked and not yet entered in the table.
NoTestLeftBehind ==
  /\ at = "freed" => \A t \in Tests : process[t] = "reaped"
  /\ outcome = "interrupted" =>
       \A t \in Tests : process[t] = "alive" => at = "fork" /\ t = test_case

\* The runner gets to its report, unless it is interrupted or a test was
\* reaped before the runner was done with its fork: then the end of the test
\* may be missed, or the runner take itself for the test.  Nothing else loses
\* the end of a process, although one SIGCHLD may stand for several.
ReportsUnlessEarly == <>(outcome \in {"success", "failure"} \/ interrupted \/ early # {})
=============================================================================

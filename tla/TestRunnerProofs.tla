--------------------------- MODULE TestRunnerProofs ---------------------------
(***************************************************************************)
(* For any number of tests and jobs, and whatever the tests do: the table  *)
(* of jobs outlives the processes, an interrupt leaves none running that   *)
(* is in the table, and the report is about what the processes did.        *)
(***************************************************************************)
EXTENDS TestRunner, FiniteSetTheorems, TLAPS

Live == {"alive", "killed", "zombie"}
Forking == at \in {"fork", "stored"}

AnyFrame == [signal : {"CHLD", "INT"}, part : {"check", "kill", "collect"}, slot : Nat, pid : Nat]

AnyEnding == [sent : {"none", "undone", "success", "failed"}, exit : Nat, noisy : BOOLEAN]
JobRecord ==
  [status : {"idle", "running", "exited"}, test : 0..NumTests, pid : 0..NumTests, exit : Nat]

Typed ==
  /\ ending \in [Tests -> AnyEnding]
  /\ process \in [Tests -> {"none", "alive", "killed", "zombie", "reaped"}]
  /\ job \in [Slots -> JobRecord]
  /\ test_case \in 1..NumTests + 1
  /\ at \in {"loop", "slot", "fork", "stored", "freed"} /\ slot \in Slots
  /\ frames \in Seq(AnyFrame)

\* The tests that were started are those before test_case, and the one at it
\* from the fork on.
Started ==
  \A t \in Tests : process[t] # "none" <=> t < test_case \/ (t = test_case /\ Forking)

\* A process that is not reaped is in the table, in a job that is running;
\* that of the test that is being started only from StorePid on.
Entered ==
  /\ \A t \in Tests : t < test_case /\ process[t] \in Live =>
       \E i \in Slots : job[i].pid = t /\ job[i].status = "running" /\ (Forking => i # slot)
  /\ at = "stored" /\ process[test_case] \in Live =>
       job[slot].pid = test_case /\ job[slot].status = "running"

\* Only a running job has a pid; the one that is forking has a test.
JobsMatch ==
  /\ \A i \in Slots : job[i].status # "running" => job[i].pid = 0
  /\ Forking => test_case <= NumTests /\ job[slot].status # "idle"
  /\ at = "fork" => job[slot].pid = 0 /\ job[slot].status = "running"

Busy == {i \in Slots : job[i].status # "idle" /\ (Forking => i # slot)}

BusyCounted == running_tests = Cardinality(Busy)

DoneWhenFreed ==
  at = "freed" => test_case > NumTests /\ \A i \in Slots : job[i].status = "idle"

\* Job i has nothing left to kill.
Settled(i) == job[i].pid # 0 /\ job[i].status = "running" => process[job[i].pid] # "alive"

\* A handler that kills is at a slot, and the handler of SIGINT has settled
\* the jobs it has passed.
HandlerSettles(f) ==
  /\ f.part # "collect" => f.slot # 0
  /\ f.part = "kill" => f.slot \in Slots /\ f.pid # 0 /\ job[f.slot].pid \in {0, f.pid}
  /\ f.signal = "INT" /\ f.part = "collect" => \A i \in Slots : Settled(i)
  /\ f.signal = "INT" /\ f.part # "collect" => \A i \in Slots : i < f.slot => Settled(i)

HandlersSettle == \A k \in DOMAIN frames : HandlerSettles(frames[k])

InterruptKills ==
  outcome = "interrupted" => \A t \in Tests : process[t] = "alive" => at = "fork" /\ t = test_case

IInv ==
  /\ Typed /\ Started /\ Entered /\ JobsMatch /\ BusyCounted /\ DoneWhenFreed
  /\ HandlersSettle /\ InterruptKills

-----------------------------------------------------------------------------

LEMMA SlotsFinite == IsFiniteSet(Slots) /\ Jobs \in Nat /\ NumTests \in Nat /\ 1 \in Slots
<1>1. Jobs \in Nat /\ NumTests \in Nat /\ Jobs > 0
  BY ParametersAssumption
<1> QED
  BY <1>1, FS_Interval DEF Slots

LEMMA InitIInv == Init => IInv
<1> SUFFICES ASSUME Init PROVE IInv
  OBVIOUS
<1>1. 1 \in Slots /\ Jobs \in Nat /\ NumTests \in Nat
  BY SlotsFinite
<1>2. Typed
  BY <1>1 DEF Init, Typed, NotEnded, IdleJob, AnyEnding, JobRecord, Tests, Slots, AnyFrame
<1>3. Started /\ Entered /\ JobsMatch /\ DoneWhenFreed /\ HandlersSettle /\ InterruptKills
  BY <1>1 DEF Init, Started, Entered, JobsMatch, DoneWhenFreed, HandlersSettle, InterruptKills,
              Forking, IdleJob, Live, Tests
<1>4. Busy = {}
  BY DEF Init, Busy, IdleJob
<1>5. BusyCounted
  BY <1>4, FS_EmptySet DEF BusyCounted, Init
<1> QED
  BY <1>2, <1>3, <1>5 DEF IInv

\* What a step of the loop may do to the slot.
LEMMA NextSlotInSlots ==
  ASSUME slot \in Slots, NextSlot
  PROVE  slot' \in Slots /\ at' \in {"loop", "slot"}
BY SlotsFinite DEF NextSlot, Slots

\* While no handler runs there is nothing that one has settled.
LEMMA NoHandler ==
  ASSUME Typed, Running, UNCHANGED frames
  PROVE  HandlersSettle' /\ DOMAIN frames' = {}
BY DEF Typed, Running, HandlersSettle

\* What is settled stays so when jobs at most lose their pid and no process
\* comes to life.
LEMMA SettledStays ==
  ASSUME Typed, HandlersSettle, UNCHANGED frames,
         \A u \in Tests : process'[u] = "alive" => process[u] = "alive",
         \A i \in Slots : job'[i] = job[i] \/ job'[i].pid = 0
  PROVE  HandlersSettle'
<1>1. \A i \in Slots : Settled(i) => Settled(i)'
  <2>1. \A i \in Slots : job[i].pid # 0 => job[i].pid \in Tests
    BY SlotsFinite DEF Typed, JobRecord, Tests
  <2> QED
    BY <2>1 DEF Settled
<1>2. \A f : HandlerSettles(f) => HandlerSettles(f)'
  BY <1>1 DEF HandlerSettles
<1> QED
  BY <1>2 DEF HandlersSettle

LEMMA LoopIInv == ASSUME IInv, Loop PROVE IInv'
<1>1. HandlersSettle'
  BY NoHandler DEF IInv, Loop, signalVars
<1>2. Typed'
  BY SlotsFinite DEF IInv, Typed, Loop, testVars, signalVars
<1>3. Started' /\ Entered' /\ JobsMatch' /\ InterruptKills'
  BY DEF IInv, Started, Entered, JobsMatch, InterruptKills, Forking, Loop, Running, testVars, signalVars
<1>4. Busy' = Busy
  BY DEF Busy, Forking, Loop
<1>5. BusyCounted'
  BY <1>4 DEF IInv, BusyCounted, Loop
<1>6. DoneWhenFreed'
  <2> SUFFICES ASSUME at' = "freed" PROVE DoneWhenFreed'
    BY DEF DoneWhenFreed
  <2>1. running_tests = 0 /\ test_case \in Nat /\ NumTests \in Nat /\ ~ (test_case <= NumTests)
    BY SlotsFinite DEF Loop, IInv, Typed
  <2>2. IsFiniteSet(Busy)
    BY SlotsFinite, FS_Subset DEF Busy
  <2>3. Busy = {}
    BY <2>1, <2>2, FS_EmptySet DEF IInv, BusyCounted
  <2>4. \A i \in Slots : job[i].status = "idle"
    BY <2>3 DEF Busy, Forking, Loop
  <2> QED
    BY <2>1, <2>4 DEF DoneWhenFreed, Loop
<1> QED
  BY <1>1, <1>2, <1>3, <1>5, <1>6 DEF IInv

LEMMA StartIInv == ASSUME IInv, Start PROVE IInv'
<1>1. /\ Running /\ at = "slot" /\ job[slot].status = "idle" /\ slot \in Slots
      /\ test_case \in Tests /\ test_case \in Nat /\ NumTests \in Nat
  BY SlotsFinite DEF Start, AtSlot, IInv, Typed, Tests
<1>2. HandlersSettle'
  BY <1>1, NoHandler DEF IInv, Start, signalVars
<1>3. Typed'
  <2>1. process' \in [Tests -> {"none", "alive", "killed", "zombie", "reaped"}]
    BY DEF IInv, Typed, Start
  <2>2. job' \in [Slots -> JobRecord]
    <3> DEFINE new == [job[slot] EXCEPT !.test = test_case, !.status = "running"]
    <3>1. job \in [Slots -> JobRecord]
      BY DEF IInv, Typed
    <3>2. new \in JobRecord /\ job' = [job EXCEPT ![slot] = new]
      BY <1>1, <3>1 DEF Start, JobRecord, Tests
    <3> QED
      BY <3>1, <3>2
  <2> QED
    BY <1>1, <2>1, <2>2 DEF IInv, Typed, Start, signalVars
<1>4. job[slot].pid = 0 /\ process[test_case] = "none"
  BY <1>1 DEF IInv, JobsMatch, Started, Forking
<1>5. Started'
  BY <1>1, <1>4 DEF IInv, Typed, Started, Forking, Start
<1>6. \A i \in Slots : i # slot => job'[i] = job[i]
  BY <1>1 DEF IInv, Typed, Start
<1>7. job'[slot].status = "running" /\ job'[slot].pid = 0
  BY <1>1, <1>4 DEF IInv, Typed, Start
<1>8. Entered'
  <2>1. \A t \in Tests : t < test_case => process'[t] = process[t]
    BY <1>1 DEF IInv, Typed, Start, Tests
  <2>2. \A t \in Tests : t < test_case /\ process[t] \in Live =>
          \E i \in Slots : i # slot /\ job'[i].pid = t /\ job'[i].status = "running"
    BY <1>1, <1>6 DEF IInv, Entered
  <2> QED
    BY <1>1, <2>1, <2>2 DEF Entered, Start
<1>9. JobsMatch'
  BY <1>1, <1>6, <1>7 DEF IInv, JobsMatch, Forking, Start, Tests
<1>10. Busy' = Busy
  BY <1>1, <1>6, <1>7 DEF Busy, Forking, Start
<1>11. BusyCounted' /\ DoneWhenFreed' /\ InterruptKills'
  BY <1>1, <1>10 DEF IInv, BusyCounted, DoneWhenFreed, InterruptKills, Start, Running
<1> QED
  BY <1>2, <1>3, <1>5, <1>8, <1>9, <1>11 DEF IInv

LEMMA StorePidIInv == ASSUME IInv, StorePid PROVE IInv'
<1>1. /\ Running /\ at = "fork" /\ slot \in Slots
      /\ test_case \in Tests /\ test_case \in Nat
      /\ job[slot].pid = 0 /\ job[slot].status = "running"
  BY SlotsFinite DEF StorePid, IInv, Typed, JobsMatch, Forking, Tests
<1>2. HandlersSettle'
  BY <1>1, NoHandler DEF IInv, StorePid, signalVars
<1>3. Typed'
  <2>1. job' \in [Slots -> JobRecord]
    <3> DEFINE new == [job[slot] EXCEPT !.pid = test_case]
    <3>1. job \in [Slots -> JobRecord]
      BY DEF IInv, Typed
    <3>2. new \in JobRecord /\ job' = [job EXCEPT ![slot] = new]
      BY <1>1, <3>1 DEF StorePid, JobRecord, Tests
    <3> QED
      BY <3>1, <3>2
  <2> QED
    BY <1>1, <2>1 DEF IInv, Typed, StorePid, testVars, signalVars
<1>4. \A i \in Slots : i # slot => job'[i] = job[i]
  BY <1>1 DEF IInv, Typed, StorePid
<1>5. job'[slot].status = "running" /\ job'[slot].pid = test_case
  BY <1>1 DEF IInv, Typed, StorePid
<1>6. Started'
  BY <1>1 DEF IInv, Started, Forking, StorePid, testVars
<1>7. Entered'
  BY <1>1, <1>4, <1>5 DEF IInv, Entered, Forking, StorePid, testVars
<1>8. JobsMatch'
  BY <1>1, <1>4, <1>5 DEF IInv, JobsMatch, Forking, StorePid
<1>9. Busy' = Busy
  BY <1>1, <1>4, <1>5 DEF Busy, Forking, StorePid
<1>10. BusyCounted' /\ DoneWhenFreed' /\ InterruptKills'
  BY <1>1, <1>9 DEF IInv, BusyCounted, DoneWhenFreed, InterruptKills, StorePid, Running
<1> QED
  BY <1>2, <1>3, <1>6, <1>7, <1>8, <1>10 DEF IInv

\* A step that leaves the processes and the place in the loop alone.
LEMMA TableSame ==
  ASSUME IInv, UNCHANGED <<process, job, test_case, running_tests, at, slot>>
  PROVE  Started' /\ Entered' /\ JobsMatch' /\ BusyCounted' /\ DoneWhenFreed'
<1>1. Busy' = Busy
  BY DEF Busy, Forking
<1> QED
  BY <1>1 DEF IInv, Started, Entered, JobsMatch, BusyCounted, DoneWhenFreed, Forking

LEMMA ForkedIInv == ASSUME IInv, Forked PROVE IInv'
<1>1. /\ Running /\ at = "stored" /\ slot \in Slots
      /\ test_case \in Tests /\ test_case \in Nat /\ NumTests \in Nat
      /\ job[slot].status # "idle"
  <2>1. Running /\ at = "stored"
    BY DEF Forked
  <2>2. slot \in Slots /\ test_case \in 1..NumTests + 1 /\ NumTests \in Nat
    BY SlotsFinite DEF IInv, Typed
  <2>3. test_case <= NumTests /\ job[slot].status # "idle"
    BY <2>1 DEF IInv, JobsMatch, Forking
  <2> QED
    BY <2>1, <2>2, <2>3 DEF Tests
<1>2. HandlersSettle'
  BY <1>1, NoHandler DEF IInv, Forked, signalVars
<1>3. PICK pid \in {test_case, job[slot].pid} :
        IF pid = 0
        THEN outcome' = "became the test" /\ UNCHANGED loopVars
        ELSE /\ running_tests' = running_tests + 1
             /\ test_case' = test_case + 1
             /\ NextSlot
             /\ UNCHANGED <<result, counts, outcome>>
  BY DEF Forked
<1>4. CASE pid = 0
  <2>1. Started' /\ Entered' /\ JobsMatch' /\ BusyCounted' /\ DoneWhenFreed'
    BY <1>3, <1>4, TableSame DEF Forked, testVars, loopVars
  <2>2. Typed' /\ InterruptKills'
    BY <1>3, <1>4 DEF Forked, IInv, Typed, InterruptKills, testVars, signalVars, loopVars
  <2> QED
    BY <1>2, <2>1, <2>2 DEF IInv
<1>5. CASE pid # 0
  <2>1. /\ running_tests' = running_tests + 1 /\ test_case' = test_case + 1
        /\ NextSlot /\ outcome' = outcome
    BY <1>3, <1>5
  <2>2. slot' \in Slots /\ at' \in {"loop", "slot"}
    BY <1>1, <2>1, NextSlotInSlots
  <2>3. UNCHANGED <<ending, process, sent, job, frames>>
    BY DEF Forked, testVars, signalVars
  <2>4. Typed'
    BY <1>1, <2>1, <2>2, <2>3 DEF IInv, Typed, Tests
  <2>5. Started'
    BY <1>1, <2>1, <2>2, <2>3 DEF IInv, Started, Forking, Tests
  <2>6. Entered'
    <3>1. \A t \in Tests : t < test_case' => t < test_case \/ t = test_case
      BY <1>1, <2>1 DEF Tests
    <3> QED
      BY <1>1, <2>2, <2>3, <3>1 DEF IInv, Entered, Forking
  <2>7. JobsMatch' /\ DoneWhenFreed' /\ InterruptKills'
    BY <1>1, <2>1, <2>2, <2>3 DEF IInv, JobsMatch, DoneWhenFreed, InterruptKills, Forking, Running
  <2>8. Busy' = Busy \cup {slot} /\ slot \notin Busy
    BY <1>1, <2>2, <2>3 DEF Busy, Forking
  <2>9. IsFiniteSet(Busy)
    BY SlotsFinite, FS_Subset DEF Busy
  <2>10. BusyCounted'
    BY <2>1, <2>8, <2>9, FS_AddElement DEF IInv, BusyCounted
  <2> QED
    BY <1>2, <2>4, <2>5, <2>6, <2>7, <2>10 DEF IInv
<1> QED
  BY <1>4, <1>5

LEMMA SkipSlotIInv == ASSUME IInv, SkipSlot PROVE IInv'
<1>1. Running /\ at = "slot" /\ slot \in Slots /\ NextSlot
  BY DEF SkipSlot, AtSlot, IInv, Typed
<1>2. slot' \in Slots /\ at' \in {"loop", "slot"}
  BY <1>1, NextSlotInSlots
<1>3. UNCHANGED <<ending, process, sent, job, frames, test_case, running_tests, outcome>>
  BY DEF SkipSlot, testVars, signalVars
<1>4. HandlersSettle'
  BY <1>1, <1>3, NoHandler DEF IInv
<1>5. Typed'
  BY <1>2, <1>3 DEF IInv, Typed
<1>6. Started' /\ Entered' /\ JobsMatch' /\ DoneWhenFreed' /\ InterruptKills'
  BY <1>1, <1>2, <1>3 DEF IInv, Started, Entered, JobsMatch, DoneWhenFreed, InterruptKills,
                          Forking, Running
<1>7. Busy' = Busy
  BY <1>1, <1>2, <1>3 DEF Busy, Forking
<1>8. BusyCounted'
  BY <1>3, <1>7 DEF IInv, BusyCounted
<1> QED
  BY <1>4, <1>5, <1>6, <1>8 DEF IInv

LEMMA FinishTestIInv == ASSUME IInv, FinishTest PROVE IInv'
<1>1. /\ Running /\ at = "slot" /\ slot \in Slots /\ NextSlot
      /\ job[slot].status = "exited" /\ job[slot].pid = 0
  BY DEF FinishTest, AtSlot, IInv, Typed, JobsMatch
<1>2. slot' \in Slots /\ at' \in {"loop", "slot"}
  BY <1>1, NextSlotInSlots
<1>3. UNCHANGED <<ending, process, frames, test_case, outcome>> /\ running_tests' = running_tests - 1
  BY DEF FinishTest, signalVars
<1>4. HandlersSettle'
  BY <1>1, <1>3, NoHandler DEF IInv
<1>5. job' \in [Slots -> JobRecord]
  <2> DEFINE new == [job[slot] EXCEPT !.test = 0, !.status = "idle"]
  <2>1. job \in [Slots -> JobRecord]
    BY DEF IInv, Typed
  <2>2. new \in JobRecord /\ job' = [job EXCEPT ![slot] = new]
    BY <1>1, <2>1, SlotsFinite DEF FinishTest, JobRecord
  <2> QED
    BY <2>1, <2>2
<1>6. Typed'
  BY <1>2, <1>3, <1>5 DEF IInv, Typed
<1>7. \A i \in Slots : i # slot => job'[i] = job[i]
  BY <1>1 DEF IInv, Typed, FinishTest
<1>8. job'[slot].status = "idle" /\ job'[slot].pid = 0
  BY <1>1 DEF IInv, Typed, FinishTest, JobRecord
<1>9. Started' /\ DoneWhenFreed' /\ InterruptKills'
  BY <1>1, <1>2, <1>3 DEF IInv, Started, DoneWhenFreed, InterruptKills, Forking, Running
<1>10. Entered'
  BY <1>1, <1>2, <1>3, <1>7 DEF IInv, Entered, Forking
<1>11. JobsMatch'
  BY <1>1, <1>2, <1>7, <1>8 DEF IInv, JobsMatch, Forking
<1>12. Busy' = Busy \ {slot} /\ slot \in Busy
  BY <1>1, <1>2, <1>7, <1>8 DEF Busy, Forking
<1>13. IsFiniteSet(Busy)
  BY SlotsFinite, FS_Subset DEF Busy
<1>14. BusyCounted'
  BY <1>3, <1>12, <1>13, FS_RemoveElement DEF IInv, BusyCounted
<1> QED
  BY <1>4, <1>6, <1>9, <1>10, <1>11, <1>14 DEF IInv

LEMMA ReportIInv == ASSUME IInv, Report PROVE IInv'
<1>1. UNCHANGED <<ending, process, job, test_case, running_tests, at, slot, frames>>
  BY DEF Report, testVars, signalVars, loopVars
<1>2. HandlersSettle'
  BY <1>1, NoHandler DEF IInv, Report
<1>3. Typed'
  BY <1>1 DEF IInv, Typed
<1>4. InterruptKills'
  BY DEF Report, InterruptKills
<1> QED
  BY <1>1, <1>2, <1>3, <1>4, TableSame DEF IInv

-----------------------------------------------------------------------------

LEMMA EndTestIInv == ASSUME IInv, NEW t \in Tests, EndTest(t) PROVE IInv'
<1>1. /\ process[t] \in {"alive", "killed"}
      /\ process' = [process EXCEPT ![t] = "zombie"]
      /\ process' \in [Tests -> {"none", "alive", "killed", "zombie", "reaped"}]
  BY DEF EndTest, IInv, Typed
<1>2. UNCHANGED <<job, test_case, running_tests, at, slot, frames, outcome>>
  BY DEF EndTest, loopVars
<1>3. \A u \in Tests :
        /\ process'[u] = "none" <=> process[u] = "none"
        /\ process'[u] \in Live => process[u] \in Live
        /\ process'[u] = "alive" => process[u] = "alive"
  BY <1>1 DEF IInv, Typed, Live
<1>4. Typed'
  <2>1. Killed \in AnyEnding /\ Endings \subseteq AnyEnding
    BY ParametersAssumption DEF Killed, AnyEnding
  <2>2. PICK e \in AnyEnding : ending' = [ending EXCEPT ![t] = e]
    BY <2>1 DEF EndTest
  <2>3. ending' \in [Tests -> AnyEnding]
    BY <2>2 DEF IInv, Typed
  <2> QED
    BY <1>1, <1>2, <2>3 DEF IInv, Typed
<1>5. Started'
  BY <1>2, <1>3 DEF IInv, Started, Forking
<1>6. Entered'
  <2>1. at = "stored" => test_case \in Tests
    BY SlotsFinite DEF IInv, Typed, JobsMatch, Forking, Tests
  <2> QED
    BY <1>2, <1>3, <2>1 DEF IInv, Entered, Forking
<1>7. JobsMatch' /\ DoneWhenFreed'
  BY <1>2 DEF IInv, JobsMatch, DoneWhenFreed, Forking
<1>8. Busy' = Busy
  BY <1>2 DEF Busy, Forking
<1>9. BusyCounted'
  BY <1>2, <1>8 DEF IInv, BusyCounted
<1>10. HandlersSettle'
  BY <1>2, <1>3, SettledStays DEF IInv
<1>11. InterruptKills'
  BY <1>2, <1>3 DEF IInv, InterruptKills
<1> QED
  BY <1>4, <1>5, <1>6, <1>7, <1>9, <1>10, <1>11 DEF IInv

LEMMA InterruptIInv == ASSUME IInv, Interrupt PROVE IInv'
<1>1. UNCHANGED <<ending, process, job, test_case, running_tests, at, slot, frames, outcome>>
  BY DEF Interrupt, testVars, loopVars
<1>2. HandlersSettle' /\ InterruptKills'
  BY <1>1 DEF IInv, HandlersSettle, HandlerSettles, Settled, InterruptKills
<1>3. Typed'
  BY <1>1 DEF IInv, Typed
<1> QED
  BY <1>1, <1>2, <1>3, TableSame DEF IInv

LEMMA DeliverIInv == ASSUME IInv, NEW signal \in {"CHLD", "INT"}, Deliver(signal) PROVE IInv'
<1> DEFINE f == [signal |-> signal, slot |-> 1, pid |-> 0,
                 part |-> IF signal = "CHLD" \/ NoTests THEN "collect" ELSE "check"]
<1>1. /\ UNCHANGED <<ending, process, job, test_case, running_tests, at, slot, outcome>>
      /\ frames' = Append(frames, f) /\ outcome = "running"
  BY DEF Deliver, testVars, loopVars
<1>2. f \in AnyFrame
  BY DEF AnyFrame
<1>3. Typed'
  BY <1>1, <1>2 DEF IInv, Typed
<1>4. \A g : HandlerSettles(g)' <=> HandlerSettles(g)
  BY <1>1 DEF HandlerSettles, Settled
<1>5. HandlerSettles(f)
  <2>1. CASE f.part = "check"
    BY <2>1 DEF HandlerSettles, Slots
  <2>2. CASE f.part = "collect" /\ f.signal = "INT"
    <3>1. test_case = 1 /\ ~ Forking
      BY <2>2 DEF NoTests, Forking
    <3>2. \A t \in Tests : process[t] # "alive"
      BY <3>1 DEF IInv, Started, Tests
    <3>3. \A i \in Slots : job[i].pid # 0 => job[i].pid \in Tests
      BY SlotsFinite DEF IInv, Typed, JobRecord, Tests
    <3> QED
      BY <2>2, <3>2, <3>3 DEF HandlerSettles, Settled
  <2> QED
    BY <2>1, <2>2 DEF HandlerSettles
<1>6. HandlersSettle'
  <2>1. \A k \in DOMAIN frames' : frames'[k] = f \/ (k \in DOMAIN frames /\ frames'[k] = frames[k])
    BY <1>1, <1>2 DEF IInv, Typed
  <2> QED
    BY <1>4, <1>5, <2>1 DEF IInv, HandlersSettle
<1>7. InterruptKills'
  BY <1>1 DEF InterruptKills
<1> QED
  BY <1>1, <1>3, <1>6, <1>7, TableSame DEF IInv

LEMMA ReapIInv == ASSUME IInv, NEW t \in Tests, Reap(t) PROVE IInv'
<1>1. /\ process[t] = "zombie" /\ outcome = "running" /\ outcome' # "interrupted" /\ t # 0
      /\ process' = [process EXCEPT ![t] = "reaped"]
      /\ process' \in [Tests -> {"none", "alive", "killed", "zombie", "reaped"}]
  <2>1. process[t] = "zombie" /\ outcome = "running" /\ process' = [process EXCEPT ![t] = "reaped"]
    BY DEF Reap, InHandler
  <2>2. outcome' \in {"crashed", outcome}
    BY DEF Reap
  <2>3. t # 0
    BY DEF Tests
  <2>4. process' \in [Tests -> {"none", "alive", "killed", "zombie", "reaped"}]
    BY <2>1 DEF IInv, Typed
  <2> QED
    BY <2>1, <2>2, <2>3, <2>4
<1>2. UNCHANGED <<ending, test_case, running_tests, at, slot, frames>>
  BY DEF Reap, loopVars
<1>3. \A u \in Tests :
        /\ process'[u] = "none" <=> process[u] = "none"
        /\ process'[u] \in Live => process[u] \in Live /\ u # t
        /\ process'[u] = "alive" => process[u] = "alive"
  BY <1>1 DEF IInv, Typed, Live
<1>4. \A i \in Slots : job[i].pid # t => job'[i] = job[i]
  BY DEF Reap
<1>5. \A i \in Slots : job[i].pid = t =>
        job[i].status = "running" /\ job'[i] = [job[i] EXCEPT !.exit = ending[t].exit, !.pid = 0, !.status = "exited"]
  BY <1>1 DEF Reap, IInv, JobsMatch
<1>6. \A i \in Slots : job[i] \in JobRecord
  BY DEF IInv, Typed
<1>7. \A i \in Slots : job[i].pid = t => job'[i] \in JobRecord /\ job'[i].pid = 0 /\ job'[i].status = "exited"
  <2>1. ending[t].exit \in Nat /\ 0 \in 0..NumTests
    BY SlotsFinite DEF IInv, Typed, AnyEnding
  <2>2. TAKE i \in Slots
  <2>3. HAVE job[i].pid = t
  <2>4. PICK j \in JobRecord : j = job[i]
    BY <1>6
  <2>5. PICK e \in Nat : e = ending[t].exit
    BY <2>1
  <2>6. job'[i] = [j EXCEPT !.exit = e, !.pid = 0, !.status = "exited"]
    BY <1>5, <2>3, <2>4, <2>5
  <2> QED
    BY <2>1, <2>6 DEF JobRecord
<1>8. Typed'
  <2>1. job' \in [Slots -> JobRecord]
    <3>1. DOMAIN job' = Slots /\ job' = [i \in Slots |-> job'[i]]
      BY DEF Reap
    <3> QED
      BY <3>1, <1>4, <1>6, <1>7
  <2> QED
    BY <1>1, <1>2, <2>1 DEF IInv, Typed
<1>9. Started'
  BY <1>2, <1>3 DEF IInv, Started, Forking
<1>10. Entered'
  <2>1. at = "stored" => test_case \in Tests
    BY SlotsFinite DEF IInv, Typed, JobsMatch, Forking, Tests
  <2>2. slot \in Slots
    BY DEF IInv, Typed
  <2>3. ASSUME NEW u \in Tests, u < test_case, process'[u] \in Live
        PROVE  \E i \in Slots : job'[i].pid = u /\ job'[i].status = "running" /\ (Forking => i # slot)
    <3>1. process[u] \in Live /\ u # t
      BY <1>3, <2>3
    <3>2. PICK i \in Slots : job[i].pid = u /\ job[i].status = "running" /\ (Forking => i # slot)
      BY <2>3, <3>1 DEF IInv, Entered
    <3> QED
      BY <1>4, <3>1, <3>2
  <2>4. ASSUME at = "stored", process'[test_case] \in Live
        PROVE  job'[slot].pid = test_case /\ job'[slot].status = "running"
    <3>1. process[test_case] \in Live /\ test_case # t
      BY <1>3, <2>1, <2>4
    <3>2. job[slot].pid = test_case /\ job[slot].status = "running"
      BY <2>4, <3>1 DEF IInv, Entered
    <3> QED
      BY <1>4, <2>2, <3>1, <3>2
  <2> QED
    BY <1>2, <2>3, <2>4 DEF Entered, Forking
<1>11. JobsMatch'
  <2>1. slot \in Slots
    BY DEF IInv, Typed
  <2> QED
    BY <1>1, <1>2, <1>4, <1>7, <2>1 DEF IInv, JobsMatch, Forking
<1>12. DoneWhenFreed'
  <2>1. \A i \in Slots : job[i].status = "idle" => job'[i] = job[i]
    BY <1>4, <1>5
  <2> QED
    BY <1>2, <2>1 DEF IInv, DoneWhenFreed
<1>13. Busy' = Busy
  BY <1>2, <1>4, <1>5, <1>7 DEF Busy, Forking
<1>14. BusyCounted'
  BY <1>2, <1>13 DEF IInv, BusyCounted
<1>15. HandlersSettle'
  BY <1>2, <1>3, <1>4, <1>7, SettledStays DEF IInv
<1>16. InterruptKills'
  BY <1>1 DEF InterruptKills
<1> QED
  BY <1>8, <1>9, <1>10, <1>11, <1>12, <1>14, <1>15, <1>16 DEF IInv

\* What a handler works on.
LEMMA TopFrame ==
  ASSUME Typed, frames # <<>>
  PROVE  /\ Len(frames) \in DOMAIN frames /\ DOMAIN frames = 1..Len(frames)
         /\ Top \in AnyFrame
BY DEF Typed, Top

\* When SIGINT has been handled, a process that is left is not in the table.
LEMMA EndCollectIInv == ASSUME IInv, EndCollect PROVE IInv'
<1>1. /\ UNCHANGED <<ending, process, job, test_case, running_tests, at, slot>>
      /\ outcome = "running" /\ frames # <<>> /\ Top.part = "collect"
  BY DEF EndCollect, InHandler, testVars, loopVars
<1>2. \A f : HandlerSettles(f)' <=> HandlerSettles(f)
  BY <1>1 DEF HandlerSettles, Settled
<1>3. CASE Top.signal = "CHLD"
  <2>1. frames' = SubSeq(frames, 1, Len(frames) - 1) /\ outcome' = outcome
    BY <1>3 DEF EndCollect
  <2>2. frames' \in Seq(AnyFrame) /\ \A k \in DOMAIN frames' : k \in DOMAIN frames /\ frames'[k] = frames[k]
    BY <1>1, <2>1 DEF IInv, Typed
  <2>3. Typed' /\ HandlersSettle' /\ InterruptKills'
    BY <1>1, <1>2, <2>1, <2>2 DEF IInv, Typed, HandlersSettle, InterruptKills
  <2> QED
    BY <1>1, <2>3, TableSame DEF IInv
<1>4. CASE Top.signal # "CHLD"
  <2>1. UNCHANGED frames
    BY <1>4 DEF EndCollect
  <2>2. Typed' /\ HandlersSettle'
    BY <1>1, <1>2, <2>1 DEF IInv, Typed, HandlersSettle
  <2>3. \A i \in Slots : Settled(i)
    <3>1. Top.signal = "INT" /\ HandlerSettles(Top)
      BY <1>1, <1>4, TopFrame DEF IInv, HandlersSettle, Top, AnyFrame
    <3> QED
      BY <1>1, <3>1 DEF HandlerSettles
  <2>4. ASSUME NEW t \in Tests, process[t] = "alive" PROVE at = "fork" /\ t = test_case
    <3>1. t # 0 /\ process[t] \in Live
      BY <2>4 DEF Tests, Live
    <3>2. ~ \E i \in Slots : job[i].pid = t /\ job[i].status = "running"
      BY <2>3, <2>4, <3>1 DEF Settled
    <3>3. t = test_case /\ Forking
      BY <2>4, <3>1, <3>2 DEF IInv, Started, Entered
    <3>4. at # "stored"
      BY <3>1, <3>2, <3>3 DEF IInv, Typed, Entered
    <3> QED
      BY <3>3, <3>4 DEF Forking
  <2>5. InterruptKills'
    BY <1>1, <2>4 DEF InterruptKills
  <2> QED
    BY <1>1, <2>2, <2>5, TableSame DEF IInv
<1> QED
  BY <1>3, <1>4

LEMMA KillCheckIInv == ASSUME IInv, KillCheck PROVE IInv'
<1>1. /\ UNCHANGED <<ending, process, job, test_case, running_tests, at, slot>>
      /\ outcome = "running" /\ frames # <<>> /\ Top.part = "check" /\ outcome' # "interrupted"
  BY DEF KillCheck, InHandler, testVars, loopVars
<1>2. \A f : HandlerSettles(f)' <=> HandlerSettles(f)
  BY <1>1 DEF HandlerSettles, Settled
<1>3. Top \in AnyFrame /\ HandlerSettles(Top) /\ Jobs \in Nat
  BY <1>1, TopFrame, SlotsFinite DEF IInv, HandlersSettle, Top
<1>4. PICK f \in AnyFrame : HandlerSettles(f) /\ frames' = [frames EXCEPT ![Len(frames)] = f]
  <2>1. CASE UNCHANGED frames
    BY <1>1, <1>3, <2>1, TopFrame DEF IInv, Typed, Top
  <2>2. CASE Top.slot > Jobs /\ SetTop([Top EXCEPT !.part = "collect", !.slot = 0])
    <3> DEFINE f == [Top EXCEPT !.part = "collect", !.slot = 0]
    <3>1. f \in AnyFrame /\ f.signal = Top.signal /\ f.part = "collect"
      BY <1>3 DEF AnyFrame
    <3>2. \A i \in Slots : i < Top.slot
      BY <1>3, <2>2 DEF Slots, AnyFrame
    <3>3. HandlerSettles(f)
      BY <1>1, <1>3, <3>1, <3>2 DEF HandlerSettles
    <3> QED
      BY <2>2, <3>1, <3>3 DEF SetTop
  <2>3. CASE /\ ~ (Top.slot > Jobs) /\ job[Top.slot].pid # 0
             /\ SetTop([Top EXCEPT !.part = "kill", !.pid = job[Top.slot].pid])
    <3> DEFINE f == [Top EXCEPT !.part = "kill", !.pid = job[Top.slot].pid]
    <3>0. Top.slot \in Slots
      BY <1>1, <1>3, <2>3 DEF HandlerSettles, AnyFrame, Slots
    <3>1. /\ f \in AnyFrame /\ f.signal = Top.signal /\ f.part = "kill"
          /\ f.slot = Top.slot /\ f.pid = job[Top.slot].pid
      <4>1. job[Top.slot].pid \in Nat
        BY <3>0, SlotsFinite DEF IInv, Typed, JobRecord
      <4> QED
        BY <1>3, <4>1 DEF AnyFrame
    <3>2. HandlerSettles(f)
      BY <1>1, <1>3, <2>3, <3>0, <3>1 DEF HandlerSettles
    <3> QED
      BY <2>3, <3>1, <3>2 DEF SetTop
  <2>4. CASE /\ ~ (Top.slot > Jobs)
             /\ ~ (job[Top.slot].pid # 0 /\ job[Top.slot].status = "running")
             /\ SetTop([Top EXCEPT !.slot = @ + 1])
    <3> DEFINE f == [Top EXCEPT !.slot = Top.slot + 1]
    <3>1. f \in AnyFrame /\ f.signal = Top.signal /\ f.part = "check" /\ f.slot = Top.slot + 1
      BY <1>1, <1>3 DEF AnyFrame
    <3>2. \A i \in Slots : i < f.slot => i < Top.slot \/ Settled(i)
      BY <1>3, <2>4, <3>1 DEF Slots, AnyFrame, Settled
    <3>3. Top.signal = "INT" => \A i \in Slots : i < Top.slot => Settled(i)
      BY <1>1, <1>3 DEF HandlerSettles
    <3>4. f.slot # 0
      BY <1>3, <3>1 DEF AnyFrame
    <3>5. HandlerSettles(f)
      <4> HIDE DEF f
      <4> QED
        BY <3>1, <3>2, <3>3, <3>4 DEF HandlerSettles
    <3> QED
      BY <2>4, <3>1, <3>5 DEF SetTop
  <2> QED
    BY <2>1, <2>2, <2>3, <2>4 DEF KillCheck
<1>5. frames' \in Seq(AnyFrame) /\ DOMAIN frames' = DOMAIN frames
      /\ \A k \in DOMAIN frames : frames'[k] = f \/ frames'[k] = frames[k]
  BY <1>1, <1>4, TopFrame DEF IInv, Typed
<1>6. Typed' /\ InterruptKills'
  BY <1>1, <1>5 DEF IInv, Typed, InterruptKills
<1>7. HandlersSettle'
  BY <1>2, <1>4, <1>5 DEF IInv, HandlersSettle
<1> QED
  BY <1>1, <1>6, <1>7, TableSame DEF IInv

LEMMA KillIInv == ASSUME IInv, Kill PROVE IInv'
<1>1. /\ UNCHANGED <<ending, job, test_case, running_tests, at, slot>>
      /\ outcome = "running" /\ frames # <<>> /\ Top.part = "kill"
  BY DEF Kill, InHandler, loopVars
<1>2. PICK pid \in {Top.pid, job[Top.slot].pid} :
        /\ process' = [t \in Tests |-> IF pid \in {0, t} /\ process[t] = "alive" THEN "killed" ELSE process[t]]
        /\ outcome' = IF pid = 0 THEN "group killed" ELSE outcome
  BY DEF Kill
<1>3. \A u \in Tests :
        /\ process'[u] = "none" <=> process[u] = "none"
        /\ process'[u] \in Live <=> process[u] \in Live
        /\ process'[u] = "alive" => process[u] = "alive" /\ pid # u /\ pid # 0
  BY <1>2 DEF Live
<1>4. process' \in [Tests -> {"none", "alive", "killed", "zombie", "reaped"}]
  BY <1>2 DEF IInv, Typed
<1>5. Top \in AnyFrame /\ HandlerSettles(Top) /\ Jobs \in Nat
  BY <1>1, TopFrame, SlotsFinite DEF IInv, HandlersSettle, Top
<1>6. \A i \in Slots : job[i].pid # 0 => job[i].pid \in Tests
  BY SlotsFinite DEF IInv, Typed, JobRecord, Tests
<1>7. \A i \in Slots : Settled(i) => Settled(i)'
  BY <1>1, <1>3, <1>6 DEF Settled
<1>8. PICK top \in AnyFrame : top = Top
  BY <1>5
<1>9. /\ top.slot \in Slots /\ job[top.slot].pid \in {0, top.pid}
      /\ top.signal = "INT" => \A i \in Slots : i < top.slot => Settled(i)
  BY <1>1, <1>5, <1>8 DEF HandlerSettles
<1> DEFINE f == [top EXCEPT !.part = "check", !.slot = top.slot + 1, !.pid = 0]
<1>10. f \in AnyFrame /\ f.signal = top.signal /\ f.part = "check" /\ f.slot = top.slot + 1
  <2>1. PICK n \in Nat : n = top.slot + 1
    BY <1>8 DEF AnyFrame
  <2>2. f = [top EXCEPT !.part = "check", !.slot = n, !.pid = 0]
    BY <2>1
  <2> HIDE DEF f
  <2>3. f \in AnyFrame /\ f.signal = top.signal /\ f.part = "check" /\ f.slot = n
    BY <2>2 DEF AnyFrame
  <2> QED
    BY <2>1, <2>3
<1>11. HandlerSettles(f)'
  <2>1. Settled(top.slot)'
    BY <1>1, <1>2, <1>3, <1>6, <1>8, <1>9 DEF Settled
  <2>2. f.slot # 0 /\ \A i \in Slots : i < f.slot => i < top.slot \/ i = top.slot
    BY <1>5, <1>8, <1>10 DEF Slots, AnyFrame
  <2>3. f.signal = "INT" => \A i \in Slots : i < f.slot => Settled(i)'
    BY <1>7, <1>9, <1>10, <2>1, <2>2
  <2> HIDE DEF f
  <2> QED
    BY <1>10, <2>2, <2>3 DEF HandlerSettles
<1>12. \A g : HandlerSettles(g) => HandlerSettles(g)'
  BY <1>1, <1>7 DEF HandlerSettles
<1>13. /\ frames' = [frames EXCEPT ![Len(frames)] = f] /\ frames' \in Seq(AnyFrame)
       /\ DOMAIN frames' = DOMAIN frames
       /\ \A k \in DOMAIN frames : frames'[k] = f \/ frames'[k] = frames[k]
  <2>1. frames' = [frames EXCEPT ![Len(frames)] = f]
    BY <1>8 DEF Kill, SetTop
  <2> HIDE DEF f
  <2> QED
    BY <1>1, <1>10, <2>1, TopFrame DEF IInv, Typed
<1>14. HandlersSettle'
  BY <1>11, <1>12, <1>13 DEF IInv, HandlersSettle
<1>15. Typed' /\ InterruptKills'
  BY <1>1, <1>2, <1>4, <1>13 DEF IInv, Typed, InterruptKills
<1>16. Busy' = Busy
  BY <1>1 DEF Busy, Forking
<1>17. Started' /\ JobsMatch' /\ BusyCounted' /\ DoneWhenFreed'
  BY <1>1, <1>3, <1>16 DEF IInv, Started, JobsMatch, BusyCounted, DoneWhenFreed, Forking
<1>18. Entered'
  <2>1. at = "stored" => test_case \in Tests
    BY SlotsFinite DEF IInv, Typed, JobsMatch, Forking, Tests
  <2> QED
    BY <1>1, <1>3, <2>1 DEF IInv, Entered, Forking
<1> QED
  BY <1>14, <1>15, <1>17, <1>18 DEF IInv

-----------------------------------------------------------------------------

LEMMA StepIInv == ASSUME IInv, Next PROVE IInv'
<1>1. CASE Main
  BY <1>1, LoopIInv, StartIInv, StorePidIInv, ForkedIInv, SkipSlotIInv, FinishTestIInv, ReportIInv DEF Main
<1>2. CASE Handler
  BY <1>2, ReapIInv, EndCollectIInv, KillCheckIInv, KillIInv DEF Handler
<1>3. CASE Interrupt
  BY <1>3, InterruptIInv
<1>4. CASE \E signal \in {"CHLD", "INT"} : Deliver(signal)
  BY <1>4, DeliverIInv
<1>5. CASE \E t \in Tests : EndTest(t)
  BY <1>5, EndTestIInv
<1> QED
  BY <1>1, <1>2, <1>3, <1>4, <1>5 DEF Next

LEMMA StutterIInv == ASSUME IInv, UNCHANGED vars PROVE IInv'
<1>1. UNCHANGED <<ending, process, job, test_case, running_tests, at, slot, frames, outcome>>
  BY DEF vars
<1>2. Typed' /\ HandlersSettle' /\ InterruptKills'
  BY <1>1 DEF IInv, Typed, HandlersSettle, HandlerSettles, Settled, InterruptKills
<1> QED
  BY <1>1, <1>2, TableSame DEF IInv

LEMMA Invariant == Spec => []IInv
<1>1. IInv /\ [Next]_vars => IInv'
  BY StepIInv, StutterIInv
<1> QED
  BY InitIInv, <1>1, PTL DEF Spec

LEMMA IInvImpliesNoTestLeftBehind == IInv => NoTestLeftBehind
<1> SUFFICES ASSUME IInv PROVE NoTestLeftBehind
  OBVIOUS
<1>1. ASSUME at = "freed", NEW t \in Tests PROVE process[t] = "reaped"
  <2>1. t < test_case /\ process[t] # "none"
    <3>1. test_case \in Nat /\ test_case > NumTests /\ NumTests \in Nat
      BY <1>1, SlotsFinite DEF IInv, Typed, DoneWhenFreed
    <3>2. t < test_case
      BY <3>1 DEF Tests
    <3> QED
      BY <3>2 DEF IInv, Started
  <2>2. process[t] \notin Live
    BY <1>1, <2>1 DEF IInv, Entered, DoneWhenFreed
  <2> QED
    BY <2>1, <2>2 DEF IInv, Typed, Live
<1> QED
  BY <1>1 DEF NoTestLeftBehind, IInv, InterruptKills

\* For any number of tests and jobs and every interleaving with the signals,
\* the table of jobs is freed only when all processes are reaped, and after
\* an interrupt no process runs but one that was not yet in the table.
THEOREM NoTestStaysBehind == Spec => []NoTestLeftBehind
<1> QED
  BY Invariant, IInvImpliesNoTestLeftBehind, PTL

-----------------------------------------------------------------------------
(***************************************************************************)
(* The report: whatever the interleaving of the runner with the ends of    *)
(* the tests and the signals, what is reported of a test is what its own   *)
(* process did.                                                            *)
(***************************************************************************)
InTable(t) == \E i \in Slots : job[i].test = t

\* A job is of the test that it has, and has its pid if any.
JobOfTest(i) ==
  /\ job[i].status = "idle" <=> job[i].test = 0
  /\ job[i].pid # 0 => job[i].pid = job[i].test
  /\ job[i].test # 0 => process[job[i].test] # "none"
  /\ job[i].status = "exited" =>
       process[job[i].test] = "reaped" /\ job[i].exit = ending[job[i].test].exit

Table ==
  /\ \A i \in Slots : JobOfTest(i)
  /\ \A i, j \in Slots : job[i].test = job[j].test /\ job[i].test # 0 => i = j
  /\ \A t \in Tests : process[t] \in Live => InTable(t)
  /\ Forking => job[slot].test = test_case

\* What a test has sent stays in its pipe until it is taken for the result.
Taken(t) == process[t] = "reaped" /\ ~ InTable(t)

Sent(t) == IF process[t] \in {"zombie", "reaped"} THEN ending[t].sent ELSE "none"

ResultOfTest(t) ==
  IF Taken(t) THEN result[t] = Verdict(ending[t])
  ELSE result[t] = "undone" /\ sent[t] = Sent(t)

ResultsRight ==
  /\ sent \in [Tests -> {"none", "undone", "success", "failed"}]
  /\ result \in [Tests -> Results]
  /\ \A t \in Tests : ResultOfTest(t)

WithResult(r) == {t \in Tests : result[t] = r}

CountsRight == counts \in [Results -> Nat] /\ \A r \in Results : counts[r] = Cardinality(WithResult(r))

OutcomeRight ==
  /\ outcome = "success" => at = "freed" /\ \A t \in Tests : Verdict(ending[t]) \in {"success", "undone"}
  /\ outcome = "failure" => at = "freed" /\ \E t \in Tests : Verdict(ending[t]) \in {"failed", "error"}

RInv == Table /\ ResultsRight /\ CountsRight /\ OutcomeRight

-----------------------------------------------------------------------------

LEMMA TestsFinite == IsFiniteSet(Tests) /\ NumTests \in Nat /\ Cardinality(Tests) = NumTests
<1>1. NumTests \in Nat
  BY ParametersAssumption
<1>2. IsFiniteSet(1..NumTests) /\ Cardinality(1..NumTests) = NumTests
  BY <1>1, FS_Interval
<1> QED
  BY <1>1, <1>2 DEF Tests

LEMMA InitRInv == Init => RInv
<1> SUFFICES ASSUME Init PROVE RInv
  OBVIOUS
<1>1. Table
  BY DEF Init, Table, JobOfTest, IdleJob, Live, Forking
<1>2. ResultsRight
  BY DEF Init, ResultsRight, ResultOfTest, Taken, Sent, Results
<1>3. CountsRight
  <2>1. WithResult("undone") = Tests /\ \A r \in Results : r # "undone" => WithResult(r) = {}
    BY DEF Init, WithResult
  <2>2. counts \in [Results -> Nat]
    BY TestsFinite DEF Init
  <2>3. \A r \in Results : counts[r] = IF r = "undone" THEN NumTests ELSE 0
    BY DEF Init
  <2> QED
    BY <2>1, <2>2, <2>3, TestsFinite, FS_EmptySet DEF CountsRight
<1>4. OutcomeRight
  BY DEF Init, OutcomeRight
<1> QED
  BY <1>1, <1>2, <1>3, <1>4 DEF RInv

\* A step of the runner or of a handler that leaves the table and the
\* processes alone, and does not report.
LEMMA QuietStep ==
  ASSUME RInv, UNCHANGED <<testVars, job, result, counts>>,
         Forking' => Forking /\ slot' = slot /\ test_case' = test_case,
         outcome' \notin {"success", "failure"}
  PROVE  RInv'
<1>1. UNCHANGED <<ending, process, sent>>
  BY DEF testVars
<1>2. \A t : InTable(t)' <=> InTable(t)
  BY DEF InTable
<1>3. \A i \in Slots : JobOfTest(i) => JobOfTest(i)'
  BY <1>1 DEF JobOfTest
<1>4. Table'
  BY <1>1, <1>2, <1>3 DEF RInv, Table, Forking
<1>5. \A t \in Tests : ResultOfTest(t) => ResultOfTest(t)'
  BY <1>1, <1>2 DEF ResultOfTest, Taken, Sent
<1>6. ResultsRight'
  BY <1>1, <1>5 DEF RInv, ResultsRight
<1>7. CountsRight'
  BY DEF RInv, CountsRight, WithResult
<1> QED
  BY <1>4, <1>6, <1>7 DEF RInv, OutcomeRight

LEMMA QuietSteps ==
  ASSUME IInv, RInv,
         \/ Loop \/ Forked \/ SkipSlot \/ EndCollect \/ KillCheck \/ Interrupt
         \/ \E signal \in {"CHLD", "INT"} : Deliver(signal)
  PROVE  RInv'
<1>1. CASE Loop \/ SkipSlot
  <2>1. slot \in Slots
    BY DEF IInv, Typed
  <2>2. at' \in {"loop", "slot", "freed"}
    BY <1>1, <2>1, NextSlotInSlots DEF Loop, SkipSlot
  <2>3. UNCHANGED <<testVars, job, result, counts>> /\ outcome' \notin {"success", "failure"}
    BY <1>1 DEF Loop, SkipSlot, AtSlot, Running
  <2> QED
    BY <2>2, <2>3, QuietStep DEF Forking
<1>2. CASE Forked
  <2>1. slot \in Slots /\ at = "stored"
    BY <1>2 DEF IInv, Typed, Forked
  <2>2. UNCHANGED <<testVars, job, result, counts>> /\ outcome' \notin {"success", "failure"}
    BY <1>2 DEF Forked, loopVars, Running
  <2>3. UNCHANGED <<at, slot, test_case>> \/ NextSlot
    BY <1>2 DEF Forked, loopVars
  <2>4. CASE UNCHANGED <<at, slot, test_case>>
    BY <2>2, <2>4, QuietStep DEF Forking
  <2>5. CASE NextSlot
    <3>1. ~ Forking'
      BY <2>1, <2>5, NextSlotInSlots DEF Forking
    <3> QED
      BY <2>2, <3>1, QuietStep
  <2> QED
    BY <2>3, <2>4, <2>5
<1>3. CASE EndCollect \/ KillCheck \/ Interrupt \/ \E signal \in {"CHLD", "INT"} : Deliver(signal)
  <2>1. UNCHANGED <<testVars, job, loopVars>> /\ outcome' \notin {"success", "failure"}
    BY <1>3 DEF EndCollect, KillCheck, Interrupt, Deliver, InHandler
  <2>2. UNCHANGED <<result, counts, at, slot, test_case>>
    BY <2>1 DEF loopVars
  <2> QED
    BY <2>1, <2>2, QuietStep DEF Forking
<1> QED
  BY <1>1, <1>2, <1>3

LEMMA VerdictIsResult ==
  ASSUME NEW e \in AnyEnding
  PROVE  Verdict(e) \in Results
BY DEF Verdict, AnyEnding, Results

\* Once the table is freed every result is there, so the counts say what to report.
LEMMA ReportRInv == ASSUME IInv, RInv, Report PROVE RInv'
<1>1. /\ at = "freed" /\ UNCHANGED <<ending, process, sent, job, test_case, result, counts, at, slot>>
      /\ outcome' = IF counts["failed"] + counts["error"] = 0 THEN "success" ELSE "failure"
  BY DEF Report, testVars, loopVars
<1>2. Table' /\ ResultsRight' /\ CountsRight'
  BY <1>1 DEF RInv, Table, JobOfTest, InTable, Forking, ResultsRight, ResultOfTest, Taken, Sent,
              CountsRight, WithResult
<1>3. \A t \in Tests : result[t] = Verdict(ending[t])
  <2> TAKE t \in Tests
  <2>1. process[t] = "reaped"
    BY <1>1, IInvImpliesNoTestLeftBehind DEF NoTestLeftBehind
  <2>2. \A i \in Slots : job[i].test = 0
    BY <1>1 DEF IInv, DoneWhenFreed, RInv, Table, JobOfTest
  <2>3. ~ InTable(t)
    BY <2>2 DEF InTable, Tests
  <2> QED
    BY <2>1, <2>3 DEF RInv, ResultsRight, ResultOfTest, Taken
<1>4. counts["failed"] \in Nat /\ counts["error"] \in Nat
  BY DEF RInv, CountsRight, Results
<1>5. \A r \in Results : counts[r] = 0 <=> WithResult(r) = {}
  <2> TAKE r \in Results
  <2>1. IsFiniteSet(WithResult(r))
    BY TestsFinite, FS_Subset DEF WithResult
  <2> QED
    BY <2>1, FS_EmptySet DEF RInv, CountsRight
<1>6. outcome' = "success" => \A t \in Tests : Verdict(ending[t]) \in {"success", "undone"}
  <2> SUFFICES ASSUME outcome' = "success", NEW t \in Tests
               PROVE  Verdict(ending[t]) \in {"success", "undone"}
    OBVIOUS
  <2>1. counts["failed"] = 0 /\ counts["error"] = 0
    BY <1>1, <1>4
  <2>2. result[t] \notin {"failed", "error"}
    BY <1>5, <2>1 DEF WithResult, Results
  <2>3. Verdict(ending[t]) \in Results
    BY VerdictIsResult DEF IInv, Typed
  <2> QED
    BY <1>3, <2>2, <2>3 DEF Results
<1>7. outcome' = "failure" => \E t \in Tests : Verdict(ending[t]) \in {"failed", "error"}
  <2> SUFFICES ASSUME outcome' = "failure"
               PROVE  \E t \in Tests : Verdict(ending[t]) \in {"failed", "error"}
    OBVIOUS
  <2>1. counts["failed"] # 0 \/ counts["error"] # 0
    BY <1>1
  <2>2. PICK t \in Tests : result[t] \in {"failed", "error"}
    BY <1>5, <2>1 DEF WithResult, Results
  <2> QED
    BY <1>3, <2>2
<1>8. OutcomeRight'
  BY <1>1, <1>6, <1>7 DEF OutcomeRight
<1> QED
  BY <1>2, <1>8 DEF RInv

\* A test that is started is new to the table.
LEMMA StartRInv == ASSUME IInv, RInv, Start PROVE RInv'
<1>1. /\ outcome = "running" /\ outcome' = outcome /\ at = "slot" /\ at' = "fork"
      /\ slot \in Slots /\ slot' = slot /\ test_case' = test_case
      /\ UNCHANGED <<ending, sent, result, counts>>
  BY DEF Start, AtSlot, Running, IInv, Typed
<1>2. test_case \in Tests /\ test_case # 0
  BY SlotsFinite DEF Start, IInv, Typed, Tests
<1>3. process[test_case] = "none" /\ job[slot].test = 0 /\ job[slot].pid = 0
  <2>1. process[test_case] = "none"
    <3>1. ~ Forking /\ ~ (test_case < test_case)
      BY <1>1, <1>2 DEF Forking, Tests
    <3> QED
      BY <1>2, <3>1 DEF IInv, Started
  <2>2. job[slot].status = "idle"
    BY DEF Start, AtSlot
  <2>3. job[slot].pid = 0
    BY <1>1, <2>2 DEF IInv, JobsMatch
  <2>4. job[slot].test = 0
    BY <1>1, <2>2 DEF RInv, Table, JobOfTest
  <2> QED
    BY <2>1, <2>3, <2>4
<1>4. /\ process'[test_case] = "alive"
      /\ \A t \in Tests : t # test_case => process'[t] = process[t]
  BY <1>2 DEF Start, IInv, Typed
<1>5. /\ job'[slot].test = test_case /\ job'[slot].status = "running" /\ job'[slot].pid = 0
      /\ \A i \in Slots : i # slot => job'[i] = job[i]
  <2> DEFINE new == [job[slot] EXCEPT !.test = test_case, !.status = "running"]
  <2>1. job[slot] \in JobRecord /\ job \in [Slots -> JobRecord]
    BY <1>1 DEF IInv, Typed
  <2>2. job' = [job EXCEPT ![slot] = new]
    BY DEF Start
  <2>3. new.test = test_case /\ new.status = "running" /\ new.pid = 0
    BY <1>3, <2>1 DEF JobRecord
  <2> HIDE DEF new
  <2> QED
    BY <1>1, <2>1, <2>2, <2>3
<1>6. \A i \in Slots : job[i].test # test_case
  BY <1>2, <1>3 DEF RInv, Table, JobOfTest
<1>7. /\ \A t \in Tests : t # test_case => (InTable(t)' <=> InTable(t))
      /\ InTable(test_case)'
  <2>1. \A t \in Tests : t # test_case => t # job'[slot].test /\ t # job[slot].test
    BY <1>3, <1>5 DEF Tests
  <2> QED
    BY <1>1, <1>5, <2>1 DEF InTable
<1>8. \A i \in Slots : JobOfTest(i)'
  <2> TAKE i \in Slots
  <2>1. CASE i = slot
    BY <1>2, <1>4, <1>5, <2>1 DEF JobOfTest
  <2>2. CASE i # slot
    <3>1. JobOfTest(i) /\ job[i].test # test_case /\ job'[i] = job[i]
      BY <1>5, <1>6, <2>2 DEF RInv, Table
    <3>2. job[i].test # 0 => job[i].test \in Tests
      BY SlotsFinite DEF IInv, Typed, JobRecord, Tests
    <3>3. job[i].status = "exited" => job[i].test # 0
      BY <3>1 DEF JobOfTest
    <3> QED
      BY <1>1, <1>4, <3>1, <3>2, <3>3 DEF JobOfTest
  <2> QED
    BY <2>1, <2>2
<1>9. Table'
  <2>1. \A i, j \in Slots : job'[i].test = job'[j].test /\ job'[i].test # 0 => i = j
    <3> TAKE i, j \in Slots
    <3>1. job[i].test = job[j].test /\ job[i].test # 0 => i = j
      BY DEF RInv, Table
    <3>2. CASE i = slot \/ j = slot
      BY <1>5, <1>6, <3>2
    <3>3. CASE i # slot /\ j # slot
      BY <1>5, <3>1, <3>3
    <3> QED
      BY <3>2, <3>3
  <2>2. \A t \in Tests : process'[t] \in Live => InTable(t)'
    <3> TAKE t \in Tests
    <3>1. process[t] \in Live => InTable(t)
      BY DEF RInv, Table
    <3>2. CASE t = test_case
      BY <1>1, <1>7, <3>2 DEF InTable
    <3>3. CASE t # test_case
      BY <1>4, <1>7, <3>1, <3>3
    <3> QED
      BY <3>2, <3>3
  <2> QED
    BY <1>1, <1>5, <1>8, <2>1, <2>2 DEF Table
<1>10. \A t \in Tests : ResultOfTest(t)'
  <2> TAKE t \in Tests
  <2>1. ResultOfTest(t)
    BY DEF RInv, ResultsRight
  <2>2. CASE t = test_case
    BY <1>1, <1>3, <1>4, <2>1, <2>2 DEF ResultOfTest, Taken, Sent
  <2>3. CASE t # test_case
    BY <1>1, <1>4, <1>7, <2>1, <2>3 DEF ResultOfTest, Taken, Sent
  <2> QED
    BY <2>2, <2>3
<1>11. ResultsRight' /\ CountsRight' /\ OutcomeRight'
  BY <1>1, <1>10 DEF RInv, ResultsRight, CountsRight, WithResult, OutcomeRight
<1> QED
  BY <1>9, <1>11 DEF RInv

\* A job gets the pid of the test that it has.
LEMMA StorePidRInv == ASSUME IInv, RInv, StorePid PROVE RInv'
<1>1. /\ outcome = "running" /\ outcome' = outcome /\ at = "fork" /\ at' = "stored"
      /\ slot \in Slots /\ slot' = slot /\ test_case' = test_case
      /\ UNCHANGED <<ending, process, sent, result, counts>>
  BY DEF StorePid, Running, testVars, IInv, Typed
<1>2. job[slot].test = test_case /\ job[slot].status = "running"
  BY <1>1 DEF RInv, Table, Forking, IInv, JobsMatch
<1>3. /\ job'[slot].test = job[slot].test /\ job'[slot].status = "running"
      /\ job'[slot].pid = test_case
      /\ \A i \in Slots : i # slot => job'[i] = job[i]
  <2> DEFINE new == [job[slot] EXCEPT !.pid = test_case]
  <2>1. job[slot] \in JobRecord /\ job \in [Slots -> JobRecord]
    BY <1>1 DEF IInv, Typed
  <2>2. job' = [job EXCEPT ![slot] = new]
    BY DEF StorePid
  <2>3. new.test = job[slot].test /\ new.status = "running" /\ new.pid = test_case
    BY <1>2, <2>1 DEF JobRecord
  <2> HIDE DEF new
  <2> QED
    BY <1>1, <2>1, <2>2, <2>3
<1>4. \A i \in Slots : job'[i].test = job[i].test
  BY <1>3
<1>5. \A t : InTable(t)' <=> InTable(t)
  BY <1>4 DEF InTable
<1>6. \A i \in Slots : JobOfTest(i)'
  <2> TAKE i \in Slots
  <2>1. JobOfTest(i)
    BY DEF RInv, Table
  <2>2. CASE i = slot
    BY <1>1, <1>2, <1>3, <2>1, <2>2 DEF JobOfTest
  <2>3. CASE i # slot
    BY <1>1, <1>3, <2>1, <2>3 DEF JobOfTest
  <2> QED
    BY <2>2, <2>3
<1>7. Table'
  BY <1>1, <1>2, <1>4, <1>5, <1>6 DEF RInv, Table
<1>8. ResultsRight' /\ CountsRight' /\ OutcomeRight'
  BY <1>1, <1>5 DEF RInv, ResultsRight, ResultOfTest, Taken, Sent, CountsRight, WithResult, OutcomeRight
<1> QED
  BY <1>7, <1>8 DEF RInv

\* The result that is taken is the verdict on what the process of the test did.
LEMMA FinishTestRInv == ASSUME IInv, RInv, FinishTest PROVE RInv'
<1>1. /\ outcome = "running" /\ outcome' = outcome /\ at = "slot" /\ slot \in Slots
      /\ job[slot].status = "exited" /\ UNCHANGED <<ending, process, test_case>>
      /\ at' \in {"loop", "slot"}
  BY NextSlotInSlots DEF FinishTest, AtSlot, Running, IInv, Typed
<1>2. PICK t \in Tests : /\ t = job[slot].test /\ t # 0 /\ process[t] = "reaped"
                         /\ job[slot].exit = ending[t].exit
  <2>1. job[slot].test \in 0..NumTests /\ NumTests \in Nat
    BY <1>1, SlotsFinite DEF IInv, Typed, JobRecord
  <2>2. JobOfTest(slot)
    BY <1>1 DEF RInv, Table
  <2> QED
    BY <1>1, <2>1, <2>2 DEF JobOfTest, Tests
<1>3. result[t] = "undone" /\ sent[t] = ending[t].sent
  <2>1. InTable(t) /\ ResultOfTest(t)
    BY <1>1, <1>2 DEF InTable, RInv, ResultsRight
  <2> QED
    BY <1>2, <2>1 DEF ResultOfTest, Taken, Sent
<1>4. PICK r \in Results : r = Collected(job[slot]) /\ r = Verdict(ending[t])
  <2>1. ending[t] \in AnyEnding
    BY <1>2 DEF IInv, Typed
  <2>2. ending[t].sent \in {"none", "undone", "success", "failed"}
    BY <2>1 DEF AnyEnding
  <2>3. Collected(job[slot]) = Verdict(ending[t])
    BY <1>2, <1>3, <2>2 DEF Collected, Verdict
  <2> QED
    BY <2>1, <2>3, VerdictIsResult
<1>5. /\ job'[slot].test = 0 /\ job'[slot].status = "idle" /\ job'[slot].pid = 0
      /\ \A i \in Slots : i # slot => job'[i] = job[i]
  <2> DEFINE new == [job[slot] EXCEPT !.test = 0, !.status = "idle"]
  <2>1. job[slot] \in JobRecord /\ job \in [Slots -> JobRecord] /\ job[slot].pid = 0
    BY <1>1 DEF IInv, Typed, JobsMatch
  <2>2. job' = [job EXCEPT ![slot] = new]
    BY DEF FinishTest
  <2>3. new.test = 0 /\ new.status = "idle" /\ new.pid = 0
    BY <2>1 DEF JobRecord
  <2> HIDE DEF new
  <2> QED
    BY <1>1, <2>1, <2>2, <2>3
<1>6. \A i \in Slots : i # slot => job[i].test # t
  BY <1>1, <1>2 DEF RInv, Table
<1>7. ~ InTable(t)' /\ \A u \in Tests : u # t => (InTable(u)' <=> InTable(u))
  <2>1. \A u \in Tests : u # 0
    BY DEF Tests
  <2>2. \A i \in Slots : job'[i].test # t
    BY <1>2, <1>5, <1>6
  <2> QED
    BY <1>1, <1>2, <1>5, <2>1, <2>2 DEF InTable
<1>8. \A i \in Slots : JobOfTest(i)'
  BY <1>1, <1>5 DEF RInv, Table, JobOfTest
<1>9. \A i, j \in Slots : job'[i].test = job'[j].test /\ job'[i].test # 0 => i = j
  <2> TAKE i, j \in Slots
  <2>1. job[i].test = job[j].test /\ job[i].test # 0 => i = j
    BY DEF RInv, Table
  <2> QED
    BY <1>5, <2>1
<1>10. Table'
  <2>1. \A u \in Tests : process'[u] \in Live => InTable(u)'
    BY <1>1, <1>2, <1>7 DEF RInv, Table, Live
  <2>2. ~ Forking'
    BY <1>1 DEF Forking
  <2> QED
    BY <1>8, <1>9, <2>1, <2>2 DEF Table
<1>11. /\ result' = [result EXCEPT ![t] = r] /\ sent' = [sent EXCEPT ![t] = "none"]
       /\ counts' = [counts EXCEPT !["undone"] = @ - 1, ![r] = @ + 1]
  BY <1>2, <1>3, <1>4 DEF FinishTest
<1>12. /\ result'[t] = r /\ \A u \in Tests : u # t => result'[u] = result[u]
       /\ result' \in [Tests -> Results]
  BY <1>11 DEF RInv, ResultsRight
<1>13. /\ \A u \in Tests : u # t => sent'[u] = sent[u]
       /\ sent' \in [Tests -> {"none", "undone", "success", "failed"}]
  BY <1>11 DEF RInv, ResultsRight
<1>14. ResultsRight'
  <2> SUFFICES ASSUME NEW u \in Tests PROVE ResultOfTest(u)'
    BY <1>12, <1>13 DEF ResultsRight
  <2>1. ResultOfTest(u)
    BY DEF RInv, ResultsRight
  <2>2. CASE u = t
    BY <1>1, <1>2, <1>4, <1>7, <1>12, <2>2 DEF ResultOfTest, Taken
  <2>3. CASE u # t
    BY <1>1, <1>7, <1>12, <1>13, <2>1, <2>3 DEF ResultOfTest, Taken, Sent
  <2> QED
    BY <2>2, <2>3
\* The test moves from those that are undone to those of its result.
<1>15. CountsRight'
  <2>1. counts \in [Results -> Nat] /\ \A q \in Results : counts[q] = Cardinality(WithResult(q))
    BY DEF RInv, CountsRight
  <2>2. \A q \in Results : IsFiniteSet(WithResult(q)) /\ Cardinality(WithResult(q)) \in Nat
    BY TestsFinite, FS_Subset, FS_CardinalityType DEF WithResult
  <2>3. t \in WithResult("undone") /\ "undone" \in Results
    BY <1>3 DEF WithResult, Results
  <2>4. CASE r = "undone"
    <3>1. result' = result
      BY <1>3, <1>11, <2>4 DEF RInv, ResultsRight
    <3>2. counts' = counts
      BY <1>11, <2>1, <2>3, <2>4
    <3> QED
      BY <2>1, <3>1, <3>2 DEF CountsRight, WithResult
  <2>5. CASE r # "undone"
    <3>1. WithResult("undone")' = WithResult("undone") \ {t}
      BY <1>12, <2>5 DEF WithResult
    <3>2. WithResult(r)' = WithResult(r) \cup {t} /\ t \notin WithResult(r)
      BY <1>3, <1>12, <2>5 DEF WithResult
    <3>3. \A q \in Results : q \notin {"undone", r} => WithResult(q)' = WithResult(q)
      BY <1>3, <1>12 DEF WithResult
    <3>4. Cardinality(WithResult("undone") \ {t}) = Cardinality(WithResult("undone")) - 1
      BY <2>2, <2>3, FS_RemoveElement
    <3>5. Cardinality(WithResult(r) \cup {t}) = Cardinality(WithResult(r)) + 1
      BY <2>2, <3>2, FS_AddElement
    <3>6. /\ counts'["undone"] = counts["undone"] - 1 /\ counts'[r] = counts[r] + 1
          /\ \A q \in Results : q \notin {"undone", r} => counts'[q] = counts[q]
          /\ DOMAIN counts' = Results /\ counts' = [q \in Results |-> counts'[q]]
      BY <1>11, <2>1, <2>3, <2>5
    <3>7. \A q \in Results : counts'[q] = Cardinality(WithResult(q)')
      BY <2>1, <2>3, <3>1, <3>2, <3>3, <3>4, <3>5, <3>6
    <3>8. \A q \in Results : Cardinality(WithResult(q)') \in Nat
      BY TestsFinite, FS_Subset, FS_CardinalityType DEF WithResult
    <3>9. counts' \in [Results -> Nat]
      BY <3>6, <3>7, <3>8
    <3> QED
      BY <3>7, <3>9 DEF CountsRight
  <2> QED
    BY <2>4, <2>5
<1>16. OutcomeRight'
  BY <1>1 DEF OutcomeRight
<1> QED
  BY <1>10, <1>14, <1>15, <1>16 DEF RInv

-----------------------------------------------------------------------------

\* A test that ends sends what its result will be taken from.
LEMMA EndTestRInv == ASSUME IInv, RInv, NEW t \in Tests, EndTest(t) PROVE RInv'
<1>1. /\ process[t] \in {"alive", "killed"} /\ process' = [process EXCEPT ![t] = "zombie"]
      /\ UNCHANGED <<job, test_case, result, counts, at, slot, outcome>>
  BY DEF EndTest, loopVars
<1>2. process'[t] = "zombie" /\ \A u \in Tests : u # t => process'[u] = process[u]
  BY <1>1 DEF IInv, Typed
<1>3. PICK e \in AnyEnding : ending' = [ending EXCEPT ![t] = e] /\ sent' = [sent EXCEPT ![t] = e.sent]
  <2>1. Killed \in AnyEnding /\ Endings \subseteq AnyEnding
    BY ParametersAssumption DEF Killed, AnyEnding
  <2> QED
    BY <2>1 DEF EndTest
<1>4. /\ ending'[t] = e /\ \A u \in Tests : u # t => ending'[u] = ending[u]
      /\ sent'[t] = e.sent /\ \A u \in Tests : u # t => sent'[u] = sent[u]
      /\ sent' \in [Tests -> {"none", "undone", "success", "failed"}]
  <2>1. e.sent \in {"none", "undone", "success", "failed"}
    BY DEF AnyEnding
  <2> QED
    BY <1>3, <2>1 DEF IInv, Typed, RInv, ResultsRight
<1>5. \A u : InTable(u)' <=> InTable(u)
  BY <1>1 DEF InTable
<1>6. \A i \in Slots : JobOfTest(i)'
  <2> TAKE i \in Slots
  <2>1. JobOfTest(i)
    BY DEF RInv, Table
  <2>2. job[i].test # 0 => job[i].test \in Tests
    BY SlotsFinite DEF IInv, Typed, JobRecord, Tests
  <2>3. job[i].status = "exited" => job[i].test # 0
    BY <2>1 DEF JobOfTest
  <2>4. CASE job[i].test = t
    BY <1>1, <1>2, <2>1, <2>3, <2>4 DEF JobOfTest
  <2>5. CASE job[i].test # t
    BY <1>1, <1>2, <1>4, <2>1, <2>2, <2>3, <2>5 DEF JobOfTest
  <2> QED
    BY <2>4, <2>5
<1>7. \A u \in Tests : process'[u] \in Live => process[u] \in Live
  BY <1>1, <1>2 DEF Live
<1>8. Table'
  BY <1>1, <1>5, <1>6, <1>7 DEF RInv, Table, Forking
<1>9. ResultsRight'
  <2> SUFFICES ASSUME NEW u \in Tests PROVE ResultOfTest(u)'
    BY <1>1, <1>4 DEF RInv, ResultsRight
  <2>1. ResultOfTest(u)
    BY DEF RInv, ResultsRight
  <2>2. CASE u = t
    BY <1>1, <1>2, <1>4, <1>5, <2>1, <2>2 DEF ResultOfTest, Taken, Sent
  <2>3. CASE u # t
    BY <1>1, <1>2, <1>4, <1>5, <2>1, <2>3 DEF ResultOfTest, Taken, Sent
  <2> QED
    BY <2>2, <2>3
<1>10. at # "freed"
  BY <1>1, IInvImpliesNoTestLeftBehind DEF NoTestLeftBehind
<1>11. CountsRight' /\ OutcomeRight'
  BY <1>1, <1>10 DEF RInv, CountsRight, WithResult, OutcomeRight
<1> QED
  BY <1>8, <1>9, <1>11 DEF RInv

\* The job that loses its pid gets the exit status of its own test.
LEMMA ReapRInv == ASSUME IInv, RInv, NEW t \in Tests, Reap(t) PROVE RInv'
<1>1. /\ process[t] = "zombie" /\ process' = [process EXCEPT ![t] = "reaped"] /\ t # 0
      /\ outcome' \in {"crashed", outcome} /\ outcome = "running"
      /\ UNCHANGED <<ending, sent, test_case, result, counts, at, slot>>
  <2>1. process[t] = "zombie" /\ process' = [process EXCEPT ![t] = "reaped"] /\ outcome = "running"
    BY DEF Reap, InHandler
  <2>2. outcome' \in {"crashed", outcome}
    BY DEF Reap
  <2>3. UNCHANGED <<ending, sent, test_case, result, counts, at, slot>>
    BY DEF Reap, loopVars
  <2>4. t # 0
    BY DEF Tests
  <2> QED
    BY <2>1, <2>2, <2>3, <2>4
<1>2. process'[t] = "reaped" /\ \A u \in Tests : u # t => process'[u] = process[u]
  BY <1>1 DEF IInv, Typed
<1>3. \A i \in Slots : job[i].pid # t => job'[i] = job[i]
  BY DEF Reap
<1>4. \A i \in Slots : job[i].pid = t =>
        /\ job'[i].test = job[i].test /\ job'[i].pid = 0
        /\ job'[i].status = "exited" /\ job'[i].exit = ending[t].exit
  <2> TAKE i \in Slots
  <2> HAVE job[i].pid = t
  <2>1. job[i] \in JobRecord /\ job[i].status = "running"
    BY <1>1 DEF IInv, Typed, JobsMatch
  <2>2. job'[i] = [job[i] EXCEPT !.exit = ending[t].exit, !.pid = 0, !.status = "exited"]
    BY <2>1 DEF Reap
  <2> QED
    BY <2>1, <2>2 DEF JobRecord
<1>5. \A i \in Slots : job'[i].test = job[i].test
  BY <1>3, <1>4
<1>6. \A u : InTable(u)' <=> InTable(u)
  BY <1>5 DEF InTable
<1>7. \A i \in Slots : JobOfTest(i)'
  <2> TAKE i \in Slots
  <2>1. JobOfTest(i)
    BY DEF RInv, Table
  <2>2. CASE job[i].pid = t
    BY <1>1, <1>2, <1>4, <2>1, <2>2 DEF JobOfTest
  <2>3. CASE job[i].pid # t
    <3>1. job[i].test # 0 => job[i].test \in Tests
      BY SlotsFinite DEF IInv, Typed, JobRecord, Tests
    <3>2. job[i].status = "exited" => job[i].test # 0
      BY <2>1 DEF JobOfTest
    <3> QED
      BY <1>1, <1>2, <1>3, <2>1, <2>3, <3>1, <3>2 DEF JobOfTest
  <2> QED
    BY <2>2, <2>3
<1>8. \A u \in Tests : process'[u] \in Live => process[u] \in Live
  BY <1>1, <1>2 DEF Live
<1>9. Table'
  <2>1. slot \in Slots
    BY DEF IInv, Typed
  <2> QED
    BY <1>1, <1>5, <1>6, <1>7, <1>8, <2>1 DEF RInv, Table, Forking
<1>10. ResultsRight'
  <2> SUFFICES ASSUME NEW u \in Tests PROVE ResultOfTest(u)'
    BY <1>1 DEF RInv, ResultsRight
  <2>1. ResultOfTest(u)
    BY DEF RInv, ResultsRight
  <2>2. CASE u = t
    <3>1. InTable(t)
      BY <1>1 DEF RInv, Table, Live
    <3> QED
      BY <1>1, <1>2, <1>6, <2>1, <2>2, <3>1 DEF ResultOfTest, Taken, Sent
  <2>3. CASE u # t
    BY <1>1, <1>2, <1>6, <2>1, <2>3 DEF ResultOfTest, Taken, Sent
  <2> QED
    BY <2>2, <2>3
<1>11. CountsRight' /\ OutcomeRight'
  BY <1>1 DEF RInv, CountsRight, WithResult, OutcomeRight
<1> QED
  BY <1>9, <1>10, <1>11 DEF RInv

LEMMA KillRInv == ASSUME IInv, RInv, Kill PROVE RInv'
<1>1. /\ outcome = "running" /\ outcome' \in {"group killed", outcome}
      /\ UNCHANGED <<ending, sent, job, test_case, result, counts, at, slot>>
  BY DEF Kill, InHandler, loopVars
<1>2. \A u \in Tests : process'[u] = process[u] \/ (process[u] = "alive" /\ process'[u] = "killed")
  BY DEF Kill
<1>3. \A u : InTable(u)' <=> InTable(u)
  BY <1>1 DEF InTable
<1>4. \A i \in Slots : JobOfTest(i)'
  <2> TAKE i \in Slots
  <2>1. JobOfTest(i)
    BY DEF RInv, Table
  <2>2. job[i].test # 0 => job[i].test \in Tests
    BY SlotsFinite DEF IInv, Typed, JobRecord, Tests
  <2>3. job[i].status = "exited" => job[i].test # 0
    BY <2>1 DEF JobOfTest
  <2> QED
    BY <1>1, <1>2, <2>1, <2>2, <2>3 DEF JobOfTest
<1>5. \A u \in Tests : process'[u] \in Live => process[u] \in Live
  BY <1>2 DEF Live
<1>6. Table'
  BY <1>1, <1>3, <1>4, <1>5 DEF RInv, Table, Forking
<1>7. ResultsRight'
  <2> SUFFICES ASSUME NEW u \in Tests PROVE ResultOfTest(u)'
    BY <1>1 DEF RInv, ResultsRight
  <2> QED
    BY <1>1, <1>2, <1>3 DEF RInv, ResultsRight, ResultOfTest, Taken, Sent
<1>8. CountsRight' /\ OutcomeRight'
  BY <1>1 DEF RInv, CountsRight, WithResult, OutcomeRight
<1> QED
  BY <1>6, <1>7, <1>8 DEF RInv

-----------------------------------------------------------------------------

LEMMA StepRInv == ASSUME IInv, RInv, [Next]_vars PROVE RInv'
<1>1. CASE Main
  BY <1>1, QuietSteps, StartRInv, StorePidRInv, FinishTestRInv, ReportRInv DEF Main
<1>2. CASE Handler
  BY <1>2, QuietSteps, ReapRInv, KillRInv DEF Handler
<1>3. CASE Interrupt \/ \E signal \in {"CHLD", "INT"} : Deliver(signal)
  BY <1>3, QuietSteps
<1>4. CASE \E t \in Tests : EndTest(t)
  BY <1>4, EndTestRInv
<1>5. CASE UNCHANGED vars
  BY <1>5 DEF vars, RInv, Table, JobOfTest, InTable, Forking, ResultsRight, ResultOfTest, Taken, Sent,
              CountsRight, WithResult, OutcomeRight
<1> QED
  BY <1>1, <1>2, <1>3, <1>4, <1>5 DEF Next

LEMMA RInvImpliesReportIsRight == ASSUME RInv PROVE ReportIsRight
<1>1. \A t \in Tests : (\A i \in Slots : job[i].test # t) <=> ~ InTable(t)
  BY DEF InTable
<1>2. \A t \in Tests :
        result[t] = IF process[t] = "reaped" /\ \A i \in Slots : job[i].test # t
                    THEN Verdict(ending[t]) ELSE "undone"
  BY <1>1 DEF RInv, ResultsRight, ResultOfTest, Taken
<1> QED
  BY <1>2 DEF RInv, CountsRight, WithResult, OutcomeRight, ReportIsRight

\* What the runner prints of a test, and the exit status it ends with, is what
\* the processes of the tests did, in whatever order they end and the signals
\* come, for any number of tests and of jobs (ReportIsRight).
THEOREM ReportIsTrue == Spec => []ReportIsRight
<1>1. Spec => []IInv
  BY Invariant
<1>2. IInv /\ RInv /\ [Next]_vars => RInv'
  BY StepRInv
<1> QED
  BY <1>1, <1>2, InitRInv, RInvImpliesReportIsRight, PTL DEF Spec

-----------------------------------------------------------------------------
(***************************************************************************)
(* Types.                                                                  *)
(***************************************************************************)
AllEndings == Endings \cup {NotEnded, Killed}
JobType ==
  [status : {"idle", "running", "exited"}, test : 0..NumTests, pid : 0..NumTests,
   exit : {e.exit : e \in AllEndings}]

TableTyped == ending \in [Tests -> AllEndings] /\ job \in [Slots -> JobType]

\* A handler is not entered while one for the same signal is in progress.
FramesTyped ==
  /\ frames \in Seq(Frame)
  /\ \A j, k \in DOMAIN frames : frames[j].signal = frames[k].signal => j = k

SignalsTyped ==
  /\ pending \subseteq {"CHLD", "INT"} /\ interrupted \in BOOLEAN /\ early \subseteq Tests
  /\ outcome \in {"running", "success", "failure", "became the test",
                  "interrupted", "crashed", "group killed"}

LEMMA TableStaysTyped ==
  ASSUME IInv, TableTyped, [Next]_vars
  PROVE  TableTyped'
<1>1. slot \in Slots /\ (Start \/ StorePid => test_case \in 0..NumTests)
  BY SlotsFinite DEF IInv, Typed, JobsMatch, Forking, Start, StorePid
<1>2. CASE UNCHANGED <<ending, job>>
  BY <1>2 DEF TableTyped
<1>3. CASE Start
  BY <1>1, <1>3 DEF Start, TableTyped, JobType
<1>4. CASE StorePid
  BY <1>1, <1>4 DEF StorePid, TableTyped, JobType, testVars
<1>5. CASE FinishTest
  <2>1. 0 \in 0..NumTests
    BY SlotsFinite
  <2> QED
    BY <1>1, <1>5, <2>1 DEF FinishTest, TableTyped, JobType
<1>6. ASSUME NEW t \in Tests, EndTest(t) PROVE TableTyped'
  BY <1>6 DEF EndTest, TableTyped, AllEndings
<1>7. ASSUME NEW t \in Tests, Reap(t) PROVE TableTyped'
  <2>1. 0 \in 0..NumTests /\ ending[t].exit \in {e.exit : e \in AllEndings}
    BY SlotsFinite DEF TableTyped
  <2>2. ASSUME NEW i \in Slots
        PROVE  [job[i] EXCEPT !.exit = ending[t].exit, !.pid = 0,
                              !.status = IF @ = "running" THEN "exited" ELSE @] \in JobType
    BY <2>1 DEF TableTyped, JobType
  <2> QED
    BY <1>7, <2>2 DEF Reap, TableTyped
<1> QED
  BY <1>2, <1>3, <1>4, <1>5, <1>6, <1>7
     DEF Next, vars, testVars, Main, Handler, Loop, Forked, SkipSlot, Report, EndCollect, KillCheck,
         Kill, Interrupt, Deliver

LEMMA FramesStayTyped ==
  ASSUME IInv, TableTyped, FramesTyped, [Next]_vars
  PROVE  FramesTyped'
<1>1. /\ Jobs \in Nat /\ NumTests \in Nat
      /\ \A i \in Slots : job[i].pid \in 0..NumTests
  BY SlotsFinite DEF TableTyped, JobType
<1>2. CASE UNCHANGED frames
  BY <1>2 DEF FramesTyped
<1>3. frames # <<>> => /\ Len(frames) \in DOMAIN frames /\ Top \in Frame
                       /\ Top.part = "kill" => Top.slot \in Slots
  BY DEF FramesTyped, Top, IInv, HandlersSettle, HandlerSettles
<1>4. ASSUME frames # <<>>, NEW f \in Frame, f.signal = Top.signal, SetTop(f)
      PROVE  FramesTyped'
  <2>1. frames' \in Seq(Frame) /\ DOMAIN frames' = DOMAIN frames
    BY <1>4 DEF SetTop, FramesTyped
  <2>2. \A k \in DOMAIN frames : frames'[k].signal = frames[k].signal
    BY <1>3, <1>4 DEF SetTop, FramesTyped, Top
  <2> QED
    BY <2>1, <2>2 DEF FramesTyped
<1>5. ASSUME NEW signal \in {"CHLD", "INT"}, Deliver(signal) PROVE FramesTyped'
  <2> DEFINE f == [signal |-> signal, slot |-> 1, pid |-> 0,
                   part |-> IF signal = "CHLD" \/ NoTests THEN "collect" ELSE "check"]
  <2>1. f \in Frame /\ f.signal = signal
    BY <1>1 DEF Frame
  <2>2. frames' = Append(frames, f) /\ \A k \in DOMAIN frames : frames[k].signal # signal
    BY <1>5 DEF Deliver
  <2> HIDE DEF f
  <2>3. /\ frames' \in Seq(Frame) /\ DOMAIN frames' = DOMAIN frames \cup {Len(frames) + 1}
        /\ \A k \in DOMAIN frames : frames'[k] = frames[k]
        /\ frames'[Len(frames) + 1] = f
    BY <2>1, <2>2 DEF FramesTyped
  <2> QED
    BY <2>1, <2>2, <2>3 DEF FramesTyped
<1>6. CASE EndCollect
  <2>1. CASE frames' = SubSeq(frames, 1, Len(frames) - 1)
    <3>1. /\ frames' \in Seq(Frame)
          /\ \A k \in DOMAIN frames' : k \in DOMAIN frames /\ frames'[k] = frames[k]
      BY <1>6, <2>1 DEF EndCollect, InHandler, FramesTyped
    <3> QED
      BY <3>1 DEF FramesTyped
  <2> QED
    BY <1>2, <1>6, <2>1 DEF EndCollect
<1>7. CASE KillCheck
  <2>1. frames # <<>> /\ Top \in Frame /\ Top.slot \in 0..Jobs + 1
    BY <1>3, <1>7 DEF KillCheck, InHandler, Frame
  <2>2. CASE SetTop([Top EXCEPT !.part = "collect", !.slot = 0])
    <3>1. /\ [Top EXCEPT !.part = "collect", !.slot = 0] \in Frame
          /\ [Top EXCEPT !.part = "collect", !.slot = 0].signal = Top.signal
      <4>1. PICK n \in 0..Jobs + 1 : n = 0
        BY <1>1
      <4>2. /\ [Top EXCEPT !.part = "collect", !.slot = n] \in Frame
            /\ [Top EXCEPT !.part = "collect", !.slot = n].signal = Top.signal
        BY <2>1 DEF Frame
      <4> QED
        BY <4>1, <4>2
    <3> QED
      BY <1>4, <2>1, <2>2, <3>1
  <2>3. CASE ~ (Top.slot > Jobs)
    <3>1. CASE SetTop([Top EXCEPT !.part = "kill", !.pid = job[Top.slot].pid])
                 /\ Top.slot \in Slots
      <4>1. /\ [Top EXCEPT !.part = "kill", !.pid = job[Top.slot].pid] \in Frame
            /\ [Top EXCEPT !.part = "kill", !.pid = job[Top.slot].pid].signal = Top.signal
        BY <1>1, <2>1, <3>1 DEF Frame
      <4> QED
        BY <1>4, <2>1, <3>1, <4>1
    <3>2. CASE SetTop([Top EXCEPT !.slot = @ + 1])
      <4>1. PICK n \in 0..Jobs + 1 : n = Top.slot + 1
        BY <1>1, <2>1, <2>3
      <4>2. SetTop([Top EXCEPT !.slot = n])
        BY <3>2, <4>1
      <4>3. [Top EXCEPT !.slot = n] \in Frame /\ [Top EXCEPT !.slot = n].signal = Top.signal
        BY <2>1 DEF Frame
      <4> QED
        BY <1>4, <2>1, <4>2, <4>3
    <3>3. Top.slot \in Slots
      <4>1. HandlerSettles(Top) /\ Top.part = "check"
        BY <1>3, <1>7 DEF KillCheck, InHandler, IInv, HandlersSettle, Top
      <4> QED
        BY <1>1, <2>1, <2>3, <4>1 DEF HandlerSettles, Slots
    <3> QED
      BY <1>2, <1>7, <2>2, <2>3, <3>1, <3>2, <3>3 DEF KillCheck
  <2> QED
    BY <1>2, <1>7, <2>2, <2>3 DEF KillCheck
<1>8. CASE Kill
  <2>1. frames # <<>> /\ Top \in Frame /\ Top.slot \in Slots
    BY <1>3, <1>8 DEF Kill, InHandler
  <2>2. PICK n \in 0..Jobs + 1 : n = Top.slot + 1
    BY <1>1, <2>1 DEF Slots
  <2>3. PICK none \in 0..NumTests : none = 0
    BY <1>1
  <2>4. SetTop([Top EXCEPT !.part = "check", !.slot = n, !.pid = none])
    BY <1>8, <2>3, <2>2 DEF Kill
  <2>5. /\ [Top EXCEPT !.part = "check", !.slot = n, !.pid = none] \in Frame
        /\ [Top EXCEPT !.part = "check", !.slot = n, !.pid = none].signal = Top.signal
    BY <2>1 DEF Frame
  <2> QED
    BY <1>4, <2>1, <2>4, <2>5
<1> QED
  BY <1>2, <1>5, <1>6, <1>7, <1>8
     DEF Next, vars, signalVars, Main, Handler, Loop, Start, StorePid, Forked, SkipSlot, FinishTest,
         Report, Reap, Interrupt, EndTest

LEMMA SignalsStayTyped ==
  ASSUME SignalsTyped, [Next]_vars
  PROVE  SignalsTyped'
<1> USE DEF SignalsTyped, signalVars
<1>1. CASE UNCHANGED vars
  BY <1>1 DEF vars
<1>2. CASE Main
  BY <1>2 DEF Main, Loop, Start, StorePid, Forked, SkipSlot, FinishTest, Report
<1>3. CASE Handler
  BY <1>3 DEF Handler, Reap, EndCollect, KillCheck, Kill
<1>4. CASE Interrupt
  BY <1>4 DEF Interrupt
<1>5. CASE \E signal \in {"CHLD", "INT"} : Deliver(signal)
  BY <1>5 DEF Deliver
<1>6. CASE \E t \in Tests : EndTest(t)
  BY <1>6 DEF EndTest
<1> QED
  BY <1>1, <1>2, <1>3, <1>4, <1>5, <1>6 DEF Next

\* Each signal has one handler in progress at most.
LEMMA FewFrames == ASSUME FramesTyped PROVE Len(frames) <= 2
<1> SUFFICES ASSUME ~ (Len(frames) <= 2) PROVE FALSE
  OBVIOUS
<1>1. 1 \in DOMAIN frames /\ 2 \in DOMAIN frames /\ 3 \in DOMAIN frames
  BY DEF FramesTyped
<1>2. \A k \in DOMAIN frames : frames[k].signal \in {"CHLD", "INT"}
  <2>1. \A k \in DOMAIN frames : frames[k] \in Frame
    BY DEF FramesTyped
  <2> QED
    BY <2>1 DEF Frame
<1>3. 1 # 2 /\ 1 # 3 /\ 2 # 3
  OBVIOUS
<1> QED
  BY <1>1, <1>2, <1>3 DEF FramesTyped

LEMMA CountsTyped ==
  ASSUME IInv, RInv
  PROVE  running_tests \in 0..Jobs /\ counts \in [Results -> 0..NumTests]
<1>1. running_tests \in 0..Jobs
  <2>1. IsFiniteSet(Slots) /\ Cardinality(Slots) = Jobs /\ Busy \subseteq Slots
    BY SlotsFinite, FS_Interval DEF Slots, Busy
  <2>2. Cardinality(Busy) \in Nat /\ Cardinality(Busy) <= Jobs
    BY <2>1, FS_Subset, FS_CardinalityType
  <2> QED
    BY <2>2, SlotsFinite DEF IInv, BusyCounted
<1>2. ASSUME NEW r \in Results PROVE counts[r] \in 0..NumTests
  <2>1. WithResult(r) \subseteq Tests
    BY DEF WithResult
  <2>2. Cardinality(WithResult(r)) \in Nat /\ Cardinality(WithResult(r)) <= NumTests
    BY <2>1, TestsFinite, FS_Subset, FS_CardinalityType
  <2> QED
    BY <2>2, TestsFinite DEF RInv, CountsRight
<1> QED
  BY <1>1, <1>2 DEF RInv, CountsRight

\* The variables have their types: in every interleaving the table of jobs
\* holds processes of the run only, no count leaves its range, and at most two
\* handlers are in progress, each at a slot of the table or behind it.
THEOREM TypeCorrect == Spec => []TypeOK
<1> DEFINE Inv == TableTyped /\ FramesTyped /\ SignalsTyped
<1>1. Init => Inv
  <2> SUFFICES ASSUME Init PROVE Inv
    OBVIOUS
  <2>1. 0 \in 0..NumTests /\ NotEnded \in AllEndings /\ NotEnded.exit = 0
    BY SlotsFinite DEF AllEndings, NotEnded
  <2>2. IdleJob \in JobType
    BY <2>1 DEF IdleJob, JobType
  <2>3. TableTyped
    BY <2>1, <2>2 DEF Init, TableTyped
  <2>4. FramesTyped
    BY DEF Init, FramesTyped
  <2> QED
    BY <2>3, <2>4 DEF Init, SignalsTyped
<1>2. IInv /\ Inv /\ [Next]_vars => Inv'
  BY TableStaysTyped, FramesStayTyped, SignalsStayTyped
<1>3. IInv /\ RInv /\ Inv => TypeOK
  BY FewFrames, CountsTyped DEF IInv, Typed, RInv, ResultsRight, TableTyped, FramesTyped,
     SignalsTyped, JobType, AllEndings, TypeOK
<1>4. IInv /\ RInv /\ [Next]_vars => RInv'
  BY StepRInv
<1> QED
  BY Invariant, InitRInv, <1>1, <1>2, <1>3, <1>4, PTL DEF Spec
=============================================================================

--------------------------- MODULE ScenarioProofs ---------------------------
(***************************************************************************)
(* The safety properties of "vdevlab run" for every scenario, payload,     *)
(* FIFO size, set of failing operations and number of Ctrl+C; and those of *)
(* its kernel log collector for every ring.                                *)
(***************************************************************************)
EXTENDS ScenarioCommand, KernelLog, TLAPS

\* What each place of run() knows about the descriptor, the process and the
\* exception, whatever happened before.
Places ==
  /\ at = "open" => fd = "none" /\ leader = "none" /\ ~handling
  /\ at \in {"opened", "popen"} => leader = "none" /\ ~handling
  /\ at \notin {"open", "observe", "ended"} => fd = "open"
  /\ at = "observe" => fd = "closed" /\ ~handling
  /\ at \in {"constructed", "event", "write", "collect"} => leader # "none" /\ ~handling
  /\ fd = "none" => at \in {"open", "ended"} /\ leader = "none"
  /\ handling => error # "none"
  /\ error # "none" => handling \/ at = "ended"
  /\ at = "except" => handling
  /\ leader = "none" <=> collector = "none"
  /\ collector = "done" => leader = "exited"

\* A run without an exception is complete, step by step.
Progress ==
  /\ error = "none" /\ at \in {"collect", "poll", "grace", "join", "reset", "close",
                               "observe", "ended"} => event > Len(scenario)
  /\ error = "none" /\ at \in {"reset", "close", "observe", "ended"} => collector = "done"
  /\ at = "close" => Clean \/ cleanupFailed
  /\ at = "observe" => Clean
  /\ error = "none" /\ at = "ended" => Clean /\ fd = "closed"

\* Ctrl+C in a gap is never forgotten for a later one elsewhere; without one,
\* the process is known to run(), and gone before the device is reset.
Safe ==
  /\ hit \in Gaps => handling \/ at = "ended" \/ (at = "close" /\ cleanupFailed)
  /\ hit \notin Gaps =>
       /\ leader # "none" => application \/ at = "constructed"
       /\ at \in {"reset", "close", "observe"} => leader # "running"
       /\ at = "ended" => Restored \/ LeftBehind

RunnerInv == TypeOK /\ Places /\ Progress /\ Safe

-----------------------------------------------------------------------------
\* Types are preserved by every step of a run.
LEMMA TypeStep ==
  ASSUME TypeOK, [Next]_vars PROVE TypeOK'
<1> USE RunnerAssumption DEF TypeOK
<1>1. CASE Open
  BY <1>1 DEF Open, Continue, process, dev, history
<1>2. CASE Started
  BY <1>2 DEF Started, Continue, process, dev, history
<1>3. CASE Popen
  <2>1. /\ handling' \in BOOLEAN /\ expired' \in BOOLEAN /\ cleanupFailed' \in BOOLEAN
        /\ application' \in BOOLEAN /\ child' \in BOOLEAN
    BY <1>3, ZenonT(60) DEF Popen, Continue, Raise, dev, history
  <2> QED BY <1>3, <2>1 DEF Popen, Continue, Raise, dev, history
<1>4. CASE Assigned
  BY <1>4 DEF Assigned, Continue, dev, history
<1>5. CASE Dispatch
  <2>1. /\ handling' \in BOOLEAN /\ expired' \in BOOLEAN /\ cleanupFailed' \in BOOLEAN
        /\ application' \in BOOLEAN /\ child' \in BOOLEAN
    BY <1>5, ZenonT(60) DEF Dispatch, Continue, Raise, Applied, process, history, dev
  <2> QED BY <1>5, <2>1 DEF Dispatch, Continue, Raise, Applied, process, history, dev
<1>6. CASE WriteSome
  <2>1. /\ handling' \in BOOLEAN /\ expired' \in BOOLEAN /\ cleanupFailed' \in BOOLEAN
        /\ application' \in BOOLEAN /\ child' \in BOOLEAN
    BY <1>6, ZenonT(60) DEF WriteSome, Continue, Raise, process, history
  <2>2. queued' \in 0..FifoSize /\ left' \in 0..Payload
    BY <1>6 DEF WriteSome
  <2>3. event' \in 1..(Len(scenario) + 1) /\ (at' = "write" => event' <= Len(scenario))
    BY <1>6 DEF WriteSome, Continue, Raise
  <2> QED BY <1>6, <2>1, <2>2, <2>3 DEF WriteSome, Continue, Raise, process, history
<1>7. CASE Remaining
  BY <1>7 DEF Remaining, Continue, process, dev, history
<1>8. CASE Collect
  <2>1. /\ handling' \in BOOLEAN /\ expired' \in BOOLEAN /\ cleanupFailed' \in BOOLEAN
        /\ application' \in BOOLEAN /\ child' \in BOOLEAN
    BY <1>8, ZenonT(60) DEF Collect, Continue, Raise, process, dev, history
  <2> QED BY <1>8, <2>1 DEF Collect, Continue, Raise, process, dev, history
<1>9. CASE Poll
  BY <1>9 DEF Poll, Continue, process, dev, history
<1>10. CASE Grace
  <2>1. /\ handling' \in BOOLEAN /\ expired' \in BOOLEAN /\ cleanupFailed' \in BOOLEAN
        /\ application' \in BOOLEAN /\ child' \in BOOLEAN
    BY <1>10, ZenonT(60) DEF Grace, Continue, dev, history
  <2> QED BY <1>10, <2>1 DEF Grace, Continue, dev, history
<1>11. CASE Join
  <2>1. /\ handling' \in BOOLEAN /\ expired' \in BOOLEAN /\ cleanupFailed' \in BOOLEAN
        /\ application' \in BOOLEAN /\ child' \in BOOLEAN
    BY <1>11, ZenonT(60) DEF Join, Continue, Raise, process, history
  <2> QED BY <1>11, <2>1 DEF Join, Continue, Raise, process, dev, history
<1>12. CASE Except
  BY <1>12 DEF Except, Continue, PollNone, process, dev, history
<1>13. CASE Reset
  <2>1. /\ handling' \in BOOLEAN /\ expired' \in BOOLEAN /\ cleanupFailed' \in BOOLEAN
        /\ application' \in BOOLEAN /\ child' \in BOOLEAN
    BY <1>13, ZenonT(60) DEF Reset, Continue, process, dev, history
  <2> QED BY <1>13, <2>1 DEF Reset, Continue, process, dev, history
<1>14. CASE Close
  BY <1>14 DEF Close, Continue, CleanedUp, process, dev, history
<1>15. CASE Observe
  BY <1>15 DEF Observe, Continue, process, dev, history
<1>16. CASE Interrupt
  <2>1. /\ handling' \in BOOLEAN /\ expired' \in BOOLEAN /\ cleanupFailed' \in BOOLEAN
        /\ application' \in BOOLEAN /\ child' \in BOOLEAN
    BY <1>16, ZenonT(60) DEF Interrupt, Continue, Raise, CleanedUp, process, dev
  <2> QED BY <1>16, <2>1 DEF Interrupt, Continue, Raise, CleanedUp, process, dev
<1>17. CASE AppRead
  BY <1>17 DEF AppRead, process, history
<1>18. CASE AppProcess
  <2>1. /\ handling' \in BOOLEAN /\ expired' \in BOOLEAN /\ cleanupFailed' \in BOOLEAN
        /\ application' \in BOOLEAN /\ child' \in BOOLEAN
    BY ZenonT(60), <1>18 DEF AppProcess, dev, history
  <2> QED BY <1>18, <2>1 DEF AppProcess, dev, history
<1>19. CASE CollectorDone
  BY <1>19 DEF CollectorDone, dev, history
<1>20. CASE CollectorFails
  BY <1>20 DEF CollectorFails, dev, history
<1>21. CASE Expire
  BY <1>21 DEF Expire, process, dev, history
<1>22. CASE UNCHANGED vars
  BY <1>22 DEF vars
<1> QED BY ZenonT(60), <1>1, <1>2, <1>3, <1>4, <1>5, <1>6, <1>7, <1>8, <1>9, <1>10, <1>11,
           <1>12, <1>13, <1>14, <1>15, <1>16, <1>17, <1>18, <1>19, <1>20, <1>21, <1>22
        DEF Next, Main

\* So is what the places know.
LEMMA PlacesStep ==
  ASSUME TypeOK, Places, [Next]_vars PROVE Places'
<1> USE RunnerAssumption DEF TypeOK, Places
<1>1. CASE Open
  BY <1>1 DEF Open, Continue, process, dev, history
<1>2. CASE Started
  BY <1>2 DEF Started, Continue, process, dev, history
<1>3. CASE Popen
  BY <1>3 DEF Popen, Continue, Raise, dev, history
<1>4. CASE Assigned
  BY <1>4 DEF Assigned, Continue, dev, history
<1>5. CASE Dispatch
  BY <1>5 DEF Dispatch, Continue, Raise, Applied, process, history, dev
<1>6. CASE WriteSome
  BY <1>6 DEF WriteSome, Continue, Raise, process, history
<1>7. CASE Remaining
  BY <1>7 DEF Remaining, Continue, process, dev, history
<1>8. CASE Collect
  BY <1>8 DEF Collect, Continue, Raise, process, dev, history
<1>9. CASE Poll
  BY <1>9 DEF Poll, Continue, process, dev, history
<1>10. CASE Grace
  BY <1>10 DEF Grace, Continue, dev, history
<1>11. CASE Join
  BY <1>11 DEF Join, Continue, Raise, process, dev, history
<1>12. CASE Except
  BY <1>12, ZenonT(60) DEF Except, Continue, PollNone, process, dev, history
<1>13. CASE Reset
  BY <1>13 DEF Reset, Continue, process, dev, history
<1>14. CASE Close
  BY <1>14 DEF Close, Continue, CleanedUp, process, dev, history
<1>15. CASE Observe
  BY <1>15 DEF Observe, Continue, process, dev, history
<1>16. CASE Interrupt
  BY <1>16 DEF Interrupt, Continue, Raise, CleanedUp, process, dev
<1>17. CASE AppRead
  BY <1>17 DEF AppRead, process, history
<1>18. CASE AppProcess
  BY <1>18 DEF AppProcess, dev, history
<1>19. CASE CollectorDone
  BY <1>19 DEF CollectorDone, dev, history
<1>20. CASE CollectorFails
  BY <1>20 DEF CollectorFails, dev, history
<1>21. CASE Expire
  BY <1>21 DEF Expire, process, dev, history
<1>22. CASE UNCHANGED vars
  BY ZenonT(60), <1>22 DEF vars
<1> QED BY ZenonT(60), <1>1, <1>2, <1>3, <1>4, <1>5, <1>6, <1>7, <1>8, <1>9, <1>10, <1>11,
           <1>12, <1>13, <1>14, <1>15, <1>16, <1>17, <1>18, <1>19, <1>20, <1>21, <1>22
        DEF Next, Main

\* So is what is known of a run without an exception.
LEMMA ProgressStep ==
  ASSUME TypeOK, Places, Progress, [Next]_vars PROVE Progress'
<1> USE RunnerAssumption DEF TypeOK, Places, Progress, Clean
<1>1. CASE Open
  BY <1>1 DEF Open, Continue, process, dev, history
<1>2. CASE Started
  BY <1>2 DEF Started, Continue, process, dev, history
<1>3. CASE Popen
  BY <1>3 DEF Popen, Continue, Raise, dev, history
<1>4. CASE Assigned
  BY <1>4 DEF Assigned, Continue, dev, history
<1>5. CASE Dispatch
  BY <1>5 DEF Dispatch, Continue, Raise, Applied, process, history, dev
<1>6. CASE WriteSome
  BY <1>6 DEF WriteSome, Continue, Raise, process, history
<1>7. CASE Remaining
  BY <1>7 DEF Remaining, Continue, process, dev, history
<1>8. CASE Collect
  BY <1>8 DEF Collect, Continue, Raise, process, dev, history
<1>9. CASE Poll
  BY <1>9 DEF Poll, Continue, process, dev, history
<1>10. CASE Grace
  BY <1>10 DEF Grace, Continue, dev, history
<1>11. CASE Join
  BY <1>11 DEF Join, Continue, Raise, process, dev, history
<1>12. CASE Except
  BY ZenonT(60), <1>12 DEF Except, Continue, PollNone, process, dev, history
<1>13. CASE Reset
  BY <1>13 DEF Reset, Continue, process, dev, history
<1>14. CASE Close
  BY <1>14 DEF Close, Continue, CleanedUp, process, dev, history
<1>15. CASE Observe
  BY <1>15 DEF Observe, Continue, process, dev, history
<1>16. CASE Interrupt
  BY <1>16 DEF Interrupt, Continue, Raise, CleanedUp, process, dev
<1>17. CASE AppRead
  BY <1>17 DEF AppRead, process, history
<1>18. CASE AppProcess
  BY <1>18 DEF AppProcess, dev, history
<1>19. CASE CollectorDone
  BY <1>19 DEF CollectorDone, dev, history
<1>20. CASE CollectorFails
  BY <1>20 DEF CollectorFails, dev, history
<1>21. CASE Expire
  BY <1>21 DEF Expire, process, dev, history
<1>22. CASE UNCHANGED vars
  BY ZenonT(60), <1>22 DEF vars
<1> QED BY ZenonT(60), <1>1, <1>2, <1>3, <1>4, <1>5, <1>6, <1>7, <1>8, <1>9, <1>10, <1>11,
           <1>12, <1>13, <1>14, <1>15, <1>16, <1>17, <1>18, <1>19, <1>20, <1>21, <1>22
        DEF Next, Main

\* So is what is known of a run without Ctrl+C in a gap.
LEMMA SafeStep ==
  ASSUME TypeOK, Places, Progress, Safe, [Next]_vars PROVE Safe'
<1> USE RunnerAssumption DEF TypeOK, Places, Progress, Safe, Clean, Gaps, Restored, LeftBehind
<1>1. CASE Open
  BY <1>1 DEF Open, Continue, process, dev, history
<1>2. CASE Started
  BY <1>2 DEF Started, Continue, process, dev, history
<1>3. CASE Popen
  BY <1>3 DEF Popen, Continue, Raise, dev, history
<1>4. CASE Assigned
  BY <1>4 DEF Assigned, Continue, dev, history
<1>5. CASE Dispatch
  BY <1>5 DEF Dispatch, Continue, Raise, Applied, process, history, dev
<1>6. CASE WriteSome
  BY <1>6 DEF WriteSome, Continue, Raise, process, history
<1>7. CASE Remaining
  BY <1>7 DEF Remaining, Continue, process, dev, history
<1>8. CASE Collect
  BY <1>8 DEF Collect, Continue, Raise, process, dev, history
<1>9. CASE Poll
  BY <1>9 DEF Poll, Continue, process, dev, history
<1>10. CASE Grace
  BY <1>10 DEF Grace, Continue, dev, history
<1>11. CASE Join
  BY <1>11 DEF Join, Continue, Raise, process, dev, history
<1>12. CASE Except
  BY <1>12, ZenonT(60) DEF Except, Continue, PollNone, process, dev, history
<1>13. CASE Reset
  BY <1>13 DEF Reset, Continue, process, dev, history
<1>14. CASE Close
  <2>1. UNCHANGED <<leader, application, collector, dev, cleanupFailed, hit>> /\ fd' = "closed"
    BY <1>14 DEF Close, process, history
  <2>2. at' \in {"observe", "ended"} /\ (at' = "observe" => handling' = handling)
    BY <1>14 DEF Close, CleanedUp, Continue
  <2>3. hit \in Gaps => at' = "ended" \/ handling'
    BY <1>14 DEF Close, CleanedUp, Continue
  <2> QED BY <1>14, <2>1, <2>2, <2>3 DEF dev, Close
<1>15. CASE Observe
  BY <1>15 DEF Observe, Continue, process, dev, history
<1>16. CASE Interrupt
  BY <1>16 DEF Interrupt, Continue, Raise, CleanedUp, process, dev
<1>17. CASE AppRead
  BY <1>17 DEF AppRead, process, history
<1>18. CASE AppProcess
  BY <1>18 DEF AppProcess, dev, history
<1>19. CASE CollectorDone
  BY <1>19 DEF CollectorDone, dev, history
<1>20. CASE CollectorFails
  BY <1>20 DEF CollectorFails, dev, history
<1>21. CASE Expire
  BY <1>21 DEF Expire, process, dev, history
<1>22. CASE UNCHANGED vars
  BY <1>22 DEF vars
<1> QED BY ZenonT(60), <1>1, <1>2, <1>3, <1>4, <1>5, <1>6, <1>7, <1>8, <1>9, <1>10, <1>11,
           <1>12, <1>13, <1>14, <1>15, <1>16, <1>17, <1>18, <1>19, <1>20, <1>21, <1>22
        DEF Next, Main

-----------------------------------------------------------------------------
\* What a finished write leaves in a report's file.
Written(f) == IF f = "json" THEN report ELSE report_to_junit_xml(report)

\* What the stages of the command know about the run and the files.
CommandInv ==
  /\ stage \in {"load", "run", "json", "junit", "exited"} /\ code \in Int
  /\ files \in [Requested -> {"old", "torn", "PASS", "FAIL", "ERROR", "TIMEOUT",
                              "success", "failure", "error"}]
  /\ report \in {"none", "PASS", "FAIL", "ERROR", "TIMEOUT"} /\ timedOut \in BOOLEAN
  /\ stage \in {"load", "run"} => report = "none"
  /\ stage = "load" => at = "open" /\ error = "none"
  /\ stage \in {"json", "junit"} => report # "none"
  /\ stage \in {"json", "junit", "exited"} /\ report = "PASS" =>
       at = "ended" /\ error = "none" /\ ~timedOut
  /\ stage \in {"json", "junit", "exited"} /\ code = 0 => report = "PASS"
  /\ \A f \in Requested : files[f] \in {"old", "torn", Written(f)}
  /\ report = "none" => \A f \in Requested : files[f] = "old"
  /\ stage = "json" => \A f \in Requested : files[f] = "old"
  /\ stage = "junit" /\ "json" \in Requested => files["json"] = report
  /\ stage = "exited" /\ code = 0 => \A f \in Requested : files[f] = Written(f)

-----------------------------------------------------------------------------
\* run() starts in the invariant, whatever fault the device is found with.
LEMMA RunnerInit ==
  ASSUME Init PROVE RunnerInv
<1>1. scenario \in Seq(Events) /\ Len(scenario) \in Nat
  BY RunnerAssumption DEF Init
<1>2. TypeOK
  <2>1. /\ handling \in BOOLEAN /\ expired \in BOOLEAN /\ cleanupFailed \in BOOLEAN
        /\ application \in BOOLEAN /\ child \in BOOLEAN
    BY ZenonT(60) DEF Init
  <2> QED BY <1>1, <2>1, RunnerAssumption DEF Init, TypeOK
<1>3. Places /\ Progress /\ Safe
  BY DEF Init, Places, Progress, Safe, Clean, Gaps
<1> QED BY <1>2, <1>3 DEF RunnerInv

\* The command takes a step of run(), or changes none of its variables but the
\* number of interrupts.
LEMMA CommandStep ==
  ASSUME [CNext]_cvars
  PROVE  \/ [Next]_vars
         \/ /\ interrupts < MaxInterrupts /\ interrupts' = interrupts + 1
            /\ UNCHANGED <<scenario, at, handling, error, process, fd, dev, event, left,
                           expired, cleanupFailed, hit>>
<1>1. CASE Load
  BY <1>1 DEF Load, vars, process, dev
<1>2. CASE During(Next)
  BY <1>2 DEF During
<1>3. CASE Finish
  BY <1>3 DEF Finish, RunFailed, Report, WriteReport
<1>4. CASE InterruptReport
  BY <1>4 DEF InterruptReport
<1>5. CASE UNCHANGED cvars
  BY <1>5 DEF cvars
<1> QED BY <1>1, <1>2, <1>3, <1>4, <1>5 DEF CNext

\* Every step of the command, Ctrl+C outside of run() included, keeps it.
LEMMA RunnerStep ==
  ASSUME RunnerInv, [CNext]_cvars PROVE RunnerInv'
<1>1. CASE [Next]_vars
  BY <1>1, TypeStep, PlacesStep, ProgressStep, SafeStep DEF RunnerInv
<1>2. CASE /\ interrupts < MaxInterrupts /\ interrupts' = interrupts + 1
           /\ UNCHANGED <<scenario, at, handling, error, process, fd, dev, event, left,
                          expired, cleanupFailed, hit>>
  <2>1. TypeOK'
    BY <1>2, RunnerAssumption DEF RunnerInv, TypeOK, process, dev
  <2>2. Places' /\ Progress' /\ Safe'
    BY <1>2 DEF RunnerInv, Places, Progress, Safe, Clean, Restored, LeftBehind,
                process, dev
  <2> QED BY <2>1, <2>2 DEF RunnerInv
<1> QED BY <1>1, <1>2, CommandStep

\* Every behaviour of the command keeps the runner's invariant.
LEMMA RunnerAlways == CSpec => []RunnerInv
<1>1. CInit => RunnerInv
  BY RunnerInit, ZenonT(60) DEF CInit, Init
<1>2. RunnerInv /\ [CNext]_cvars => RunnerInv'
  BY RunnerStep
<1> QED BY <1>1, <1>2, PTL DEF CSpec

-----------------------------------------------------------------------------
\* main() starts with the files of an earlier run and no report of its own.
LEMMA CommandInit ==
  ASSUME CInit PROVE CommandInv
<1>1. timedOut \in BOOLEAN
  BY ZenonT(60) DEF CInit
<1> QED BY <1>1 DEF CInit, Init, CommandInv

\* What has ended stays as it is, but for the application left behind.
LEMMA EndedStays ==
  ASSUME RunnerInv, at = "ended", Next PROVE at' = "ended" /\ error' = error
BY ZenonT(60) DEF Next, Main, Open, Started, Popen, Assigned, Dispatch, WriteSome, Remaining,
       Collect, Poll, Grace, Join, Except, Reset, Close, Observe, Interrupt, AppRead,
       AppProcess, CollectorDone, CollectorFails, Expire

\* Every step of main() and of the run keeps what the stages know.
LEMMA CommandInvStep ==
  ASSUME RunnerInv, CommandInv, [CNext]_cvars PROVE CommandInv'
<1> USE CommandAssumption DEF CommandInv
<1>1. CASE Load
  <2>1. stage' # "junit" /\ UNCHANGED <<at, error, timedOut, files>>
    BY <1>1 DEF Load, ToWrite
  <2>2. CASE stage' = "run" /\ UNCHANGED <<report, code>>
    BY <1>1, <2>1, <2>2 DEF Load, Written
  <2>3. CASE stage' = "json" /\ report' = "ERROR" /\ code' \in {2, 130}
    BY <1>1, <2>1, <2>3 DEF Load, Written
  <2>4. CASE stage' = "exited" /\ code' = 1 /\ UNCHANGED report
    BY <1>1, <2>1, <2>4 DEF Load, Written
  <2> QED BY <1>1, <2>2, <2>3, <2>4, ZenonT(60) DEF Load, ToWrite
<1>2. CASE During(Next)
  BY <1>2, EndedStays DEF During, Written
<1>3. CASE RunFailed
  BY <1>3 DEF RunFailed, ToWrite, Written, vars
<1>4. CASE Report
  BY <1>4 DEF Report, ToWrite, Status, ExitCode, Written, vars
<1>5. CASE WriteReport("json", "junit")
  BY <1>5 DEF WriteReport, WriteFailed, Written, vars, report_to_junit_xml
<1>6. CASE WriteReport("junit", "exited")
  BY <1>6 DEF WriteReport, WriteFailed, Written, vars, report_to_junit_xml
<1>7. CASE InterruptReport
  BY <1>7 DEF InterruptReport, Written
<1>8. CASE UNCHANGED cvars
  BY <1>8 DEF cvars, vars, command, Written
<1> QED BY ZenonT(60), <1>1, <1>2, <1>3, <1>4, <1>5, <1>6, <1>7, <1>8 DEF CNext, Finish

\* Every behaviour of the command keeps both invariants.
LEMMA CommandAlways == CSpec => [](RunnerInv /\ CommandInv)
<1>1. CInit => RunnerInv /\ CommandInv
  BY RunnerInit, CommandInit, ZenonT(60) DEF CInit
<1>2. RunnerInv /\ CommandInv /\ [CNext]_cvars => (RunnerInv /\ CommandInv)'
  BY RunnerStep, CommandInvStep
<1> QED BY <1>1, <1>2, PTL DEF CSpec

-----------------------------------------------------------------------------
\* The variables of ScenarioRunner.run keep their types in the whole command;
\* the queue of the device never exceeds its FIFO.
THEOREM RunnerTypes == CSpec => []TypeOK
<1>1. RunnerInv => TypeOK
  BY DEF RunnerInv
<1> QED BY <1>1, RunnerAlways, PTL

\* However a run ends, cleanup has restored process and device, unless Ctrl+C
\* struck in one of the gaps or the output collector failed (_cleanup_backend
\* and the except block of ScenarioRunner.run).
THEOREM RunRestores == CSpec => []AlwaysRestored
<1>1. RunnerInv => AlwaysRestored
  BY DEF RunnerInv, Safe, AlwaysRestored
<1> QED BY <1>1, RunnerAlways, PTL

\* ScenarioRunner.run returns a result for complete runs only.
THEOREM ResultsComplete == CSpec => []ResultComplete
<1>1. RunnerInv => ResultComplete
  BY DEF RunnerInv, Progress, ResultComplete
<1> QED BY <1>1, RunnerAlways, PTL

\* A report of PASS is made of a complete run only, and the run stays complete
\* while it is written.
LEMMA PassComplete ==
  ASSUME RunnerInv, CommandInv, stage \in {"json", "junit", "exited"}, report = "PASS"
  PROVE  Complete
BY DEF RunnerInv, CommandInv, Progress, Complete

\* The exit code 0 of cli.main means a complete run in time and reports of
\* success written by this command.
THEOREM ExitZero == CSpec => []ZeroMeansPass
<1>1. RunnerInv /\ CommandInv => ZeroMeansPass
  BY PassComplete DEF CommandInv, ZeroMeansPass, Written, report_to_junit_xml, Passing
<1> QED BY <1>1, CommandAlways, PTL

\* No report on disk claims success for a run that was not one, and the JSON
\* and JUnit files agree (_write_reports of cli.py, report_to_junit_xml).
THEOREM HonestReports == CSpec => []ReportsHonest
<1>1. ASSUME RunnerInv, CommandInv PROVE ReportsHonest
  <2>1. ASSUME NEW f \in Requested, files[f] \notin {"old", "torn"}
        PROVE  /\ files[f] = Written(f) /\ stage \in {"json", "junit", "exited"}
               /\ files[f] \in Passing <=> report = "PASS"
    BY <1>1, <2>1 DEF CommandInv, Written, report_to_junit_xml, Passing
  <2> QED BY <1>1, <2>1, PassComplete DEF ReportsHonest, Passing
<1> QED BY <1>1, CommandAlways, PTL

-----------------------------------------------------------------------------
(* The kernel log collector: what observe takes off the second reading is  *)
(* never a line of the run, and is all that is old if nothing was dropped  *)
(* or nothing repeats.                                                     *)

INSTANCE WellFoundedInduction

Reading == [ok : BOOLEAN, lines : Seq(Texts)]

\* The lines of the snapshot that the ring still holds.
Kept == Len(before.lines) - lost

\* The ring begins with the end of the snapshot, and the rest of it is new.
RingInv ==
  /\ ring \in Seq(Texts) /\ Len(ring) <= RingSize
  /\ before \in Reading
  /\ fresh \in Nat /\ lost \in Nat
  /\ phase = "running" /\ before.ok =>
       /\ lost <= Len(before.lines) /\ Kept <= Len(ring)
       /\ \A i \in 1..Kept : ring[i] = before.lines[lost + i]
       /\ IF lost < Len(before.lines) THEN Len(ring) = Kept + fresh ELSE Len(ring) <= fresh

-----------------------------------------------------------------------------
(* The overlap of two readings.                                            *)

\* A set of numbers up to n that is not empty has a largest element.
LEMMA Largest ==
  ASSUME NEW n \in Nat, NEW S \in SUBSET (0..n), S # {}
  PROVE  \E x \in S : \A y \in S : y <= x
<1> DEFINE R == OpToRel(<, Nat)
<1> DEFINE D == {n - y : y \in S}
<1>1. IsWellFoundedOn(R, Nat)
  BY NatLessThanWellFounded
<1>2. \A a, b \in Nat : a < b => <<a, b>> \in R
  BY DEF OpToRel
<1>3. D \subseteq Nat /\ D # {}
  <2>1. \A y \in S : n - y \in Nat
    OBVIOUS
  <2>2. PICK y \in S : TRUE
    BY ZenonT(60)
  <2>3. n - y \in D
    OBVIOUS
  <2> QED BY <2>1, <2>3
<1> HIDE DEF R
<1>4. PICK d \in D : \A c \in D : ~(<<c, d>> \in R)
  <2> HIDE DEF D
  <2> QED BY <1>1, <1>3, WFMin, ZenonT(60)
<1>5. \A c \in D : ~(c < d)
  BY <1>2, <1>3, <1>4, ZenonT(60)
<1>6. PICK x \in S : d = n - x
  BY <1>4
<1>7. \A y \in S : ~(n - y < n - x)
  BY <1>5, <1>6, ZenonT(60)
<1> QED BY <1>6, <1>7

\* Length and elements of the end of a sequence.
LEMMA EndOf ==
  ASSUME NEW S, NEW s \in Seq(S), NEW k \in 0..Len(s)
  PROVE  LET e == SubSeq(s, k + 1, Len(s))
         IN  e \in Seq(S) /\ Len(e) = Len(s) - k /\ \A i \in 1..(Len(s) - k) : e[i] = s[k + i]
<1>1. Len(s) \in Nat
  OBVIOUS
<1>2. \A i \in (k + 1)..Len(s) : s[i] \in S
  OBVIOUS
<1> QED BY <1>1, <1>2

\* Two ends of one sequence: the shorter is an end of the longer.
LEMMA EndOfEnd ==
  ASSUME NEW S, NEW s \in Seq(S), NEW j \in 0..Len(s), NEW k \in 0..Len(s), j <= k
  PROVE  LET b == SubSeq(s, j + 1, Len(s))
         IN  \E i \in 0..Len(b) : SubSeq(s, k + 1, Len(s)) = SubSeq(b, i + 1, Len(b))
<1> DEFINE n == Len(s)
<1> DEFINE a == SubSeq(s, k + 1, n)
<1> DEFINE b == SubSeq(s, j + 1, n)
<1> DEFINE c == SubSeq(b, (k - j) + 1, Len(b))
<1>1. n \in Nat
  OBVIOUS
<1>2. a \in Seq(S) /\ Len(a) = n - k /\ \A i \in 1..(n - k) : a[i] = s[k + i]
  BY EndOf
<1>3. b \in Seq(S) /\ Len(b) = n - j /\ \A i \in 1..(n - j) : b[i] = s[j + i]
  BY EndOf
<1> HIDE DEF a, b
<1>4. k - j \in 0..Len(b) /\ (n - j) - (k - j) = n - k
  BY <1>1, <1>3
<1>5. Len(c) = n - k /\ c \in Seq(S) /\ \A i \in 1..(n - k) : c[i] = b[(k - j) + i]
  BY <1>3, <1>4, EndOf
<1> HIDE DEF c, n
<1>6. \A i \in 1..(n - k) : (k - j) + i \in 1..(n - j) /\ j + ((k - j) + i) = k + i
  BY <1>1, <1>4
<1>7. \A i \in 1..(n - k) : a[i] = c[i]
  BY <1>2, <1>3, <1>5, <1>6, ZenonT(60)
<1>8. a = [i \in 1..(n - k) |-> a[i]] /\ c = [i \in 1..(n - k) |-> c[i]]
  BY <1>2, <1>5
<1>9. a = c
  BY <1>7, <1>8
<1> QED BY <1>4, <1>9, ZenonT(60) DEF a, b, c, n

\* What overlap returns: a number of lines that agree, and the largest one.
LEMMA OverlapIs ==
  ASSUME NEW S, NEW old \in Seq(S), NEW new \in Seq(S)
  PROVE  /\ overlap(old, new) \in 0..Len(old) /\ overlap(old, new) <= Len(new)
         /\ \A i \in 1..overlap(old, new) :
              old[(Len(old) - overlap(old, new)) + i] = new[i]
         /\ \A k \in 0..Len(old) :
              /\ k <= Len(new)
              /\ \A i \in 1..k : old[(Len(old) - k) + i] = new[i]
              => k <= overlap(old, new)
<1> DEFINE C == {k \in 0..Len(old) :
                   /\ k <= Len(new)
                   /\ SubSeq(old, Len(old) - k + 1, Len(old)) = SubSeq(new, 1, k)}
<1>1. Len(old) \in Nat /\ Len(new) \in Nat
  OBVIOUS
<1>2. ASSUME NEW k \in 0..Len(old), k <= Len(new)
      PROVE  SubSeq(old, Len(old) - k + 1, Len(old)) = SubSeq(new, 1, k) <=>
               \A i \in 1..k : old[(Len(old) - k) + i] = new[i]
  <2> DEFINE a == SubSeq(old, Len(old) - k + 1, Len(old))
  <2> DEFINE b == SubSeq(new, 1, k)
  <2>1. k \in Nat /\ Len(old) - k \in 0..Len(old) /\ k \in 0..Len(new)
        /\ Len(old) - (Len(old) - k) = k /\ (Len(old) - k) + 1 = Len(old) - k + 1
    BY <1>1, <1>2
  <2>2. a \in Seq(S) /\ Len(a) = k /\ \A i \in 1..k : a[i] = old[(Len(old) - k) + i]
    BY <2>1, EndOf
  <2>3. b \in Seq(S) /\ Len(b) = k /\ \A i \in 1..k : b[i] = new[i]
    <3>1. \A i \in 1..k : new[i] \in S
      BY <2>1
    <3> QED BY <2>1, <3>1
  <2> HIDE DEF a, b
  <2>4. a = b <=> \A i \in 1..k : a[i] = b[i]
    <3>1. a = [i \in 1..k |-> a[i]] /\ b = [i \in 1..k |-> b[i]]
      BY <2>2, <2>3
    <3> QED BY <3>1
  <2>5. a = b <=> \A i \in 1..k : old[(Len(old) - k) + i] = new[i]
    BY <2>2, <2>3, <2>4
  <2> QED BY <2>5 DEF a, b
<1>3. 0 \in C
  <2>1. \A i \in 1..0 : old[(Len(old) - 0) + i] = new[i]
    OBVIOUS
  <2>2. 0 \in 0..Len(old) /\ 0 <= Len(new)
    BY <1>1
  <2> QED BY <1>2, <2>1, <2>2
<1> DEFINE m == overlap(old, new)
<1>4. m \in C /\ \A k \in C : k <= m
  <2>1. C \in SUBSET (0..Len(old))
    OBVIOUS
  <2>2. m = CHOOSE k \in C : \A j \in C : j <= k
    BY DEF overlap
  <2> HIDE DEF C, m
  <2>3. \E k \in C : \A j \in C : j <= k
    BY <1>1, <1>3, <2>1, Largest, ZenonT(60)
  <2> QED BY <2>2, <2>3
<1> HIDE DEF m
<1>5. m \in 0..Len(old) /\ m <= Len(new)
  BY <1>4
<1>6. \A i \in 1..m : old[(Len(old) - m) + i] = new[i]
  BY <1>2, <1>4, <1>5
<1>7. ASSUME NEW k \in 0..Len(old), k <= Len(new), \A i \in 1..k : old[(Len(old) - k) + i] = new[i]
      PROVE  k <= m
  <2>1. k \in C
    BY <1>2, <1>7
  <2> HIDE DEF C
  <2> QED BY <1>4, <2>1
<1> QED BY <1>5, <1>6, <1>7 DEF m

-----------------------------------------------------------------------------
(* The invariant.                                                          *)

\* The kernel logs a line: the ring grows, or drops its first line.
LEMMA LogKeeps ==
  ASSUME RingInv, NEW text \in Texts, Log(text) PROVE RingInv'
<1> DEFINE old == before.lines
<1>1. /\ ring \in Seq(Texts) /\ Len(ring) \in Nat /\ Len(ring) <= RingSize
      /\ before \in Reading /\ old \in Seq(Texts) /\ Len(old) \in Nat
      /\ fresh \in Nat /\ lost \in Nat
  BY DEF RingInv, Reading
<1>2. /\ phase' = phase /\ before' = before
      /\ fresh' = IF phase = "running" THEN fresh + 1 ELSE fresh
  BY DEF Log
<1>3. CASE Len(ring) < RingSize
  <2>1. ring' = Append(ring, text) /\ lost' = lost
    BY <1>3 DEF Log
  <2>2. /\ ring' \in Seq(Texts) /\ Len(ring') = Len(ring) + 1
        /\ \A i \in 1..Len(ring) : ring'[i] = ring[i]
    BY <1>1, <2>1
  <2>3. Len(ring') <= RingSize
    BY <1>1, <1>3, <2>2, KernelLogAssumption
  <2>4. ASSUME phase = "running", before.ok
        PROVE  /\ lost <= Len(old) /\ Kept' <= Len(ring')
               /\ \A i \in 1..Kept' : ring'[i] = old[lost + i]
               /\ IF lost < Len(old) THEN Len(ring') = Kept' + fresh' ELSE Len(ring') <= fresh'
    <3>1. Kept' = Kept /\ fresh' = fresh + 1 /\ Kept \in Int
      BY <1>1, <1>2, <2>1, <2>4 DEF Kept
    <3>2. /\ lost <= Len(old) /\ Kept <= Len(ring)
          /\ \A i \in 1..Kept : ring[i] = old[lost + i]
          /\ IF lost < Len(old) THEN Len(ring) = Kept + fresh ELSE Len(ring) <= fresh
      BY <2>4 DEF RingInv
    <3>3. \A i \in 1..Kept : i \in 1..Len(ring)
      BY <1>1, <3>1, <3>2
    <3> QED BY <1>1, <2>2, <3>1, <3>2, <3>3
  <2>5. fresh' \in Nat /\ lost' \in Nat
    BY <1>1, <1>2, <2>1
  <2> QED BY <1>1, <1>2, <2>1, <2>2, <2>3, <2>4, <2>5, ZenonT(60) DEF RingInv
<1>4. CASE ~(Len(ring) < RingSize)
  <2>1. /\ ring' = Append(Tail(ring), text)
        /\ lost' = IF phase = "running" /\ lost < Len(old) THEN lost + 1 ELSE lost
    BY <1>4 DEF Log
  <2>2. Len(ring) = RingSize /\ ring # <<>>
    BY <1>1, <1>4, KernelLogAssumption
  <2>3. /\ Tail(ring) \in Seq(Texts) /\ Len(Tail(ring)) = Len(ring) - 1
        /\ \A i \in 1..(Len(ring) - 1) : Tail(ring)[i] = ring[i + 1]
    BY <1>1, <2>2
  <2>4. /\ ring' \in Seq(Texts) /\ Len(ring') = Len(ring)
        /\ \A i \in 1..(Len(ring) - 1) : ring'[i] = ring[i + 1]
    <3>1. ring' \in Seq(Texts) /\ Len(ring') = Len(Tail(ring)) + 1
      BY <2>1, <2>3
    <3>2. \A i \in 1..Len(Tail(ring)) : ring'[i] = Tail(ring)[i]
      BY <2>1, <2>3
    <3> QED BY <1>1, <2>3, <3>1, <3>2
  <2>5. fresh' \in Nat /\ lost' \in Nat
    BY <1>1, <1>2, <2>1
  <2>6. ASSUME phase = "running", before.ok
        PROVE  /\ lost' <= Len(old) /\ Kept' <= Len(ring')
               /\ \A i \in 1..Kept' : ring'[i] = old[lost' + i]
               /\ IF lost' < Len(old) THEN Len(ring') = Kept' + fresh' ELSE Len(ring') <= fresh'
    <3>1. Kept' = Len(old) - lost' /\ fresh' = fresh + 1 /\ Kept = Len(old) - lost
      BY <1>2, <2>6 DEF Kept
    <3>2. /\ lost <= Len(old) /\ Kept <= Len(ring)
          /\ \A i \in 1..Kept : ring[i] = old[lost + i]
          /\ IF lost < Len(old) THEN Len(ring) = Kept + fresh ELSE Len(ring) <= fresh
      BY <2>6 DEF RingInv
    <3>3. CASE lost < Len(old)
      <4>1. lost' = lost + 1 /\ Kept' = Kept - 1 /\ Kept \in Nat
        <5>1. lost' = lost + 1
          BY <2>1, <2>6, <3>3
        <5> QED BY <1>1, <3>1, <3>3, <5>1
      <4>2. \A i \in 1..Kept' : ring'[i] = old[lost' + i]
        <5> SUFFICES ASSUME NEW i \in 1..Kept' PROVE ring'[i] = old[lost' + i]
          OBVIOUS
        <5>1. i \in 1..(Len(ring) - 1) /\ i + 1 \in 1..Kept /\ lost + (i + 1) = lost' + i
          BY <1>1, <3>2, <4>1
        <5>2. ring'[i] = ring[i + 1] /\ ring[i + 1] = old[lost + (i + 1)]
          BY <2>4, <3>2, <5>1
        <5> QED BY <5>1, <5>2
      <4>3. lost' <= Len(old) /\ Kept' <= Len(ring')
        BY <1>1, <2>4, <3>2, <3>3, <4>1
      <4>4. IF lost' < Len(old) THEN Len(ring') = Kept' + fresh' ELSE Len(ring') <= fresh'
        <5>1. Len(ring') = Kept' + fresh'
          <6>1. Len(ring) = Kept + fresh
            BY <3>2, <3>3
          <6>2. Len(ring') = Len(ring) /\ Kept' = Kept - 1 /\ fresh' = fresh + 1
            BY <2>4, <3>1, <4>1
          <6> HIDE DEF Kept
          <6> QED BY <1>1, <4>1, <6>1, <6>2
        <5>2. ~(lost' < Len(old)) => Kept' = 0
          BY <1>1, <3>1, <4>1, <4>3
        <5>3. fresh' \in Nat
          BY <2>5
        <5> QED BY <5>1, <5>2, <5>3
      <4> QED BY <4>2, <4>3, <4>4
    <3>4. CASE ~(lost < Len(old))
      <4>1. lost' = lost /\ lost = Len(old) /\ Kept' = 0
        BY <1>1, <2>1, <3>1, <3>2, <3>4
      <4> QED BY <1>1, <2>4, <3>1, <3>2, <3>4, <4>1
    <3> QED BY <3>3, <3>4
  <2> QED BY <1>1, <1>2, <2>4, <2>5, <2>6, ZenonT(60) DEF RingInv
<1> QED BY <1>3, <1>4

\* The invariant of the ring while a scenario runs: Kept is where the old
\* lines end.
THEOREM RingInvariant == KSpec => []RingInv
<1>1. KInit => RingInv
  <2> SUFFICES ASSUME KInit PROVE RingInv
    OBVIOUS
  <2>1. <<>> \in Seq(Texts) /\ Len(<<>>) = 0
    OBVIOUS
  <2> QED BY <2>1, KernelLogAssumption DEF KInit, RingInv, Reading, NoReading
<1>2. RingInv /\ [KNext]_kvars => RingInv'
  <2> SUFFICES ASSUME RingInv, [KNext]_kvars PROVE RingInv'
    OBVIOUS
  <2>1. ASSUME NEW text \in Texts, Log(text) PROVE RingInv'
    BY <2>1, LogKeeps
  <2>2. CASE snapshot
    <3>1. before' \in Reading
      <4>1. NoReading \in Reading
        BY DEF NoReading, Reading
      <4>2. [ok |-> TRUE, lines |-> ring] \in Reading
        BY DEF RingInv, Reading
      <4> QED BY <2>2, <4>1, <4>2, ZenonT(60) DEF snapshot, _read
    <3>2. ring' = ring /\ fresh' = 0 /\ lost' = 0
      BY <2>2 DEF snapshot
    <3>3. CASE before'.ok
      <4>1. before'.lines = ring
        BY <2>2, <3>3 DEF snapshot, _read, NoReading
      <4>2. Len(ring) \in Nat
        BY DEF RingInv
      <4>3. Kept' = Len(ring)
        BY <3>2, <4>1, <4>2 DEF Kept
      <4>4. \A i \in 1..Len(ring) : ring[i] = ring[0 + i]
        BY <4>2
      <4> QED BY <3>1, <3>2, <4>1, <4>2, <4>3, <4>4 DEF RingInv
    <3> QED BY <3>1, <3>2, <3>3, ZenonT(60) DEF RingInv
  <2>3. CASE observe
    <3>1. phase' = "observed" /\ UNCHANGED <<ring, before, fresh, lost>>
      BY <2>3 DEF observe
    <3> QED BY <3>1 DEF RingInv
  <2>4. CASE Done
    <3>1. NoReading \in Reading
      BY DEF NoReading, Reading
    <3> QED BY <2>4, <3>1 DEF Done, RingInv
  <2>5. CASE UNCHANGED kvars
    BY <2>5, ZenonT(60) DEF kvars, RingInv, Kept
  <2> QED BY <2>1, <2>2, <2>3, <2>4, <2>5 DEF KNext
<1> QED BY <1>1, <1>2, PTL DEF KSpec

\* Where the new lines begin.
LEMMA NewLinesAre ==
  ASSUME RingInv, phase = "running", before.ok
  PROVE  /\ Kept \in 0..Len(ring) /\ Kept \in 0..Len(before.lines)
         /\ NewLines = SubSeq(ring, Kept + 1, Len(ring))
<1>1. /\ Len(ring) \in Nat /\ fresh \in Nat /\ lost \in Nat /\ Len(before.lines) \in Nat
      /\ lost <= Len(before.lines) /\ Kept <= Len(ring)
      /\ IF lost < Len(before.lines) THEN Len(ring) = Kept + fresh ELSE Len(ring) <= fresh
  BY DEF RingInv, Reading
<1>2. Kept \in 0..Len(ring) /\ Kept \in 0..Len(before.lines)
  BY <1>1 DEF Kept
<1>3. (IF fresh < Len(ring) THEN Len(ring) - fresh ELSE 0) = Kept
  <2>1. CASE lost < Len(before.lines)
    <3>1. Len(ring) = Kept + fresh
      BY <1>1, <2>1
    <3>2. Kept \in Nat
      BY <1>1, <1>2
    <3> QED BY <1>1, <3>1, <3>2
  <2>2. CASE ~(lost < Len(before.lines))
    <3>1. Kept = 0
      BY <1>1, <2>2 DEF Kept
    <3>2. Len(ring) <= fresh
      BY <1>1, <2>2
    <3> QED BY <1>1, <3>1, <3>2
  <2> QED BY <2>1, <2>2
<1> QED BY <1>2, <1>3 DEF NewLines

\* The overlap takes all old lines off.
LEMMA OverlapTakes ==
  ASSUME RingInv, phase = "running", before.ok
  PROVE  /\ overlap(before.lines, ring) \in 0..Len(ring)
         /\ Kept <= overlap(before.lines, ring)
<1> DEFINE old == before.lines
<1>1. old \in Seq(Texts) /\ ring \in Seq(Texts) /\ Len(old) \in Nat /\ lost \in Nat
  BY DEF RingInv, Reading
<1>2. Kept \in 0..Len(ring) /\ Kept \in 0..Len(old)
  BY NewLinesAre
<1>3. Len(old) - Kept = lost
  BY <1>1 DEF Kept
<1>4. \A i \in 1..Kept : old[(Len(old) - Kept) + i] = ring[i]
  BY <1>3 DEF RingInv
<1>5. overlap(old, ring) \in 0..Len(old) /\ overlap(old, ring) <= Len(ring)
  BY <1>1, OverlapIs, ZenonT(60)
<1>6. Kept <= overlap(old, ring)
  <2>1. \A k \in 0..Len(old) :
          k <= Len(ring) /\ (\A i \in 1..k : old[(Len(old) - k) + i] = ring[i]) =>
            k <= overlap(old, ring)
    BY <1>1, OverlapIs, ZenonT(60)
  <2>2. Kept <= Len(ring)
    BY <1>2
  <2> HIDE DEF old
  <2> QED BY <1>2, <1>4, <2>1, <2>2
<1> QED BY <1>1, <1>5, <1>6

\* What an observation that could read the log twice reports.
LEMMA Observed ==
  ASSUME observe, observation'.ok
  PROVE  /\ phase = "running" /\ before.ok
         /\ observation'.lines = SubSeq(ring, overlap(before.lines, ring) + 1, Len(ring))
<1>1. PICK after \in _read :
        observation' = IF ~before.ok \/ ~after.ok THEN NoReading
                  ELSE [ok |-> TRUE,
                        lines |-> SubSeq(after.lines,
                                         overlap(before.lines, after.lines) + 1,
                                         Len(after.lines))]
  BY ZenonT(60) DEF observe
<1>2. ~NoReading.ok
  BY DEF NoReading
<1>3. before.ok /\ after.ok
  BY <1>1, <1>2
<1>4. after = [ok |-> TRUE, lines |-> ring]
  BY <1>2, <1>3 DEF _read
<1> QED BY <1>1, <1>3, <1>4, ZenonT(60) DEF observe

\* No line that was in the log before the run is reported, for every size of
\* the ring, however many lines are dropped and however they repeat.
THEOREM ReportsOnlyNew == KSpec => OnlyNewReported
<1>1. RingInv /\ [KNext]_kvars =>
        [observe /\ observation'.ok =>
           \E k \in 0..Len(NewLines) :
             observation'.lines = SubSeq(NewLines, k + 1, Len(NewLines))]_kvars
  <2> SUFFICES ASSUME RingInv, observe, observation'.ok
               PROVE  \E k \in 0..Len(NewLines) :
                        observation'.lines = SubSeq(NewLines, k + 1, Len(NewLines))
    OBVIOUS
  <2>1. /\ phase = "running" /\ before.ok
        /\ observation'.lines = SubSeq(ring, overlap(before.lines, ring) + 1, Len(ring))
    BY Observed
  <2>2. Kept \in 0..Len(ring) /\ NewLines = SubSeq(ring, Kept + 1, Len(ring))
    BY <2>1, NewLinesAre
  <2>3. overlap(before.lines, ring) \in 0..Len(ring) /\ Kept <= overlap(before.lines, ring)
    BY <2>1, OverlapTakes
  <2>4. ring \in Seq(Texts)
    BY DEF RingInv
  <2> QED BY <2>1, <2>2, <2>3, <2>4, EndOfEnd, ZenonT(60)
<1> QED BY <1>1, RingInvariant, PTL DEF KSpec, OnlyNewReported

\* Every new line still in the ring is reported, for every size of the ring,
\* if no old line was dropped or no new one repeats an old one.
THEOREM ReportsAllNew == KSpec => NewReported
<1>1. RingInv /\ [KNext]_kvars =>
        [observe /\ observation'.ok
           /\ (lost = 0 \/ \A i \in DOMAIN before.lines, j \in DOMAIN NewLines :
                            before.lines[i] # NewLines[j])
         => observation'.lines = NewLines]_kvars
  <2> SUFFICES ASSUME RingInv, observe, observation'.ok,
                      lost = 0 \/ \A i \in DOMAIN before.lines, j \in DOMAIN NewLines :
                                    before.lines[i] # NewLines[j]
               PROVE  observation'.lines = NewLines
    OBVIOUS
  <2> DEFINE old == before.lines
  <2> DEFINE k == overlap(old, ring)
  <2>1. phase = "running" /\ before.ok /\ observation'.lines = SubSeq(ring, k + 1, Len(ring))
    BY Observed
  <2>2. /\ Kept \in 0..Len(ring) /\ Kept \in 0..Len(old)
        /\ NewLines = SubSeq(ring, Kept + 1, Len(ring))
    BY <2>1, NewLinesAre
  <2>3. k \in 0..Len(ring) /\ Kept <= k
    BY <2>1, OverlapTakes
  <2>4. old \in Seq(Texts) /\ ring \in Seq(Texts) /\ Len(old) \in Nat /\ Len(ring) \in Nat
    BY DEF RingInv, Reading
  <2>5. k \in 0..Len(old) /\ \A i \in 1..k : old[(Len(old) - k) + i] = ring[i]
    BY <2>4, OverlapIs
  <2> HIDE DEF k
  <2>6. k = Kept
    <3>1. CASE lost = 0
      <4>1. Kept = Len(old)
        BY <2>4, <3>1 DEF Kept
      <4> QED BY <2>3, <2>4, <2>5, <4>1
    <3>2. CASE \A i \in DOMAIN old, j \in DOMAIN NewLines : old[i] # NewLines[j]
      <4>1. SUFFICES ASSUME Kept < k PROVE FALSE
        BY <2>2, <2>3, <2>5
      <4>2. k \in 1..k /\ (Len(old) - k) + k = Len(old) /\ Len(old) \in 1..Len(old)
        BY <2>2, <2>4, <2>5, <4>1
      <4>3. old[Len(old)] = ring[k]
        BY <2>5, <4>2
      <4>4. k - Kept \in 1..(Len(ring) - Kept) /\ Kept + (k - Kept) = k
        BY <2>2, <2>3, <2>4, <4>1
      <4>5. /\ NewLines \in Seq(Texts) /\ Len(NewLines) = Len(ring) - Kept
            /\ NewLines[k - Kept] = ring[Kept + (k - Kept)]
        BY <2>2, <2>4, <4>4, EndOf, ZenonT(60)
      <4>6. Len(old) \in DOMAIN old /\ k - Kept \in DOMAIN NewLines
        BY <2>4, <4>2, <4>4, <4>5
      <4> QED BY <3>2, <4>3, <4>4, <4>5, <4>6
    <3> QED BY <3>1, <3>2
  <2> QED BY <2>1, <2>2, <2>6
<1> QED BY <1>1, RingInvariant, PTL DEF KSpec, NewReported
=============================================================================

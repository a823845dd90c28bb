-------------------------- MODULE ScenarioCommand --------------------------
(***************************************************************************)
(* The command "vdevlab run" (src/src/vdevlab/cli.py) around ScenarioRunner: *)
(* the scenario is loaded and run, the outcome classified by report.py, the *)
(* JSON and JUnit reports are written, and the exit code is chosen.  What a *)
(* report says is abstracted to its status.                                *)
(***************************************************************************)
EXTENDS ScenarioRunner

CONSTANTS
  AppExits,      \* exit codes of the application; negative for a signal
  Requested      \* the reports asked for: subset of {"json", "junit"}

ASSUME CommandAssumption ==
  AppExits \subseteq Int /\ Requested \subseteq {"json", "junit"}

VARIABLES
  stage,         \* "load", "run", "json", "junit" or "exited"
  timedOut,      \* result.application.timed_out
  report,        \* the status of the report to be written
  files,         \* at each path: "old" content, "torn", or what was written
  code           \* the exit code main() returns

command == <<stage, timedOut, report, files, code>>
cvars == <<vars, command>>

CInit ==
  /\ Init
  /\ stage = "load" /\ timedOut = FALSE /\ report = "none" /\ code = 0
  /\ files = [f \in Requested |-> "old"]

\* A report is on its way to its files; c is returned once they are written.
ToWrite(status, c) == stage' = "json" /\ report' = status /\ code' = c

\* load_scenario: the document is accepted, rejected, or raises an error that
\* main() does not expect (UnicodeDecodeError of a file that is not UTF-8),
\* which ends it without a report.  Ctrl+C is handled like one in run().
Load ==
  /\ stage = "load"
  /\ \/ stage' = "run" /\ UNCHANGED <<report, code, interrupts>>
     \/ ToWrite("ERROR", 2) /\ UNCHANGED interrupts
     \/ stage' = "exited" /\ code' = 1 /\ UNCHANGED <<report, interrupts>>
     \/ /\ interrupts < MaxInterrupts /\ interrupts' = interrupts + 1
        /\ ToWrite("ERROR", 130)
  /\ UNCHANGED <<scenario, at, handling, error, process, fd, dev, event, left,
                 expired, cleanupFailed, hit, timedOut, files>>

\* A step of run(), or of the application it may have left behind;
\* terminate() outside of the except block marks the result as timed out.
During(A) ==
  /\ stage = "run" \/ at = "ended"
  /\ A
  /\ timedOut' = (timedOut \/ (at' = "poll" /\ ~handling'))
  /\ UNCHANGED <<stage, report, files, code>>

\* The except clauses of main().
RunFailed ==
  /\ stage = "run" /\ at = "ended" /\ error # "none"
  /\ ToWrite("ERROR", IF error = "KeyboardInterrupt" THEN 130 ELSE 1)
  /\ UNCHANGED <<vars, timedOut, files>>

\* build_scenario_report: an unreadable application log, a kernel log that was
\* required and is not available, the timeout, then the assertions, of which
\* the exit code is always one.
Status(parsed, kernelOk, passed, exit) ==
  IF ~parsed \/ ~kernelOk THEN "ERROR"
  ELSE IF timedOut THEN "TIMEOUT"
  ELSE IF ~passed \/ exit # 0 THEN "FAIL" ELSE "PASS"

\* Deviation of ExitCode: only the application's exit code counts.
ExitCodeOfApp(status, exit) ==
  IF exit # 0 THEN (IF exit \in 1..125 THEN exit ELSE 1) ELSE 0

ExitCode(status, exit) ==
  IF status = "TIMEOUT" THEN 124
  ELSE IF exit # 0 THEN (IF exit \in 1..125 THEN exit ELSE 1)
  ELSE IF status # "PASS" THEN 1 ELSE 0

Report ==
  /\ stage = "run" /\ at = "ended" /\ error = "none"
  /\ \E parsed, kernelOk, passed \in BOOLEAN, exit \in AppExits :
       LET status == Status(parsed, kernelOk, passed, exit)
       IN  ToWrite(status, ExitCode(status, exit))
  /\ UNCHANGED <<vars, timedOut, files>>

\* Only a report of a run that raised nothing turns a failed write into an
\* exit code of 1; the error report's failure is printed and ignored.
WriteFailed == code' = IF at = "ended" /\ error = "none" THEN 1 ELSE code

\* Deviation of report_to_junit_xml: a timeout is not counted as an error.
JunitNoTimeout(status) ==
  IF status = "FAIL" THEN "failure" ELSE IF status = "ERROR" THEN "error" ELSE "success"

\* The verdict a reader of the JUnit file gets from its failures and errors.
report_to_junit_xml(status) ==
  IF status = "FAIL" THEN "failure"
  ELSE IF status \in {"ERROR", "TIMEOUT"} THEN "error" ELSE "success"

\* _write_reports: JSON first; the first failure ends it.  Opening the file
\* empties it.
WriteReport(f, next) ==
  /\ stage = f
  /\ \/ f \notin Requested /\ stage' = next /\ UNCHANGED <<files, code>>
     \/ /\ f \in Requested
        /\ files' = [files EXCEPT ![f] = IF f = "json" THEN report
                                       ELSE report_to_junit_xml(report)]
        /\ stage' = next
        /\ UNCHANGED code
     \/ /\ f \in Requested
        /\ \E left_over \in {files[f], "torn"} :
             files' = [files EXCEPT ![f] = left_over]
        /\ stage' = "exited"
        /\ WriteFailed
  /\ UNCHANGED <<vars, timedOut, report>>

\* Ctrl+C outside of the try block is not caught.
InterruptReport ==
  /\ stage \in {"json", "junit"}
  /\ interrupts < MaxInterrupts /\ interrupts' = interrupts + 1
  /\ stage' = "exited" /\ code' = 130
  /\ UNCHANGED <<scenario, at, handling, error, process, fd, dev, event, left,
                 expired, cleanupFailed, hit, timedOut, report, files>>

Finish == RunFailed \/ Report \/ WriteReport("json", "junit") \/ WriteReport("junit", "exited")

CNext == Load \/ During(Next) \/ Finish \/ InterruptReport

CSpec == CInit /\ [][CNext]_cvars

\* The two threads are scheduled and time passes.  The application need not
\* read, exit, or obey SIGTERM.
CFairSpec ==
  /\ CSpec
  /\ WF_cvars(During(Main)) /\ WF_cvars(During(CollectorDone))
  /\ WF_cvars(During(Expire)) /\ WF_cvars(Load \/ Finish)

-----------------------------------------------------------------------------
\* What holds of a run that may be called a success: complete, in time, and
\* with the device reset and closed.
Complete ==
  /\ error = "none" /\ event > Len(scenario) /\ collector = "done"
  /\ fd = "closed" /\ Clean /\ ~timedOut

Passing == {"PASS", "success"}

\* The exit code 0 of the command means that the run was complete and in time,
\* the device reset and closed, and that every report asked for was written by
\* this command and reports success.
ZeroMeansPass ==
  stage = "exited" /\ code = 0 =>
    Complete /\ \A f \in Requested : files[f] \in Passing

\* A report on disk never reports success for a run that was cut short, timed out or
\* left the device behind, and the two reports never contradict each other,
\* whatever fails or is interrupted while they are written.
ReportsHonest ==
  /\ \A f \in Requested : files[f] \in Passing => Complete
  /\ \A f, g \in Requested :
       files[f] \notin {"old", "torn"} /\ files[g] \notin {"old", "torn"}
         => (files[f] \in Passing <=> files[g] \in Passing)
=============================================================================

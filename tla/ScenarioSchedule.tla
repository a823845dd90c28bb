-------------------------- MODULE ScenarioSchedule --------------------------
(***************************************************************************)
(* vdevlab run against the clock: the document is validated, the           *)
(* application started, the events dispatched at their times and the       *)
(* timeout applied (src/src/vdevlab/runner.py), and the report puts both   *)
(* logs on one time line (report.py).  ScenarioRunner has the same run     *)
(* without time, with its failures and its cleanup.                        *)
(*                                                                         *)
(* The clock counts Res ticks in a millisecond.  Starting the process and  *)
(* the calls to the device take any time, and so does the application; the *)
(* runner's own computation takes none.  A write that blocks is a call     *)
(* that takes long.                                                        *)
(***************************************************************************)
EXTENDS ScenarioSchema, LogAnalysis

CONSTANTS
  Docs,           \* the documents given to the command, a sequence
  Res,            \* ticks in a millisecond
  GraceMs,        \* terminate_grace_ms
  Found,          \* the faults the device may be found with
  MaxTime,        \* bound: the last tick
  MaxLines        \* bound: how many lines the application logs

ASSUME ScheduleAssumption ==
  Res \in Nat \ {0} /\ GraceMs \in Nat \ {0} /\ MaxTime \in Nat /\ MaxLines \in Nat

VARIABLES
  which,          \* the document
  events, timeout, assertions,  \* what becomes of it: ScenarioDefinition
  at,             \* where the command is
  now,            \* the clock
  started,        \* ScenarioRunner.run: started
  origin,         \* ScenarioScheduler.run: origin
  index,          \* the next event
  until,          \* when the sleep or the wait ends
  begun,          \* when the call to the device began
  dispatches,     \* the DispatchRecords
  timed_out,
  found, fault,   \* the device: the fault at the start and now
  queued,         \* messages in the FIFO
  app,            \* the application's process
  retrying,       \* its last read failed with EIO
  text            \* its output; cause counts the events it had seen the effect of

scenario == <<which, events, timeout, assertions>>
run == <<scenario, started, origin>>
device == <<found, fault, queued>>
application == <<app, retrying, text>>
svars == <<which, events, timeout, assertions, at, now, started, origin, index, until, begun, dispatches,
           timed_out, found, fault, queued, app, retrying, text>>

NoFault == [type |-> "none", value |-> 0]

\* The clock starts at any phase of a millisecond.
SInit ==
  /\ which \in DOMAIN Docs /\ events = <<>> /\ timeout = 0 /\ assertions = <<>>
  /\ at = "load" /\ now \in 0..(Res - 1)
  /\ started = 0 /\ origin = 0 /\ index = 1 /\ until = 0 /\ begun = 0
  /\ dispatches = <<>> /\ timed_out = FALSE
  /\ found \in Found /\ fault = found /\ queued = 0
  /\ app = "none" /\ retrying = FALSE /\ text = <<>>

-----------------------------------------------------------------------------
(* The start of the run.                                                   *)

Load ==
  /\ at = "load"
  /\ IF parse_scenario(Docs[which])
     THEN /\ at' = "open"
          /\ events' = events_of(Docs[which]) /\ timeout' = timeout_ms(Docs[which])
          /\ assertions' = assertions_of(Docs[which])
     ELSE at' = "rejected" /\ UNCHANGED <<events, timeout, assertions>>
  /\ UNCHANGED <<which, started, origin, now, index, until, begun, dispatches, timed_out, device, application>>

Open ==
  /\ at = "open" /\ at' = "popen" /\ started' = now
  /\ UNCHANGED <<scenario, origin, now, index, until, begun, dispatches, timed_out, device,
                 application>>

\* The process runs before Popen returns.
Spawn ==
  /\ at = "popen" /\ app = "none" /\ app' = "running"
  /\ UNCHANGED <<run, at, now, index, until, begun, dispatches, timed_out, device, retrying,
                 text>>

Spawned ==
  /\ at = "popen" /\ app # "none"
  /\ at' = "next" /\ origin' = now
  /\ UNCHANGED <<scenario, started, now, index, until, begun, dispatches, timed_out, device,
                 application>>

-----------------------------------------------------------------------------
(* ScenarioScheduler.run.                                                  *)

\* Deviation of deadline: from the end of the event before.
deadline_from_last ==
  events[index].at_ms * Res + IF index = 1 THEN origin ELSE dispatches[index - 1].finished

deadline == origin + events[index].at_ms * Res

\* The head of the loop: sleep if the event is not due.
NextEvent ==
  /\ at = "next" /\ index <= Len(events)
  /\ IF deadline > now
     THEN at' = "sleep" /\ until' = deadline /\ UNCHANGED begun
     ELSE at' = "call" /\ begun' = now /\ UNCHANGED until
  /\ UNCHANGED <<run, now, index, dispatches, timed_out, device, application>>

Wake ==
  /\ at = "sleep" /\ now >= until
  /\ at' = "call" /\ begun' = now
  /\ UNCHANGED <<run, now, index, until, dispatches, timed_out, device, application>>

VDEVLAB_MAX_DELAY_MS == 10000
VDEVLAB_MAX_FAULT_REPEAT == 1000000
VDEVLAB_MAX_PARTIAL_READ == 4096

\* vdevlab_ioctl(SET_FAULT) on what _fault_configuration and set_fault send.
DriverAccepts(e) ==
  /\ e.type = "eio" => e.value \in 1..VDEVLAB_MAX_FAULT_REPEAT
  /\ e.type = "delay" => e.value \in 1..VDEVLAB_MAX_DELAY_MS
  /\ e.type = "partial-read" => e.value \in 1..VDEVLAB_MAX_PARTIAL_READ

\* _dispatch: the call has its effect.
Dispatch ==
  LET e == events[index]
  IN  /\ at = "call"
      /\ \/ e.action = "fault" /\ DriverAccepts(e)
            /\ fault' = [type |-> e.type, value |-> e.value] /\ UNCHANGED queued
         \/ e.action = "clear" /\ fault' = NoFault /\ UNCHANGED queued
         \/ e.action = "reset" /\ fault' = NoFault /\ queued' = 0
         \/ e.action = "write" /\ fault.type # "disconnect"
            /\ queued' = queued + 1 /\ UNCHANGED fault
      /\ at' = "return"
      /\ UNCHANGED <<run, now, index, until, begun, dispatches, timed_out, found, application>>

\* The driver refuses it: EventDispatchError, and the run ends without a result.
DispatchFails ==
  LET e == events[index]
  IN  /\ at = "call"
      /\ \/ e.action = "fault" /\ ~DriverAccepts(e)
         \/ e.action = "write" /\ fault.type = "disconnect"
      /\ at' = "failed"
      /\ UNCHANGED <<run, now, index, until, begun, dispatches, timed_out, device, application>>

Return ==
  /\ at = "return"
  /\ dispatches' = Append(dispatches,
       [index |-> index, action |-> events[index].action, started |-> begun, finished |-> now,
        monotonic_started_ms |-> begun \div Res])
  /\ index' = index + 1 /\ at' = "next"
  /\ UNCHANGED <<run, now, until, begun, timed_out, device, application>>

-----------------------------------------------------------------------------
(* The end of ScenarioRunner.run, collect_with_timeout and terminate.      *)

\* Deviation of elapsed_ms: rounded up.
elapsed_up_ms == (now - started + Res - 1) \div Res

elapsed_ms == (now - started) \div Res

\* Deviation of Terminate: the process is left to end by itself.
TerminateLater ==
  timed_out' = TRUE /\ at' = "collect" /\ until' = now + 2 * GraceMs * Res

\* terminate: SIGTERM to a process that still runs, and time to obey.
Terminate ==
  /\ timed_out' = TRUE
  /\ IF app = "exited" THEN at' = "ended" /\ UNCHANGED until
     ELSE at' = "grace" /\ until' = now + GraceMs * Res

Remaining ==
  /\ at = "next" /\ index > Len(events)
  /\ LET remaining_ms == timeout - elapsed_ms
     IN  IF remaining_ms <= 0 THEN Terminate
         ELSE /\ at' = "collect" /\ until' = now + remaining_ms * Res
              /\ UNCHANGED timed_out
  /\ UNCHANGED <<run, now, index, begun, dispatches, device, application>>

Collect ==
  /\ at = "collect"
  /\ \/ app = "exited" /\ at' = "ended" /\ UNCHANGED <<until, timed_out>>
     \/ app = "running" /\ now >= until /\ Terminate
  /\ UNCHANGED <<run, now, index, begun, dispatches, device, application>>

\* The process ended, or SIGKILL ends it.
Grace ==
  /\ at = "grace" /\ (app = "exited" \/ now >= until)
  /\ at' = "ended" /\ app' = "exited"
  /\ UNCHANGED <<run, now, index, until, begun, dispatches, timed_out, device, retrying, text>>

-----------------------------------------------------------------------------
(* The application and the clock.                                          *)

\* How many events had their effect on the device.
Effective == index - 1 + IF at = "return" THEN 1 ELSE 0

Line(event, n) ==
  [json |-> "object", timestamp_ms |-> now \div Res, event |-> event,
   errno |-> IF event = "READ_RETRY" THEN EIO ELSE None, n |-> n, cause |-> Effective]

\* A read: EIO, ENODEV, or a message, after which it logs its recovery first.
AppRead ==
  /\ app = "running" /\ Len(text) < MaxLines
  /\ \/ /\ fault.type = "eio"
        /\ fault' = IF fault.value = 1 THEN NoFault ELSE [fault EXCEPT !.value = @ - 1]
        /\ retrying' = TRUE /\ text' = Append(text, Line("READ_RETRY", 1))
        /\ UNCHANGED <<queued, app>>
     \/ /\ fault.type = "disconnect"
        /\ app' = "exited" /\ text' = Append(text, Line("DEVICE_DISCONNECTED", 0))
        /\ UNCHANGED <<fault, queued, retrying>>
     \/ /\ fault.type \notin {"eio", "disconnect"} /\ queued > 0
        /\ queued' = queued - 1 /\ retrying' = FALSE
        /\ text' = text \o (IF retrying THEN <<Line("RECOVERY_SUCCESS", 1)>> ELSE <<>>)
                        \o <<Line("TEMPERATURE", 0)>>
        /\ UNCHANGED <<fault, app>>
  /\ UNCHANGED <<run, at, now, index, until, begun, dispatches, timed_out, found>>

AppExit ==
  /\ app = "running" /\ app' = "exited"
  /\ UNCHANGED <<run, at, now, index, until, begun, dispatches, timed_out, device, retrying,
                 text>>

\* Time passes while the runner waits for something.
Tick ==
  /\ now < MaxTime
  /\ \/ at \in {"popen", "call", "return"}
     \/ at = "sleep" /\ now < until
     \/ at \in {"collect", "grace"} /\ app = "running" /\ now < until
  /\ now' = now + 1
  /\ UNCHANGED <<run, at, index, until, begun, dispatches, timed_out, device, application>>

SNext ==
  \/ Load \/ Open \/ Spawn \/ Spawned
  \/ NextEvent \/ Wake \/ Dispatch \/ DispatchFails \/ Return
  \/ Remaining \/ Collect \/ Grace
  \/ AppRead \/ AppExit \/ Tick

SSpec == SInit /\ [][SNext]_svars

-----------------------------------------------------------------------------
\* Every event starts at its own time, or as soon as the one before is done:
\* what an earlier event took never adds to a later one that is not late.
DispatchedOnTime ==
  \A i \in DOMAIN dispatches :
    LET due  == origin + events[i].at_ms * Res
        free == IF i = 1 THEN origin ELSE dispatches[i - 1].finished
    IN  dispatches[i].started = IF due > free THEN due ELSE free

\* An event that starts late was due while an event scheduled no later than it
\* was still being dispatched: no event waits for one of a later time.
LateExplained ==
  \A i \in DOMAIN dispatches :
    LET due == origin + events[i].at_ms * Res
    IN  dispatches[i].started > due =>
          \E j \in 1..(i - 1) :
            events[j].at_ms <= events[i].at_ms /\ dispatches[j].finished > due

\* An accepted scenario fails in the driver for two reasons only: a delay out of
\* the driver's range, or a write after a disconnect.
FailureExplained ==
  at = "failed" =>
    \/ events[index].type = "delay" /\ events[index].value \notin 1..VDEVLAB_MAX_DELAY_MS
    \/ events[index].action = "write" /\ fault.type = "disconnect"

\* Every fault event of an accepted scenario is one the driver takes.
AcceptedFaultsWork == at = "failed" => events[index].action # "fault"

\* A run is reported as timed out only after its timeout, counted from before
\* the start of the application, and always if its last event was scheduled at
\* the timeout; one that is not ended within a millisecond of it.
TimeoutHonest ==
  at = "ended" =>
    /\ timed_out => now >= started + timeout * Res
    /\ events[Len(events)].at_ms = timeout => timed_out
    /\ ~timed_out => now < started + (timeout + 1) * Res

\* The run ends: by the timeout or the end of the last call, a millisecond for
\* the rounding, and the grace period.
EndsInTime ==
  at = "ended" =>
    \/ now < started + (timeout + 1 + GraceMs) * Res
    \/ now <= dispatches[Len(events)].finished + GraceMs * Res

\* The report of a run can be built: whatever assertions the schema accepts,
\* their evaluation raises nothing and they have a verdict.
ReportBuilds ==
  at = "ended" =>
    /\ \A i \in DOMAIN assertions : Evaluable(assertions[i])
    /\ report_status(assertions, text,
         [exit_code |-> 0, timed_out |-> timed_out, kernel_log_available |-> TRUE,
          kernel_warnings |-> 0]) \in
       IF timed_out THEN {"TIMEOUT"} ELSE {"PASS", "FAIL"}

Timeline == _sorted_timeline(_dispatch_timeline(dispatches) \o _application_timeline(text))

Place(source, i) ==
  CHOOSE p \in DOMAIN Timeline : Timeline[p].source = source /\ Timeline[p].place = i

\* The time line of the report keeps causes before effects, although the time
\* stamps are cut to milliseconds: an event stands before every line that the
\* application logged after it had its effect, and the lines stay in order.
TimelineCausal ==
  at = "ended" =>
    \A k \in DOMAIN text :
      /\ \A i \in DOMAIN dispatches : i <= text[k].cause => Place(0, i) < Place(1, k)
      /\ k > 1 => Place(1, k - 1) < Place(1, k)

\* On a device found without a fault the report never shows an error or a
\* recovery before the fault was injected.  A fault that was left behind may be
\* met before the first event, even if that is a reset at 0 ms.
FaultBeforeError ==
  at = "ended" /\ found = NoFault =>
    LET injected == _first_fault_timestamp(dispatches)
        metrics  == calculate_recovery_metrics(parse_application_log(text).events)
    IN  /\ ~metrics.error
        /\ metrics.firstSeen # None => injected # None /\ injected <= metrics.firstSeen
        /\ \A i \in DOMAIN metrics.recoveries : injected <= metrics.recoveries[i].first
=============================================================================

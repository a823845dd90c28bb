--------------------------- MODULE MonitorAnalysis ---------------------------
(***************************************************************************)
(* The monitor and the analysis of its output: VTempMonitor with a clock   *)
(* that stamps what it logs, and the record of what its reads really       *)
(* returned, against which the report of LogAnalysis is judged.            *)
(***************************************************************************)
EXTENDS VTempMonitor, LogAnalysis, Functions

CONSTANTS
  MaxTime,        \* bound: the last time of the clock
  Expected,       \* the count of READ_RETRY a scenario asserts
  MaxLatency      \* the max_latency it asserts

VARIABLES
  now,            \* CLOCK_MONOTONIC in milliseconds
  stamps,         \* timestamp_ms of the entries of stdout
  reads           \* history: which reads failed with EIO or returned data, and when

mvars == <<vars, now, stamps, reads>>

MInit == Init /\ now = 0 /\ stamps = <<0>> /\ reads = <<>>

Tick == now < MaxTime /\ now' = now + 1 /\ UNCHANGED <<vars, stamps, reads>>

\* A step of the monitor, what it logs stamped and what its read returned kept.
Stamped(A) ==
  /\ A
  /\ stamps' = IF stdout' = stdout THEN stamps ELSE Append(stamps, now)
  /\ reads' = IF streak' > streak THEN Append(reads, [ok |-> FALSE, ms |-> now])
              ELSE IF at # "consume" /\ at' = "consume"
              THEN Append(reads, [ok |-> TRUE, ms |-> now]) ELSE reads
  /\ UNCHANGED now

\* Which characters are written is VTempMonitor's concern: here they end lines.
MNext ==
  Tick \/ Stamped(Step) \/ Stamped(Signal)
       \/ Stamped(Write("newline")) \/ Stamped(Inject) \/ Stamped(Reset)

MSpec == MInit /\ [][MNext]_mvars

-----------------------------------------------------------------------------
\* What the runner collected: log_retry prints errno and retry, log_recovery
\* retries.
Text ==
  [i \in DOMAIN stdout |->
     [json |-> "object", timestamp_ms |-> stamps[i], event |-> stdout[i].event,
      errno |-> IF stdout[i].event = "READ_RETRY" THEN EIO ELSE None,
      n |-> stdout[i].n]]

\* The outages that ended: from the first failure to the read that worked.
Outages ==
  {o \in (DOMAIN reads) \X (DOMAIN reads) :
     /\ o[1] < o[2] /\ reads[o[2]].ok
     /\ \A k \in o[1]..(o[2] - 1) : ~reads[k].ok
     /\ o[1] = 1 \/ reads[o[1] - 1].ok}

Failed == {i \in DOMAIN reads : ~reads[i].ok}

\* The analysis of the output never fails, and what it reports is what the
\* device did: all EIO failures but the one that ends the monitor, and one
\* recovery window for each outage that ended, with its times and with as many
\* retries seen and reported as reads failed.
MetricsTruthful ==
  LET parsed  == parse_application_log(Text)
      metrics == calculate_recovery_metrics(parsed.events)
  IN  /\ ~parsed.error /\ ~metrics.error
      /\ metrics.eio = Cardinality(Failed) - (IF result = "eio" THEN 1 ELSE 0)
      /\ Len(metrics.recoveries) = Cardinality(Outages)
      /\ Range(metrics.recoveries) =
           {[first |-> reads[o[1]].ms, recovered |-> reads[o[2]].ms,
             latency |-> reads[o[2]].ms - reads[o[1]].ms,
             observed |-> o[2] - o[1], reported |-> o[2] - o[1]] : o \in Outages}

\* The assertions of examples/scenarios/recovery.yaml on the recovery, without
\* within and with the numbers scaled.
Assertions ==
  <<[type |-> "event_count", event |-> "READ_RETRY", count |-> Expected],
    [type |-> "event_count", event |-> "RECOVERY_SUCCESS", count |-> 1,
     max_latency_ms |-> MaxLatency],
    [type |-> "stdout", contains |-> "RECOVERY_SUCCESS", not_contains |-> "READ_FAILED"]>>

Result ==
  [exit_code |-> IF result \in {"eio", "eintr"} THEN 1 ELSE 0, timed_out |-> FALSE,
   kernel_log_available |-> TRUE, kernel_warnings |-> 0]

\* The report passes exactly the runs in which the device failed the expected
\* number of reads, one outage ended, in time, and the monitor did not end as a
\* failure.  The failures need not all belong to the outage that ended.
VerdictSound ==
  at = "exited" =>
    (report_status(Assertions, Text, Result) = "PASS" <=>
       /\ Cardinality(Failed) = Expected /\ Cardinality(Outages) = 1
       /\ \A o \in Outages : reads[o[2]].ms - reads[o[1]].ms <= MaxLatency
       /\ result \notin {"eio", "eintr"})
=============================================================================

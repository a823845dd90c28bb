----------------------------- MODULE LogAnalysis -----------------------------
(***************************************************************************)
(* src/src/vdevlab/analysis.py and report.py: what vdevlab makes of the    *)
(* application's standard output.  A line of output is a record: json      *)
(* tells a JSON object from a blank line and from anything else; a field   *)
(* of the object that is missing or not a number is -1, a missing or empty *)
(* event is "".  n stands for retry in READ_RETRY and for retries in       *)
(* RECOVERY_SUCCESS.                                                       *)
(***************************************************************************)
EXTENDS Integers, Sequences, FiniteSets

EIO == 5

None == -1

-----------------------------------------------------------------------------
(* parse_application_log.                                                  *)

\* Blank lines are skipped; the first line that is no event ends the parse.
ParseLine(s, l) ==
  IF s.error \/ l.json = "blank" THEN s
  ELSE IF \/ l.json # "object" \/ l.timestamp_ms < 0 \/ l.event = ""
          \/ s.events # <<>> /\ l.timestamp_ms < s.events[Len(s.events)].timestamp_ms
       THEN [s EXCEPT !.error = TRUE]
       ELSE [s EXCEPT !.events = Append(@, l)]

parse_application_log(text) ==
  LET after[k \in 0..Len(text)] ==
        IF k = 0 THEN [error |-> FALSE, events |-> <<>>] ELSE ParseLine(after[k - 1], text[k])
  IN  after[Len(text)]

-----------------------------------------------------------------------------
(* calculate_recovery_metrics.                                             *)

NoMetrics ==
  [error |-> FALSE, eio |-> 0, retries |-> 0, recoveries |-> <<>>,
   firstSeen |-> None, first |-> None, active |-> 0]

CountRetry(m, e) ==
  IF e.errno < 0 \/ e.n < 0 THEN [m EXCEPT !.error = TRUE]
  ELSE [m EXCEPT !.eio = @ + IF e.errno = EIO THEN 1 ELSE 0,
                 !.retries = @ + 1, !.active = @ + 1,
                 !.firstSeen = IF @ = None THEN e.timestamp_ms ELSE @,
                 !.first     = IF @ = None THEN e.timestamp_ms ELSE @]

Window(m, e) ==
  [first |-> m.first, recovered |-> e.timestamp_ms, latency |-> e.timestamp_ms - m.first,
   observed |-> m.active, reported |-> e.n]

\* Deviation of CloseWindow: the count of the retries goes on.
CloseWindowOnly(m, e) ==
  IF e.n < 0 \/ m.first = None THEN [m EXCEPT !.error = TRUE]
  ELSE [m EXCEPT !.recoveries = Append(@, Window(m, e)), !.first = None]

\* A recovery closes the window that the first retry after the last one opened.
CloseWindow(m, e) ==
  IF e.n < 0 \/ m.first = None THEN [m EXCEPT !.error = TRUE]
  ELSE [m EXCEPT !.recoveries = Append(@, Window(m, e)), !.first = None, !.active = 0]

Measure(m, e) ==
  IF m.error THEN m
  ELSE IF e.event = "READ_RETRY" THEN CountRetry(m, e)
  ELSE IF e.event = "RECOVERY_SUCCESS" THEN CloseWindow(m, e) ELSE m

calculate_recovery_metrics(events) ==
  LET after[k \in 0..Len(events)] ==
        IF k = 0 THEN NoMetrics ELSE Measure(after[k - 1], events[k])
  IN  after[Len(events)]

-----------------------------------------------------------------------------
(* The assertions of a scenario.                                           *)

\* within is measured from the first event of the log.
evaluate_event_assertion(events, d) ==
  Cardinality({i \in DOMAIN events :
    /\ events[i].event = d.event
    /\ "within_ms" \in DOMAIN d =>
         events[i].timestamp_ms - events[1].timestamp_ms <= d.within_ms}) = d.count

\* Deviation of evaluate_recovery_latency: the maximum itself is too long.
LatencyBelow(metrics, maximum) ==
  /\ metrics.recoveries # <<>>
  /\ \A i \in DOMAIN metrics.recoveries : metrics.recoveries[i].latency < maximum

\* The longest recovery counts; without one the assertion fails.
evaluate_recovery_latency(metrics, maximum) ==
  /\ metrics.recoveries # <<>>
  /\ \A i \in DOMAIN metrics.recoveries : metrics.recoveries[i].latency <= maximum

Mentions(text, word) == \E i \in DOMAIN text : text[i].event = word

evaluate_stdout_assertion(text, d) ==
  /\ "contains" \in DOMAIN d => Mentions(text, d.contains)
  /\ "not_contains" \in DOMAIN d => ~Mentions(text, d.not_contains)

evaluate_disconnect(events, expected) == Mentions(events, "DEVICE_DISCONNECTED") <=> expected

evaluate_kernel_warnings(result, count) ==
  result.kernel_log_available /\ result.kernel_warnings = count

\* The evaluation of a definition raises no ValueError or KeyError, which
\* nothing would catch.
Evaluable(d) ==
  /\ d.type = "event_count" =>
       /\ {"event", "count"} \subseteq DOMAIN d /\ d.event # "" /\ d.count > 0
       /\ "within_ms" \in DOMAIN d => d.within_ms >= 0
  /\ d.type = "stdout" => {"contains", "not_contains"} \cap DOMAIN d # {}
  /\ d.type = "disconnect" => "expected" \in DOMAIN d /\ d.expected \in BOOLEAN
  /\ d.type = "kernel_warnings" => "count" \in DOMAIN d /\ d.count >= 0
  /\ "max_latency_ms" \in DOMAIN d => d.max_latency_ms >= 0

Holds(d, text, events, metrics, result) ==
  /\ d.type = "event_count" => evaluate_event_assertion(events, d)
  /\ d.type = "stdout" => evaluate_stdout_assertion(text, d)
  /\ d.type = "disconnect" => evaluate_disconnect(events, d.expected)
  /\ d.type = "kernel_warnings" => evaluate_kernel_warnings(result, d.count)
  /\ "max_latency_ms" \in DOMAIN d => evaluate_recovery_latency(metrics, d.max_latency_ms)

-----------------------------------------------------------------------------
(* build_scenario_report.                                                  *)

report_status(assertions, text, result) ==
  LET parsed   == parse_application_log(text)
      metrics  == calculate_recovery_metrics(parsed.events)
      required == \E i \in DOMAIN assertions : assertions[i].type = "kernel_warnings"
      passed   == /\ \A i \in DOMAIN assertions :
                       Holds(assertions[i], text, parsed.events, metrics, result)
                  /\ result.exit_code = 0
  IN  IF parsed.error \/ metrics.error \/ (required /\ ~result.kernel_log_available)
      THEN "ERROR"
      ELSE IF result.timed_out THEN "TIMEOUT" ELSE IF passed THEN "PASS" ELSE "FAIL"

\* An entry of the timeline: its source, its place there and its time stamp.
_dispatch_timeline(dispatches) ==
  [i \in DOMAIN dispatches |->
     [source |-> 0, place |-> i, timestamp_ms |-> dispatches[i].monotonic_started_ms]]

_application_timeline(events) ==
  [i \in DOMAIN events |->
     [source |-> 1, place |-> i, timestamp_ms |-> events[i].timestamp_ms]]

\* Deviation of Earlier: the application sorts before the scenario.
EarlierApplication(a, b) ==
  \/ a.timestamp_ms < b.timestamp_ms
  \/ /\ a.timestamp_ms = b.timestamp_ms
     /\ a.source > b.source \/ (a.source = b.source /\ a.place < b.place)

\* By time stamp, the scenario's entries first; the sort is stable, and an entry
\* has as many entries up to its place as do not come after it.
Earlier(a, b) ==
  \/ a.timestamp_ms < b.timestamp_ms
  \/ /\ a.timestamp_ms = b.timestamp_ms
     /\ a.source < b.source \/ (a.source = b.source /\ a.place < b.place)

_sorted_timeline(entries) ==
  LET place(i) == Cardinality({j \in DOMAIN entries : ~Earlier(entries[i], entries[j])})
  IN  [p \in DOMAIN entries |-> entries[CHOOSE i \in DOMAIN entries : place(i) = p]]

\* Deviation of _first_fault_timestamp: the last fault event.
LastFault(dispatches) ==
  LET faults == {i \in DOMAIN dispatches : dispatches[i].action = "fault"}
  IN  IF faults = {} THEN None
      ELSE dispatches[CHOOSE i \in faults : \A j \in faults : i >= j].monotonic_started_ms

_first_fault_timestamp(dispatches) ==
  LET faults == {i \in DOMAIN dispatches : dispatches[i].action = "fault"}
  IN  IF faults = {} THEN None
      ELSE dispatches[CHOOSE i \in faults : \A j \in faults : i <= j].monotonic_started_ms
=============================================================================

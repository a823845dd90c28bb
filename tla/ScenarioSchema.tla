--------------------------- MODULE ScenarioSchema ---------------------------
(***************************************************************************)
(* src/src/vdevlab/scenario.py: which documents are scenarios, and what    *)
(* the runner gets of one.  A YAML value is a record with its kind.  A     *)
(* string that is a duration keeps its number and unit, any other string   *)
(* its text.  All errors are one: the document is rejected.                *)
(***************************************************************************)
EXTENDS Integers, Sequences

MAX_DURATION_MS == 86400000
MAX_EIO_REPEAT == 1000000
MAX_PARTIAL_READ_BYTES == 4096
MAX_COUNT == 1000000

_LOG_EVENTS ==
  {"MONITOR_STARTED", "TEMPERATURE", "THERMAL_WARNING", "READ_RETRY", "RECOVERY_SUCCESS",
   "DEVICE_DISCONNECTED", "READ_FAILED", "INVALID_INPUT", "INPUT_TOO_LONG"}

-----------------------------------------------------------------------------
(* Values.                                                                 *)

Str(text) == [kind |-> "str", v |-> text]
Int_(n) == [kind |-> "int", v |-> n]
Bool(b) == [kind |-> "bool", v |-> b]
Map(fields) == [kind |-> "map", v |-> fields]
List(items) == [kind |-> "list", v |-> items]
Duration(n, unit) == [kind |-> "duration", v |-> "duration", n |-> n, unit |-> unit]

_mapping(x) == x.kind = "map"

_required(x, fields) == fields \subseteq DOMAIN x.v

_allowed(x, fields) == DOMAIN x.v \subseteq fields

exactly(x, fields) == _required(x, fields) /\ _allowed(x, fields)

_non_empty_string(x) == x.kind \in {"str", "duration"} /\ x.v # ""

\* Deviation of _bounded_integer: the minimum is not looked at.
at_most(x, minimum, maximum) == x.kind = "int" /\ x.v <= maximum

\* In Python a bool is an int; here it is none.
_bounded_integer(x, minimum, maximum) == x.kind = "int" /\ x.v \in minimum..maximum

Milliseconds(x) == IF x.unit = "ms" THEN x.n ELSE 1000 * x.n

\* _DURATION_PATTERN matches digits and a unit.
parse_duration(x) ==
  /\ x.kind = "duration" /\ x.n \in Nat /\ x.unit \in {"ms", "s"}
  /\ Milliseconds(x) <= MAX_DURATION_MS

parse_duration_to(x, timeout) == parse_duration(x) /\ Milliseconds(x) <= timeout

Is(x, text) == x.kind = "str" /\ x.v = text

_non_empty_list(x) == x.kind = "list" /\ x.v \in Seq({x.v[i] : i \in DOMAIN x.v}) /\ x.v # <<>>

-----------------------------------------------------------------------------
(* The sections of a document.                                             *)

\* startswith("/dev/"), of the paths that occur.
DevicePaths == {"/dev/vdevlab0"}

_parse_device(x) ==
  /\ _mapping(x) /\ _required(x, {"path"}) /\ _allowed(x, {"path"})
  /\ _non_empty_string(x.v.path) /\ x.v.path.v \in DevicePaths

\* startup_timeout is checked, and nothing uses it.
_parse_application(x) ==
  /\ _mapping(x) /\ _required(x, {"command"}) /\ _allowed(x, {"command", "startup_timeout"})
  /\ _non_empty_list(x.v.command)
  /\ \A i \in DOMAIN x.v.command.v : _non_empty_string(x.v.command.v[i])
  /\ "startup_timeout" \in DOMAIN x.v => parse_duration(x.v.startup_timeout)

_parse_fault_event(x) ==
  /\ _required(x, {"type"}) /\ _non_empty_string(x.v.type)
  /\ \/ /\ Is(x.v.type, "eio") /\ exactly(x, {"at", "action", "type", "repeat"})
        /\ _bounded_integer(x.v.repeat, 1, MAX_EIO_REPEAT)
     \/ /\ Is(x.v.type, "delay") /\ exactly(x, {"at", "action", "type", "duration"})
        /\ parse_duration(x.v.duration)
     \/ /\ Is(x.v.type, "partial-read") /\ exactly(x, {"at", "action", "type", "bytes"})
        /\ _bounded_integer(x.v.bytes, 1, MAX_PARTIAL_READ_BYTES)
     \/ Is(x.v.type, "disconnect") /\ exactly(x, {"at", "action", "type"})

_parse_event(x, timeout) ==
  /\ _mapping(x) /\ _required(x, {"at", "action"})
  /\ parse_duration_to(x.v.at, timeout)
  /\ _non_empty_string(x.v.action)
  /\ \/ /\ Is(x.v.action, "write") /\ exactly(x, {"at", "action", "data"})
        /\ _non_empty_string(x.v.data)
     \/ Is(x.v.action, "fault") /\ _parse_fault_event(x)
     \/ (Is(x.v.action, "clear") \/ Is(x.v.action, "reset")) /\ exactly(x, {"at", "action"})

\* Deviation of InOrder: any order will do.
AnyOrder(list) == TRUE

\* No event is earlier than the one before.
InOrder(list) ==
  \A i \in 2..Len(list) : Milliseconds(list[i].v.at) >= Milliseconds(list[i - 1].v.at)

_parse_scenario(x) ==
  /\ _mapping(x)
  /\ _required(x, {"name", "timeout", "events"}) /\ _allowed(x, {"name", "timeout", "events"})
  /\ _non_empty_string(x.v.name) /\ parse_duration(x.v.timeout)
  /\ _non_empty_list(x.v.events)
  /\ \A i \in DOMAIN x.v.events.v : _parse_event(x.v.events.v[i], Milliseconds(x.v.timeout))
  /\ InOrder(x.v.events.v)

_parse_event_assertion(x, timeout) ==
  /\ _required(x, {"event", "count"})
  /\ _allowed(x, {"type", "event", "count", "within", "max_latency"})
  /\ _non_empty_string(x.v.event) /\ x.v.event.v \in _LOG_EVENTS
  /\ _bounded_integer(x.v.count, 1, MAX_COUNT)
  /\ "within" \in DOMAIN x.v => parse_duration_to(x.v.within, timeout)
  /\ "max_latency" \in DOMAIN x.v =>
       Is(x.v.event, "RECOVERY_SUCCESS") /\ parse_duration_to(x.v.max_latency, timeout)

_parse_stdout_assertion(x) ==
  /\ _allowed(x, {"type", "contains", "not_contains"})
  /\ {"contains", "not_contains"} \cap DOMAIN x.v # {}
  /\ \A f \in {"contains", "not_contains"} \cap DOMAIN x.v : _non_empty_string(x.v[f])

_parse_assertion(a, timeout) ==
  /\ _mapping(a)
  /\ \/ /\ "type" \notin DOMAIN a.v \/ Is(a.v.type, "event_count")
        /\ _parse_event_assertion(a, timeout)
     \/ /\ "type" \in DOMAIN a.v
        /\ \/ Is(a.v.type, "stdout") /\ _parse_stdout_assertion(a)
           \/ /\ Is(a.v.type, "disconnect") /\ exactly(a, {"type", "expected"})
              /\ a.v.expected.kind = "bool" /\ a.v.expected.v \in BOOLEAN
           \/ /\ Is(a.v.type, "kernel_warnings") /\ exactly(a, {"type", "count"})
              /\ _bounded_integer(a.v.count, 0, MAX_COUNT)

_parse_assertions(x, timeout) ==
  _non_empty_list(x) /\ \A i \in DOMAIN x.v : _parse_assertion(x.v[i], timeout)

\* A text that is not YAML is no mapping.
parse_scenario(x) ==
  LET fields == {"schema_version", "device", "application", "scenario", "assertions"}
  IN  /\ _mapping(x) /\ _required(x, fields) /\ _allowed(x, fields)
      /\ _bounded_integer(x.v.schema_version, 1, 1)
      /\ _parse_device(x.v.device) /\ _parse_application(x.v.application)
      /\ _parse_scenario(x.v.scenario)
      /\ _parse_assertions(x.v.assertions, Milliseconds(x.v.scenario.v.timeout))

-----------------------------------------------------------------------------
(* What an accepted document becomes: ScenarioDefinition.                  *)

\* The value of a fault event: repeat, duration_ms or bytes.
Parameter(e) ==
  IF "repeat" \in DOMAIN e THEN e.repeat.v
  ELSE IF "duration" \in DOMAIN e THEN Milliseconds(e.duration)
  ELSE IF "bytes" \in DOMAIN e THEN e.bytes.v ELSE 0

timeout_ms(x) == Milliseconds(x.v.scenario.v.timeout)

events_of(x) ==
  [i \in DOMAIN x.v.scenario.v.events.v |->
     LET e == x.v.scenario.v.events.v[i].v
     IN  [at_ms |-> Milliseconds(e.at), action |-> e.action.v,
          type |-> IF "type" \in DOMAIN e THEN e.type.v ELSE "none",
          value |-> Parameter(e)]]

\* Each assertion with the fields of its type.
assertions_of(x) ==
  LET durations == {"within", "max_latency"}
      ms(g) == IF g = "within" THEN "within_ms" ELSE "max_latency_ms"
      fields(a) ==
        [f \in {"type"} \cup (DOMAIN a \ durations) \cup {ms(g) : g \in durations \cap DOMAIN a} |->
           IF f = "within_ms" THEN Milliseconds(a.within)
           ELSE IF f = "max_latency_ms" THEN Milliseconds(a.max_latency)
           ELSE IF f \in DOMAIN a THEN a[f].v ELSE "event_count"]
  IN  [i \in DOMAIN x.v.assertions.v |-> fields(x.v.assertions.v[i].v)]
=============================================================================

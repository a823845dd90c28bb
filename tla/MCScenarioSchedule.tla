------------------------- MODULE MCScenarioSchedule -------------------------
(* Documents for ScenarioSchedule: two that are accepted, and variations.    *)
EXTENDS ScenarioSchedule

At(ms, more) == Map([at |-> Duration(ms, "ms"), action |-> Str(more)])

Fault(ms, type) == Map([at |-> Duration(ms, "ms"), action |-> Str("fault"), type |-> Str(type)])

With(x, field, value) ==
  Map([f \in DOMAIN x.v \cup {field} |-> IF f = field THEN value ELSE x.v[f]])

Without(x, field) == Map([f \in DOMAIN x.v \ {field} |-> x.v[f]])

WriteAt(ms) == With(At(ms, "write"), "data", Str("25"))

EioAt(ms, n) == With(Fault(ms, "eio"), "repeat", Int_(n))

DelayAt(ms, d) == With(Fault(ms, "delay"), "duration", d)

PartialAt(ms, n) == With(Fault(ms, "partial-read"), "bytes", Int_(n))

Retry == Map([event |-> Str("READ_RETRY"), count |-> Int_(1)])

Recovery == With(With(Retry, "event", Str("RECOVERY_SUCCESS")), "max_latency", Duration(1, "ms"))

Doc(ms, list) ==
  Map([schema_version |-> Int_(1),
       device |-> Map([path |-> Str("/dev/vdevlab0")]),
       application |-> Map([command |-> List(<<Str("monitor")>>)]),
       scenario |-> Map([name |-> Str("s"), timeout |-> Duration(ms, "ms"),
                         events |-> List(list)]),
       assertions |-> List(<<Retry>>)])

Base == Doc(2, <<At(0, "reset")>>)

\* Scenarios that are accepted.
Runs ==
  <<Doc(2, <<At(0, "reset"), EioAt(1, 1), WriteAt(1)>>),
    Doc(2, <<WriteAt(0), Fault(2, "disconnect")>>),
    Doc(1, <<Fault(0, "disconnect"), WriteAt(1)>>),
    Doc(2, <<EioAt(0, 1), DelayAt(1, Duration(1, "ms")), At(1, "clear")>>),
    Doc(0, <<EioAt(0, 2)>>),
    Doc(1, <<DelayAt(0, Duration(0, "ms"))>>),
    Doc(1, <<DelayAt(0, Duration(11, "s"))>>)>>

WithEvent(e) == Doc(2, <<e>>)

WithAssertion(a) == With(Base, "assertions", List(<<a>>))

\* One step from a scenario that is accepted; most are not.
Variations ==
  <<Str("text"), Without(Base, "device"), With(Base, "more", Int_(1)),
    With(Base, "schema_version", Bool(TRUE)), With(Base, "schema_version", Int_(2)),
    With(Base, "device", Map([path |-> Str("vdevlab0")])),
    With(Base, "application", Map([command |-> List(<<>>)])),
    With(Base, "application", With(Base.v.application, "startup_timeout", Duration(2, "s"))),
    With(Base, "scenario", Without(Base.v.scenario, "name")),
    With(Base, "scenario", With(Base.v.scenario, "timeout", Duration(86401, "s"))),
    Doc(2, <<>>), Doc(2, <<At(1, "reset"), At(0, "clear")>>),
    WithEvent(At(3, "reset")), WithEvent(At(0, "write")), WithEvent(At(0, "stop")),
    WithEvent(With(At(0, "reset"), "data", Str("x"))),
    WithEvent(With(At(0, "write"), "data", Str(""))),
    WithEvent(EioAt(0, 0)), WithEvent(EioAt(0, 1000001)), WithEvent(Fault(0, "eio")),
    WithEvent(PartialAt(0, 0)), WithEvent(PartialAt(0, 4097)), WithEvent(PartialAt(0, 4096)),
    WithEvent(Fault(0, "reset")), WithEvent(With(EioAt(0, 1), "bytes", Int_(1))),
    WithAssertion(With(Retry, "count", Int_(0))), WithAssertion(With(Retry, "event", Str("X"))),
    WithAssertion(With(Retry, "within", Duration(3, "ms"))), WithAssertion(Recovery),
    WithAssertion(With(Recovery, "event", Str("READ_RETRY"))),
    WithAssertion(Map([type |-> Str("stdout")])),
    WithAssertion(Map([type |-> Str("stdout"), contains |-> Str("x")])),
    WithAssertion(Map([type |-> Str("disconnect"), expected |-> Int_(1)])),
    WithAssertion(Map([type |-> Str("disconnect"), expected |-> Bool(TRUE)])),
    WithAssertion(Map([type |-> Str("kernel_warnings"), count |-> Int_(0)]))>>

MCDocs == Runs \o Variations

MCFound == {NoFault, [type |-> "eio", value |-> 1]}
=============================================================================

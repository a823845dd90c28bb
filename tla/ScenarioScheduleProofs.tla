----------------------- MODULE ScenarioScheduleProofs -----------------------
(***************************************************************************)
(* What ScenarioSchedule promises, for every document, resolution of the   *)
(* clock, grace period and bound: when the events are dispatched, why a    *)
(* run fails, when it times out and ends, and that its report can be       *)
(* built, names a fault before the error it caused and has a causal time   *)
(* line.                                                                   *)
(***************************************************************************)
EXTENDS ScenarioSchedule, TLAPS

Actions == {"write", "fault", "clear", "reset"}

Event ==
  [at_ms : Nat, action : Actions,
   type : {"none", "eio", "delay", "partial-read", "disconnect"}, value : Nat]

\* What the schema guarantees of the events.
Accepted(list, limit) ==
  /\ limit \in Nat /\ list \in Seq(Event) /\ list # <<>>
  /\ \A i \in DOMAIN list : list[i].at_ms <= limit
  /\ \A i \in 2..Len(list) : list[i - 1].at_ms <= list[i].at_ms
  /\ \A i \in DOMAIN list :
       list[i].action = "fault" /\ ~DriverAccepts(list[i]) =>
         list[i].type = "delay" /\ list[i].value \notin 1..VDEVLAB_MAX_DELAY_MS

Early == {"load", "rejected", "open", "popen"}
Dispatching == {"sleep", "call", "return", "failed"}
Finishing == {"collect", "grace", "ended"}

\* When the scheduler is free for event i, when i is due and when it begins.
Free(i) == IF i = 1 THEN origin ELSE dispatches[i - 1].finished
Due(i) == origin + events[i].at_ms * Res
Begin(i) == IF Due(i) > Free(i) THEN Due(i) ELSE Free(i)

Dispatched ==
  [index : Nat, action : Actions, started : Nat, finished : Nat, monotonic_started_ms : Nat]

STypeOK ==
  /\ at \in Early \cup {"next"} \cup Dispatching \cup Finishing
  /\ now \in Nat /\ started \in Nat /\ origin \in Nat /\ until \in Nat /\ begun \in Nat
  /\ index \in Nat \ {0} /\ dispatches \in Seq(Dispatched)
  /\ timed_out \in BOOLEAN /\ app \in {"none", "running", "exited"}

\* Where the run is, and what it has dispatched.
Position ==
  /\ at \notin {"load", "rejected"} => Accepted(events, timeout)
  /\ Len(dispatches) = index - 1
  /\ at \in Early => index = 1
  /\ at \in Dispatching => index <= Len(events)
  /\ at = "next" => index <= Len(events) + 1
  /\ at \in Finishing => index = Len(events) + 1
  /\ at \notin {"grace", "ended"} => ~timed_out

\* The clock at each place.
Times ==
  /\ at = "popen" => started <= now
  /\ at \notin Early => started <= origin /\ Free(index) <= now
  /\ at = "next" => now = Free(index)
  /\ at = "sleep" => until = Due(index) /\ Free(index) <= until /\ now <= until
  /\ at \in {"call", "return", "failed"} => begun = Begin(index) /\ begun <= now

\* The times of the dispatches.
Records ==
  \A i \in DOMAIN dispatches :
    /\ dispatches[i].started = Begin(i)
    /\ dispatches[i].started <= dispatches[i].finished
    /\ dispatches[i].monotonic_started_ms = dispatches[i].started \div Res
    /\ dispatches[i].action = events[i].action
    /\ \A j \in 1..i : dispatches[j].started <= dispatches[i].started

\* The end: the wait is cut at the timeout, rounded up to a whole millisecond.
Ending ==
  LET limit == started + timeout * Res
      last  == Len(events)
  IN  /\ at = "collect" =>
           /\ now <= until /\ limit <= until /\ until < limit + Res
           /\ events[last].at_ms # timeout
      /\ at = "grace" =>
           /\ timed_out /\ limit <= now /\ now <= until
           /\ until < limit + Res + GraceMs * Res
                \/ until <= dispatches[last].finished + GraceMs * Res
      /\ at = "ended" =>
           /\ timed_out => limit <= now
           /\ events[last].at_ms = timeout => timed_out
           /\ ~timed_out => now < limit + Res
           /\ now < limit + Res + GraceMs * Res
                \/ now <= dispatches[last].finished + GraceMs * Res

ScheduleInv == STypeOK /\ Position /\ Times /\ Records /\ Ending /\ FailureExplained

-----------------------------------------------------------------------------
(* Arithmetic of the clock.                                                *)

\* Division cuts off less than a whole divisor.
LEMMA DivFacts ==
  ASSUME NEW e \in Nat, NEW r \in Nat \ {0}
  PROVE  e \div r \in Nat /\ (e \div r) * r <= e /\ e < (e \div r) * r + r
<1>1. e \div r \in Int /\ e % r \in 0..(r - 1) /\ e = (r * (e \div r)) + (e % r)
  BY SMT
<1>2. PICK q \in Int, m \in 0..(r - 1) : q = e \div r /\ e = r * q + m
  BY <1>1
<1>3. q * r = r * q /\ q * r \in Int
  BY SMT
<1>4. q \in Nat
  <2>1. CASE q < 0
    <3>1. r * (q + 1) <= 0 /\ r * (q + 1) = r * q + r
      BY <2>1, SMT
    <3> QED BY <3>1, <1>2, <1>3
  <2> QED BY <2>1
<1> QED BY <1>2, <1>3, <1>4

\* Multiplication by a natural number keeps the order.
LEMMA TimesMonotone ==
  ASSUME NEW a \in Int, NEW b \in Int, NEW r \in Nat, a <= b
  PROVE  a * r \in Int /\ b * r \in Int /\ a * r <= b * r
BY SMT

\* Multiplication distributes over sums and differences.
LEMMA TimesDistributes ==
  ASSUME NEW a \in Int, NEW b \in Int, NEW r \in Int
  PROVE  /\ a * r \in Int /\ b * r \in Int
         /\ (a + b) * r = a * r + b * r /\ (a - b) * r = a * r - b * r
BY SMT

\* Division keeps the order.
LEMMA DivMonotone ==
  ASSUME NEW a \in Nat, NEW b \in Nat, NEW r \in Nat \ {0}, a <= b
  PROVE  a \div r \in Nat /\ b \div r \in Nat /\ a \div r <= b \div r
<1>1. PICK p \in Nat : p = a \div r /\ p * r <= a /\ a < p * r + r
  BY DivFacts
<1>2. PICK q \in Nat : q = b \div r /\ q * r <= b /\ b < q * r + r
  BY DivFacts
<1>3. CASE p >= q + 1
  <2>1. (q + 1) * r <= p * r /\ (q + 1) * r \in Int /\ p * r \in Int
    BY <1>3, TimesMonotone
  <2>2. (q + 1) * r = q * r + 1 * r /\ q * r \in Int
    BY TimesDistributes
  <2>3. 1 * r = r
    OBVIOUS
  <2> QED BY <2>1, <2>2, <2>3, <1>1, <1>2
<1> QED BY <1>1, <1>2, <1>3

\* A whole number of divisors is counted.
LEMMA DivAtLeast ==
  ASSUME NEW e \in Nat, NEW t \in Nat, NEW r \in Nat \ {0}, t * r <= e
  PROVE  t <= e \div r
<1>1. PICK q \in Nat : q = e \div r /\ e < q * r + r
  BY DivFacts
<1>2. CASE q + 1 <= t
  <2>1. (q + 1) * r <= t * r /\ (q + 1) * r \in Int /\ t * r \in Int
    BY <1>2, TimesMonotone
  <2>2. (q + 1) * r = q * r + 1 * r /\ q * r \in Int
    BY TimesDistributes
  <2>3. 1 * r = r
    OBVIOUS
  <2> QED BY <2>1, <2>2, <2>3, <1>1
<1> QED BY <1>1, <1>2

\* The wait that collect_with_timeout gets: elapsed_ms is cut to milliseconds,
\* so that the end is at the limit t, or less than a millisecond after it.
LEMMA WaitEnds ==
  ASSUME NEW e \in Nat, NEW t \in Nat, NEW r \in Nat \ {0}
  PROVE  LET left == t - e \div r
         IN  /\ left \in Int /\ t * r \in Nat
             /\ left <= 0 => t * r <= e
             /\ left > 0 => /\ left * r \in Nat
                            /\ t * r <= e + left * r /\ e + left * r < t * r + r
<1>1. PICK q \in Nat : q = e \div r /\ q * r <= e /\ e < q * r + r
  BY DivFacts
<1>2. q * r \in Int /\ t * r \in Int /\ (t - q) * r = t * r - q * r /\ 0 * r = 0
  BY TimesDistributes
<1>3. 0 * r <= t * r
  BY TimesMonotone
<1>4. t - q > 0 => 0 * r <= (t - q) * r
  BY TimesMonotone
<1>5. t - q <= 0 => t * r <= q * r
  BY TimesMonotone
<1> QED BY <1>1, <1>2, <1>3, <1>4, <1>5

-----------------------------------------------------------------------------
(* What parse_scenario guarantees.                                         *)

\* The event that a mapping of the document becomes.
EventOf(e) ==
  [at_ms |-> Milliseconds(e.at), action |-> e.action.v,
   type |-> IF "type" \in DOMAIN e THEN e.type.v ELSE "none", value |-> Parameter(e)]

\* A limit l, the clock n, the end f of the last call and an end u of a wait.
LEMMA GraceArithmetic ==
  ASSUME NEW l \in Nat, NEW n \in Nat, NEW f \in Nat, NEW m \in Nat, NEW g \in Nat,
         n < l + m \/ n <= f
  PROVE  /\ n + g < l + m + g \/ n + g <= f + g
         /\ n < l + m + g \/ n <= f + g
         /\ n <= n + g
OBVIOUS

\* The times of a wait that ends late.
LEMMA WaitArithmetic ==
  ASSUME NEW l \in Nat, NEW n \in Nat, NEW u \in Nat, NEW m \in Nat, NEW g \in Nat, n <= u
  PROVE  /\ u < l + m => n < l + m /\ n < l + m + g
         /\ u < l + m + g => n < l + m + g
         /\ \A f \in Nat : u <= f + g => n <= f + g
OBVIOUS

\* The times of an event, from the start of the run and from that of the clock.
LEMMA ShiftArithmetic ==
  ASSUME NEW n \in Nat, NEW b \in Nat, n - b \in Nat, NEW d \in Nat, NEW m \in Nat
  PROVE  /\ d <= n - b => b + d <= n
         /\ \A p \in Nat : /\ d <= n - b + p => b + d <= n + p
                           /\ n - b + p < d + m => n + p < b + d + m
OBVIOUS

\* A chain of times.
LEMMA Chain ==
  ASSUME NEW a \in Nat, NEW b \in Nat, NEW c \in Nat, NEW d \in Nat, a <= b, b <= c, c <= d
  PROVE  a <= d
OBVIOUS

\* Sums, differences and bounds of natural numbers.
LEMMA NatArithmetic ==
  /\ \A a, b \in Nat : a + b \in Nat /\ a <= a + b
  /\ \A a, b, c \in Nat : a <= b /\ b <= c => a <= c /\ c - a \in Nat
  /\ \A a \in Nat : a <= 0 => a = 0
  /\ \A a, n \in Nat : a <= n - 1 => \A i \in 1..a : i \in 1..(n - 1) /\ i < n
OBVIOUS

\* Where a wait can be.
LEMMA Places == /\ "collect" # "grace" /\ "collect" # "ended" /\ "grace" # "ended"
OBVIOUS

\* A duration is a natural number of milliseconds.
LEMMA DurationNat ==
  ASSUME NEW x, parse_duration(x) PROVE Milliseconds(x) \in Nat
BY DEF parse_duration, Milliseconds

\* The schema has the driver's limits, but for the delay.
LEMMA SameLimits ==
  /\ MAX_EIO_REPEAT = VDEVLAB_MAX_FAULT_REPEAT /\ MAX_EIO_REPEAT \in Nat
  /\ MAX_PARTIAL_READ_BYTES = VDEVLAB_MAX_PARTIAL_READ /\ MAX_PARTIAL_READ_BYTES \in Nat
  /\ VDEVLAB_MAX_DELAY_MS \in Nat
BY DEF MAX_EIO_REPEAT, VDEVLAB_MAX_FAULT_REPEAT, MAX_PARTIAL_READ_BYTES, VDEVLAB_MAX_PARTIAL_READ,
  VDEVLAB_MAX_DELAY_MS

\* An accepted event is one of the four actions at a time up to the timeout, and
\* a fault event has the type and the parameter of its fault.
LEMMA EventAccepted ==
  ASSUME NEW x, NEW limit \in Nat, _parse_event(x, limit)
  PROVE  /\ EventOf(x.v) \in Event /\ EventOf(x.v).at_ms <= limit
         /\ EventOf(x.v).action = "fault" /\ ~DriverAccepts(EventOf(x.v)) =>
              EventOf(x.v).type = "delay" /\ EventOf(x.v).value \notin 1..VDEVLAB_MAX_DELAY_MS
<1> DEFINE e == EventOf(x.v)
<1>1. e.at_ms \in Nat /\ e.at_ms <= limit
  BY DurationNat DEF _parse_event, parse_duration_to, EventOf
<1>2. CASE Is(x.v.action, "fault") /\ _parse_fault_event(x)
  <2>1. CASE Is(x.v.type, "eio")
    BY SameLimits, <1>1, <1>2, <2>1 DEF _parse_fault_event, exactly, _required, _allowed, Is, EventOf, Parameter, Event,
      Actions, DriverAccepts, _bounded_integer
  <2>2. CASE Is(x.v.type, "delay")
    <3>1. Milliseconds(x.v.duration) \in Nat
      BY <1>2, <2>2, DurationNat DEF _parse_fault_event, Is
    <3> QED
      BY SameLimits, <1>1, <1>2, <2>2, <3>1 DEF _parse_fault_event, exactly, _required, _allowed, Is, EventOf, Parameter,
        Event, Actions, DriverAccepts
  <2>3. CASE Is(x.v.type, "partial-read")
    BY SameLimits, <1>1, <1>2, <2>3 DEF _parse_fault_event, exactly, _required, _allowed, Is, EventOf, Parameter, Event,
      Actions, DriverAccepts, _bounded_integer
  <2>4. CASE Is(x.v.type, "disconnect")
    BY SameLimits, <1>1, <1>2, <2>4 DEF _parse_fault_event, exactly, _required, _allowed, Is, EventOf, Parameter, Event,
      Actions, DriverAccepts
  <2> QED BY <1>2, <2>1, <2>2, <2>3, <2>4 DEF _parse_fault_event
<1>3. CASE Is(x.v.action, "write") /\ exactly(x, {"at", "action", "data"})
  BY <1>1, <1>3 DEF exactly, _allowed, Is, EventOf, Parameter, Event, Actions
<1>4. CASE (Is(x.v.action, "clear") \/ Is(x.v.action, "reset")) /\ exactly(x, {"at", "action"})
  BY <1>1, <1>4 DEF exactly, _allowed, Is, EventOf, Parameter, Event, Actions
<1> QED BY <1>2, <1>3, <1>4 DEF _parse_event

\* The events of an accepted document are in order, within the timeout, and the
\* driver takes every fault but a delay out of its range.
LEMMA DocumentAccepted ==
  ASSUME NEW x, parse_scenario(x) PROVE Accepted(events_of(x), timeout_ms(x))
<1> DEFINE list == x.v.scenario.v.events.v
<1> DEFINE t == timeout_ms(x)
<1>1. _parse_scenario(x.v.scenario)
  BY DEF parse_scenario
<1>2. t \in Nat
  BY <1>1, DurationNat DEF _parse_scenario, timeout_ms
<1>3. events_of(x) = [i \in DOMAIN list |-> EventOf(list[i].v)]
  BY DEF events_of, EventOf
<1>4. PICK S : list \in Seq(S) /\ list # <<>>
  BY <1>1, ZenonT(60) DEF _parse_scenario, _non_empty_list
<1>5. \A i \in DOMAIN list : _parse_event(list[i], t)
  BY <1>1, ZenonT(60) DEF _parse_scenario, timeout_ms
<1>6. \A i \in 2..Len(list) : Milliseconds(list[i].v.at) >= Milliseconds(list[i - 1].v.at)
  BY <1>1, ZenonT(60) DEF _parse_scenario, InOrder
<1> HIDE DEF list, t
<1>7. \A i \in DOMAIN list :
        LET e == EventOf(list[i].v)
        IN  /\ e \in Event /\ e.at_ms <= t /\ e.at_ms = Milliseconds(list[i].v.at)
            /\ e.action = "fault" /\ ~DriverAccepts(e) => e.type = "delay" /\ e.value \notin 1..VDEVLAB_MAX_DELAY_MS
  <2> SUFFICES ASSUME NEW i \in DOMAIN list
               PROVE  LET e == EventOf(list[i].v)
                      IN  /\ e \in Event /\ e.at_ms <= t /\ e.at_ms = Milliseconds(list[i].v.at)
                          /\ e.action = "fault" /\ ~DriverAccepts(e) =>
                               e.type = "delay" /\ e.value \notin 1..VDEVLAB_MAX_DELAY_MS
    OBVIOUS
  <2>1. EventOf(list[i].v).at_ms = Milliseconds(list[i].v.at)
    BY DEF EventOf
  <2> QED BY <1>2, <1>5, <2>1, EventAccepted
<1>8. events_of(x) \in Seq(Event) /\ Len(events_of(x)) = Len(list) /\ events_of(x) # <<>>
  BY <1>3, <1>4, <1>7
<1>9. \A i \in 2..Len(list) : i \in DOMAIN list /\ i - 1 \in DOMAIN list
  BY <1>4
<1>10. \A i \in 2..Len(list) : events_of(x)[i - 1].at_ms <= events_of(x)[i].at_ms
  BY <1>3, <1>6, <1>7, <1>9 DEF Event
<1> QED BY <1>2, <1>3, <1>7, <1>8, <1>10, ZenonT(60) DEF Accepted, t

-----------------------------------------------------------------------------
(* The steps.                                                              *)

\* The invariant holds at the start.
LEMMA ScheduleInit == SInit => ScheduleInv
<1> SUFFICES ASSUME SInit PROVE ScheduleInv
  OBVIOUS
<1> USE DEF SInit, Early, Dispatching, Finishing
<1>1. now \in Nat
  BY ScheduleAssumption
<1>2. dispatches \in Seq(Dispatched)
  OBVIOUS
<1>3. STypeOK
  <2>1. timed_out \in BOOLEAN /\ app \in {"none", "running", "exited"}
    BY ZenonT(60)
  <2>2. started = 0 /\ origin = 0 /\ index = 1 /\ until = 0 /\ begun = 0 /\ at = "load"
    OBVIOUS
  <2> HIDE DEF SInit
  <2> QED BY <1>1, <1>2, <2>1, <2>2 DEF STypeOK
<1>4. Position /\ Times /\ Ending /\ FailureExplained
  BY DEF Position, Times, Ending, FailureExplained
<1>5. Records
  BY DEF Records
<1> QED BY <1>3, <1>4, <1>5 DEF ScheduleInv

\* The times of the scheduler are natural numbers.
LEMMA Typed ==
  ASSUME STypeOK, Position, at \notin Early
  PROVE  /\ \A i \in 1..index : Free(i) \in Nat
         /\ \A i \in DOMAIN events : Due(i) \in Nat /\ events[i] \in Event
         /\ Len(events) \in Nat \ {0} /\ DOMAIN events = 1..Len(events)
         /\ timeout \in Nat /\ timeout * Res \in Nat /\ GraceMs * Res \in Nat
<1>1. /\ timeout \in Nat /\ events \in Seq(Event) /\ events # <<>>
      /\ Res \in Nat \ {0} /\ GraceMs \in Nat
  BY ScheduleAssumption DEF Position, Early, Accepted
<1>2. \A i \in 1..index : Free(i) \in Nat
  <2>1. \A i \in DOMAIN dispatches : dispatches[i] \in Dispatched
    BY DEF STypeOK
  <2>2. \A i \in 2..index : i - 1 \in DOMAIN dispatches
    BY DEF STypeOK, Position
  <2> QED BY <2>1, <2>2 DEF STypeOK, Free, Dispatched
<1>3. \A a \in Nat : a * Res \in Nat
  BY <1>1
<1>4. \A i \in DOMAIN events : Due(i) \in Nat /\ events[i] \in Event
  <2>1. \A i \in DOMAIN events : events[i] \in Event
    BY <1>1
  <2>2. \A i \in DOMAIN events : events[i].at_ms * Res \in Nat
    BY <1>3, <2>1 DEF Event
  <2> QED BY <2>1, <2>2 DEF STypeOK, Due
<1> QED BY <1>1, <1>2, <1>3, <1>4

\* The dispatches keep their times.
LEMMA RecordsKept ==
  ASSUME Records, UNCHANGED <<events, origin, dispatches>> PROVE Records'
BY DEF Records, Begin, Due, Free

\* Loading a document gives a run that its schema accepted, or none.
LEMMA LoadStep == ASSUME ScheduleInv, Load PROVE ScheduleInv'
<1> USE DEF ScheduleInv, Load, Early, Dispatching, Finishing, device, application
<1>1. STypeOK'
  BY DEF STypeOK
<1>2. Position'
  BY DocumentAccepted DEF Position, STypeOK
<1>3. dispatches = <<>>
  BY DEF STypeOK, Position
<1>4. Records'
  BY <1>3 DEF Records
<1>5. Times' /\ Ending' /\ FailureExplained'
  BY DEF Times, Ending, FailureExplained
<1> QED BY <1>1, <1>2, <1>4, <1>5

\* The start of the application: the clock of the events starts after that of
\* the timeout.
LEMMA StartStep == ASSUME ScheduleInv, Open \/ Spawn \/ Spawned PROVE ScheduleInv'
<1> USE DEF ScheduleInv, Early, Dispatching, Finishing, device, application, run, scenario
<1>1. STypeOK'
  BY DEF STypeOK, Open, Spawn, Spawned
<1>2. Position'
  <2>1. /\ UNCHANGED <<events, timeout, index, dispatches, timed_out>>
        /\ at \in {"open", "popen"} /\ at' \in {"popen", "next"}
    BY DEF Open, Spawn, Spawned
  <2>2. Accepted(events, timeout)' <=> Accepted(events, timeout)
    BY <2>1, ZenonT(60) DEF Accepted
  <2>3. Len(events) \in Nat
    BY <2>1 DEF Position, Accepted
  <2> QED BY <2>1, <2>2, <2>3 DEF Position
<1>3. dispatches = <<>> /\ dispatches' = <<>> /\ index = 1 /\ index' = 1
  BY DEF STypeOK, Position, Open, Spawn, Spawned
<1>4. Records'
  BY <1>3 DEF Records
<1>5. Times'
  BY <1>3 DEF Times, STypeOK, Free, Open, Spawn, Spawned
<1>6. Ending' /\ FailureExplained'
  BY ZenonT(60) DEF Ending, FailureExplained, Open, Spawn, Spawned
<1> QED BY <1>1, <1>2, <1>4, <1>5, <1>6

\* The head of the loop and the end of the sleep: an event begins when it is due
\* and the one before is done.
LEMMA NextEventStep == ASSUME ScheduleInv, NextEvent \/ Wake PROVE ScheduleInv'
<1> USE DEF ScheduleInv, Early, Dispatching, Finishing, device, application, run, scenario
<1>1. Free(index) \in Nat /\ Due(index) \in Nat /\ index \in DOMAIN events /\ deadline = Due(index)
  <2>1. /\ at \notin Early /\ index <= Len(events) /\ index \in Nat \ {0}
        /\ STypeOK /\ Position
    BY DEF NextEvent, Wake, Position, STypeOK
  <2>2. /\ \A i \in 1..index : Free(i) \in Nat
        /\ \A i \in DOMAIN events : Due(i) \in Nat
        /\ Len(events) \in Nat /\ DOMAIN events = 1..Len(events)
    BY <2>1, Typed, ZenonT(60)
  <2>3. index \in 1..index /\ index \in 1..Len(events)
    BY <2>1, <2>2
  <2> QED BY <2>2, <2>3, ZenonT(60) DEF deadline, Due
<1>2. STypeOK'
  BY <1>1, ZenonT(60) DEF STypeOK, NextEvent, Wake
<1>3. Position'
  BY DEF Position, NextEvent, Wake
<1>4. Records'
  BY RecordsKept DEF NextEvent, Wake
<1>5. Free(index)' = Free(index) /\ Due(index)' = Due(index) /\ Begin(index)' = Begin(index)
  BY DEF Free, Due, Begin, NextEvent, Wake
<1>6. Times'
  <2>1. CASE NextEvent
    BY <1>1, <1>5, <2>1 DEF Times, STypeOK, NextEvent, Begin
  <2>2. CASE Wake
    BY <1>1, <1>5, <2>2 DEF Times, STypeOK, Wake, Begin
  <2> QED BY <2>1, <2>2
<1>7. Ending' /\ FailureExplained'
  BY DEF Ending, FailureExplained, NextEvent, Wake
<1> QED BY <1>2, <1>3, <1>4, <1>6, <1>7

\* The call: it takes its effect, or the driver refuses it.
LEMMA CallStep == ASSUME ScheduleInv, Dispatch \/ DispatchFails PROVE ScheduleInv'
<1> USE DEF ScheduleInv, Early, Dispatching, Finishing, device, application, run, scenario
<1>1. /\ UNCHANGED <<events, timeout, now, started, origin, index, until, begun, dispatches, timed_out,
                     app>>
      /\ at = "call" /\ at' \in {"return", "failed"} /\ (Dispatch => at' = "return")
  BY ZenonT(60) DEF Dispatch, DispatchFails
<1>2. STypeOK'
  BY <1>1 DEF STypeOK
<1>3. Position'
  BY <1>1 DEF Position
<1>4. Records'
  BY <1>1, RecordsKept
<1>5. Times'
  BY <1>1, ZenonT(60) DEF Times, Free, Due, Begin
<1>6. Ending'
  BY <1>1 DEF Ending
<1>7. FailureExplained'
  <2>1. CASE DispatchFails
    <3>1. index \in DOMAIN events /\ Accepted(events, timeout)
      BY <1>1, Typed DEF Position, STypeOK
    <3> QED BY <1>1, <2>1, <3>1, ZenonT(60) DEF DispatchFails, FailureExplained, Accepted
  <2> QED BY <1>1, <2>1 DEF FailureExplained
<1> QED BY <1>2, <1>3, <1>4, <1>5, <1>6, <1>7

\* The end of a call is the next dispatch, and the next event may begin.
LEMMA ReturnStep == ASSUME ScheduleInv, Return PROVE ScheduleInv'
<1> USE DEF ScheduleInv, Return, Early, Dispatching, Finishing, device, application, run, scenario
<1> DEFINE d == [index |-> index, action |-> events[index].action, started |-> begun,
                 finished |-> now, monotonic_started_ms |-> begun \div Res]
<1>1. /\ dispatches \in Seq(Dispatched) /\ dispatches' = Append(dispatches, d)
      /\ index \in Nat \ {0} /\ Len(dispatches) = index - 1 /\ index' = index + 1
      /\ begun \in Nat /\ now \in Nat /\ begun <= now
  BY DEF STypeOK, Position, Times
<1>2. d \in Dispatched
  <2>1. index \in DOMAIN events /\ events[index] \in Event
    BY Typed DEF Position, STypeOK
  <2>2. begun \div Res \in Nat
    BY ZenonT(60), <1>1, DivFacts, ScheduleAssumption
  <2> QED BY <1>1, <2>1, <2>2, ZenonT(60) DEF Dispatched, Event
<1>3. /\ dispatches' \in Seq(Dispatched) /\ Len(dispatches') = index
      /\ \A i \in 1..(index - 1) : dispatches'[i] = dispatches[i]
      /\ dispatches'[index] = d /\ DOMAIN dispatches' = 1..index /\ DOMAIN dispatches = 1..(index - 1)
  <2> HIDE DEF d
  <2> QED BY <1>1, <1>2
<1>4. STypeOK'
  BY <1>1, <1>3 DEF STypeOK
<1>5. Position'
  BY <1>1, <1>3 DEF Position, STypeOK, Accepted
<1>6. Free(index)' = now
  BY <1>1, <1>3 DEF Free
<1>7. Times'
  BY <1>1, <1>6 DEF Times, STypeOK
<1>8. \A i \in 1..index : Free(i) = Free(i)' /\ Begin(i)' = Begin(i)
  BY <1>1, <1>3 DEF Free, Begin, Due
<1>9. Records'
  <2> SUFFICES ASSUME NEW i \in 1..index
               PROVE  /\ dispatches'[i].started = Begin(i)
                      /\ dispatches'[i].started <= dispatches'[i].finished
                      /\ dispatches'[i].monotonic_started_ms = dispatches'[i].started \div Res
                      /\ dispatches'[i].action = events[i].action
                      /\ \A j \in 1..i : dispatches'[j].started <= dispatches'[i].started
    BY <1>3, <1>8 DEF Records
  <2>1. CASE i < index
    <3>1. i \in 1..(index - 1) /\ \A j \in 1..i : j \in 1..(index - 1)
      BY <1>1, <2>1
    <3> QED BY <1>3, <3>1, ZenonT(60) DEF Records
  <2>2. CASE i = index
    <3>1. begun = Begin(index)
      BY DEF Times
    <3>2. \A j \in 1..(index - 1) : dispatches[j].started <= begun
      <4> SUFFICES ASSUME NEW j \in 1..(index - 1) PROVE dispatches[j].started <= begun
        BY ZenonT(60)
      <4>1. index - 1 \in 1..(index - 1) /\ j \in 1..(index - 1) /\ index # 1
        BY <1>1
      <4>2. /\ dispatches[j].started <= dispatches[index - 1].started
            /\ dispatches[index - 1].started <= dispatches[index - 1].finished
        BY <1>3, <4>1, ZenonT(60) DEF Records
      <4>3. dispatches[index - 1].finished = Free(index)
        BY <4>1 DEF Free
      <4>4. Free(index) <= begun
        <5>1. Free(index) \in Nat /\ Due(index) \in Nat
          BY Typed, <1>1 DEF Position
        <5> QED BY <3>1, <5>1 DEF Begin
      <4>5. /\ dispatches[j].started \in Nat /\ dispatches[index - 1].started \in Nat
            /\ dispatches[index - 1].finished \in Nat
        <5>1. dispatches[j] \in Dispatched /\ dispatches[index - 1] \in Dispatched
          BY <1>1, <1>3, <4>1
        <5> QED BY <5>1, ZenonT(60) DEF Dispatched
      <4> DEFINE a == dispatches[j].started
      <4> DEFINE b == dispatches[index - 1].started
      <4> DEFINE c == dispatches[index - 1].finished
      <4>6. a \in Nat /\ b \in Nat /\ c \in Nat /\ begun \in Nat /\ a <= b /\ b <= c /\ c <= begun
        BY <1>1, <4>2, <4>3, <4>4, <4>5, ZenonT(60) DEF STypeOK
      <4> HIDE DEF a, b, c
      <4>7. a <= begun
        BY <4>6, SMTT(30)
      <4> QED BY <4>7, ZenonT(60) DEF a
    <3>3. \A j \in 1..index : j = index \/ j \in 1..(index - 1)
      BY <1>1
    <3> QED BY <1>1, <1>3, <2>2, <3>1, <3>2, <3>3
  <2> QED BY <1>1, <2>1, <2>2
<1>10. Ending' /\ FailureExplained'
  BY ZenonT(60) DEF Ending, FailureExplained
<1> QED BY <1>4, <1>5, <1>7, <1>9, <1>10

\* The application's steps leave the schedule alone; a disconnected device stays
\* disconnected for it.
LEMMA ApplicationStep == ASSUME ScheduleInv, AppRead \/ AppExit PROVE ScheduleInv'
<1> USE DEF ScheduleInv, Early, Dispatching, Finishing, device, run, scenario
<1>1. /\ UNCHANGED <<events, timeout, at, now, started, origin, index, until, begun, dispatches,
                     timed_out>>
      /\ app' \in {"running", "exited"}
      /\ fault.type = "disconnect" => fault' = fault
  BY DEF AppRead, AppExit
<1>2. STypeOK'
  BY <1>1 DEF STypeOK
<1>3. Position'
  BY <1>1 DEF Position
<1>4. Records'
  BY <1>1, RecordsKept
<1>5. Times'
  BY <1>1, ZenonT(60) DEF Times, Free, Due, Begin
<1>6. Ending'
  BY <1>1 DEF Ending
<1>7. FailureExplained'
  BY <1>1 DEF FailureExplained
<1> QED BY <1>2, <1>3, <1>4, <1>5, <1>6, <1>7

\* Time passes only up to the end of a sleep or a wait.
LEMMA TickStep == ASSUME ScheduleInv, Tick PROVE ScheduleInv'
<1> USE DEF ScheduleInv, Early, Dispatching, Finishing, device, application, run, scenario
<1>1. /\ UNCHANGED <<events, timeout, at, started, origin, index, until, begun, dispatches, timed_out,
                     app, fault>>
      /\ now' = now + 1 /\ now \in Nat /\ until \in Nat /\ started \in Nat /\ begun \in Nat
      /\ at \in {"popen", "call", "return", "sleep", "collect", "grace"}
      /\ at \in {"sleep", "collect", "grace"} => now < until
  BY DEF Tick, STypeOK
<1>2. STypeOK'
  BY <1>1 DEF STypeOK
<1>3. Position'
  BY <1>1 DEF Position
<1>4. Records'
  BY <1>1, RecordsKept
<1>5. /\ Free(index)' = Free(index) /\ Due(index)' = Due(index) /\ Begin(index)' = Begin(index)
      /\ at # "popen" => Free(index) \in Nat
  BY <1>1, Typed DEF Free, Due, Begin, STypeOK
<1>6. Times'
  BY <1>1, <1>5 DEF Times
<1>7. Ending'
  <2>1. at \in {"collect", "grace"} => timeout * Res \in Nat
    BY Typed
  <2> QED BY <1>1, <2>1 DEF Ending
<1>8. FailureExplained'
  BY <1>1 DEF FailureExplained
<1> QED BY <1>2, <1>3, <1>4, <1>6, <1>7, <1>8

\* terminate keeps the invariant if it is called at the limit or after it, and
\* less than a millisecond after it or just after the last call.
LEMMA TerminateEnding ==
  ASSUME ScheduleInv, at \notin Early, Terminate, index = Len(events) + 1,
         UNCHANGED <<events, timeout, now, started, origin, index, begun, dispatches, app>>,
         started + timeout * Res <= now,
         now < started + timeout * Res + Res \/ now <= dispatches[Len(events)].finished
  PROVE  ScheduleInv'
<1> USE DEF ScheduleInv, Early, Dispatching, Finishing
<1>1. /\ timeout * Res \in Nat /\ GraceMs * Res \in Nat /\ Res \in Nat
      /\ now \in Nat /\ started \in Nat /\ until \in Nat
      /\ dispatches[Len(events)].finished \in Nat
  <2>1. dispatches[Len(events)] \in Dispatched
    BY Typed DEF STypeOK, Position
  <2> QED BY <2>1, Typed, ScheduleAssumption, ZenonT(60) DEF STypeOK, Dispatched
<1>2. /\ at' \in {"grace", "ended"} /\ timed_out' = TRUE
      /\ at' = "grace" => until' = now + GraceMs * Res
      /\ until' \in Nat
  BY <1>1 DEF Terminate
<1>3. STypeOK'
  BY <1>2 DEF STypeOK
<1>4. Position'
  BY <1>2 DEF Position
<1>5. Records'
  BY RecordsKept
<1>6. Times'
  BY <1>2 DEF Times, Free
<1>7. Ending'
  <2> DEFINE limit == started + timeout * Res
  <2>1. limit \in Nat
    BY <1>1, NatArithmetic, ZenonT(60)
  <2>2. /\ UNCHANGED <<limit, now>> /\ dispatches[Len(events)]' = dispatches[Len(events)]
        /\ limit <= now
    BY ZenonT(60)
  <2> HIDE DEF limit
  <2>3. /\ now + GraceMs * Res < limit + Res + GraceMs * Res
           \/ now + GraceMs * Res <= dispatches[Len(events)].finished + GraceMs * Res
        /\ now < limit + Res + GraceMs * Res
           \/ now <= dispatches[Len(events)].finished + GraceMs * Res
        /\ now <= now + GraceMs * Res
    <3>1. now < limit + Res \/ now <= dispatches[Len(events)].finished
      BY ZenonT(60) DEF limit
    <3> QED BY <1>1, <2>1, <3>1, GraceArithmetic, ZenonT(60)
  <2>4. at' # "collect" /\ (at' = "grace" => until' = now + GraceMs * Res)
    BY <1>2, Places, ZenonT(60)
  <2> QED BY <1>2, <2>2, <2>3, <2>4, ZenonT(60) DEF Ending, limit
<1>8. FailureExplained'
  BY <1>2, ZenonT(60) DEF FailureExplained
<1> QED BY <1>3, <1>4, <1>5, <1>6, <1>7, <1>8

\* After the last event: the wait for the application ends at the timeout, which
\* is over already if the last event was due at it.
LEMMA RemainingStep == ASSUME ScheduleInv, Remaining PROVE ScheduleInv'
<1> USE DEF ScheduleInv, Early, Dispatching, Finishing
<1> DEFINE left == timeout - elapsed_ms
<1> DEFINE last == Len(events)
<1>1. /\ at = "next" /\ index = Len(events) + 1 /\ last \in DOMAIN events /\ index # 1
      /\ UNCHANGED <<events, timeout, now, started, origin, index, begun, dispatches, app, fault>>
      /\ IF left <= 0 THEN Terminate
         ELSE at' = "collect" /\ until' = now + left * Res /\ UNCHANGED timed_out
  BY Typed DEF Remaining, Position, STypeOK, device, application, run, scenario
<1>2. /\ now \in Nat /\ started \in Nat /\ origin \in Nat /\ now - started \in Nat
      /\ timeout \in Nat /\ Res \in Nat \ {0}
      /\ Free(index) = dispatches[last].finished /\ now = dispatches[last].finished
      /\ last = Len(dispatches) /\ last \in Nat \ {0}
  <2>1. started <= origin /\ Free(index) = now
    BY <1>1 DEF Times
  <2>2. last \in Nat /\ last = Len(dispatches) /\ index - 1 = last
    BY <1>1, Typed DEF STypeOK, Position
  <2>3. origin <= now
    <3>1. last \in DOMAIN dispatches /\ dispatches[last] \in Dispatched
      BY <1>1, <2>2, Typed DEF STypeOK
    <3>2. origin <= Begin(last)
      <4>1. Due(last) \in Nat /\ Free(last) \in Nat /\ origin <= Due(last)
        <5>1. events[last] \in Event /\ Due(last) \in Nat /\ Free(last) \in Nat
          BY <1>1, <2>2, Typed DEF STypeOK
        <5>2. events[last].at_ms * Res \in Nat
          BY <5>1, ScheduleAssumption DEF Event
        <5> QED BY <5>1, <5>2 DEF Due, STypeOK
      <4> QED BY <4>1 DEF Begin, STypeOK
    <3>3. dispatches[last].started = Begin(last) /\ dispatches[last].started <= dispatches[last].finished
      BY <3>1 DEF Records
    <3>4. dispatches[last].finished = now
      BY <1>1, <2>1, <2>2 DEF Free
    <3> QED BY <3>1, <3>2, <3>3, <3>4 DEF STypeOK, Dispatched
  <2>4. /\ now \in Nat /\ started \in Nat /\ origin \in Nat
        /\ timeout \in Nat /\ Res \in Nat \ {0} /\ last \in Nat \ {0}
    BY <1>1, Typed, ScheduleAssumption DEF STypeOK
  <2>5. now - started \in Nat
    BY <2>1, <2>3, <2>4, NatArithmetic, ZenonT(60)
  <2>6. Free(index) = dispatches[last].finished
    BY <1>1, <2>2, ZenonT(60) DEF Free
  <2> HIDE DEF last
  <2> QED BY <2>1, <2>2, <2>4, <2>5, <2>6, ZenonT(60)
<1>3. /\ left \in Int /\ timeout * Res \in Nat
      /\ left <= 0 => started + timeout * Res <= now
      /\ left > 0 => /\ left * Res \in Nat
                     /\ started + timeout * Res <= now + left * Res
                     /\ now + left * Res < started + timeout * Res + Res
  <2>1. /\ left \in Int /\ timeout * Res \in Nat
        /\ left <= 0 => timeout * Res <= now - started
        /\ left > 0 => /\ left * Res \in Nat
                       /\ timeout * Res <= now - started + left * Res
                       /\ now - started + left * Res < timeout * Res + Res
    BY <1>2, WaitEnds, ZenonT(60) DEF elapsed_ms
  <2> HIDE DEF left
  <2>2. /\ timeout * Res <= now - started => started + timeout * Res <= now
        /\ left * Res \in Nat =>
             /\ timeout * Res <= now - started + left * Res =>
                  started + timeout * Res <= now + left * Res
             /\ now - started + left * Res < timeout * Res + Res =>
                  now + left * Res < started + timeout * Res + Res
    BY <1>2, <2>1, ShiftArithmetic, ZenonT(60)
  <2> QED BY <2>1, <2>2, ZenonT(60)
<1> HIDE DEF left
<1>4. CASE left <= 0
  BY <1>1, <1>2, <1>3, <1>4, TerminateEnding
<1>5. CASE left > 0
  <2>1. at' = "collect" /\ until' = now + left * Res /\ UNCHANGED timed_out /\ until' \in Nat
    <3>1. at' = "collect" /\ until' = now + left * Res /\ UNCHANGED timed_out
      BY <1>1, <1>3, <1>5
    <3>2. now + left * Res \in Nat
      BY <1>2, <1>3, <1>5, NatArithmetic, ZenonT(60)
    <3> QED BY <3>1, <3>2, ZenonT(60)
  <2>2. STypeOK'
    BY <1>1, <2>1 DEF STypeOK
  <2>3. Position'
    BY <1>1, <2>1 DEF Position
  <2>4. Records'
    BY <1>1, RecordsKept
  <2>5. Times'
    BY <1>1, <2>1, ZenonT(60) DEF Times, Free
  <2>6. events[last].at_ms # timeout
    <3> SUFFICES ASSUME events[last].at_ms = timeout PROVE FALSE
      OBVIOUS
    <3>1. last \in DOMAIN dispatches /\ dispatches[last] \in Dispatched
      BY <1>2 DEF STypeOK
    <3>2. dispatches[last].started = Begin(last) /\ Begin(last) <= now
      BY <1>2, <3>1, ZenonT(60) DEF Records
    <3>3. Due(last) <= Begin(last) /\ Begin(last) \in Nat /\ Due(last) \in Nat
      <4>1. Due(last) \in Nat /\ Free(last) \in Nat
        BY <1>1, <1>2, Typed, SMTT(30)
      <4> QED BY <4>1 DEF Begin
    <3>4. Due(last) = origin + timeout * Res /\ started <= origin
      BY <1>1 DEF Due, Times
    <3>5. started + timeout * Res <= now
      BY <1>2, <1>3, <3>2, <3>3, <3>4
    <3>6. timeout <= elapsed_ms
      <4>1. timeout * Res <= now - started
        BY <1>2, <1>3, <3>5
      <4> QED BY <1>2, <4>1, DivAtLeast, ZenonT(60) DEF elapsed_ms
    <3>7. elapsed_ms \in Nat
      BY <1>2, DivFacts, ZenonT(60) DEF elapsed_ms
    <3> QED BY <1>2, <1>5, <3>6, <3>7 DEF left
  <2>7. Ending'
    <3>1. now <= now + left * Res
      BY <1>2, <1>3, <1>5, NatArithmetic, ZenonT(60)
    <3> QED BY <1>1, <1>3, <1>5, <2>1, <2>6, <3>1, Places, ZenonT(60) DEF Ending
  <2>8. FailureExplained'
    BY <2>1 DEF FailureExplained
  <2> QED BY <2>2, <2>3, <2>4, <2>5, <2>7, <2>8
<1> QED BY <1>3, <1>4, <1>5

\* The application ends by itself, or the wait for it does.
LEMMA CollectStep == ASSUME ScheduleInv, Collect PROVE ScheduleInv'
<1> USE DEF ScheduleInv, Early, Dispatching, Finishing
<1>1. /\ at = "collect" /\ index = Len(events) + 1 /\ ~timed_out
      /\ UNCHANGED <<events, timeout, now, started, origin, index, begun, dispatches, app, fault>>
      /\ \/ at' = "ended" /\ UNCHANGED <<until, timed_out>>
         \/ now >= until /\ Terminate
  BY DEF Collect, Position, device, application, run, scenario
<1>2. /\ now \in Nat /\ until \in Nat /\ started \in Nat /\ timeout * Res \in Nat /\ Res \in Nat
      /\ GraceMs * Res \in Nat
  BY <1>1, Typed, ScheduleAssumption DEF STypeOK
<1>3. /\ now <= until /\ started + timeout * Res <= until /\ until < started + timeout * Res + Res
      /\ events[Len(events)].at_ms # timeout
  BY <1>1, ZenonT(60) DEF Ending
<1>4. CASE at' = "ended" /\ UNCHANGED <<until, timed_out>>
  <2>1. STypeOK'
    BY <1>1, <1>4 DEF STypeOK
  <2>2. Position'
    BY <1>1, <1>4 DEF Position
  <2>3. Records'
    BY <1>1, RecordsKept
  <2>4. Times'
    BY <1>1, <1>4, ZenonT(60) DEF Times, Free
  <2>5. Ending'
    <3> DEFINE limit == started + timeout * Res
    <3>1. limit \in Nat /\ UNCHANGED <<limit, now>>
      BY <1>1, <1>2, NatArithmetic, ZenonT(60)
    <3>2. now <= until /\ until < limit + Res
      BY <1>3, ZenonT(60)
    <3> HIDE DEF limit
    <3>3. now < limit + Res /\ now < limit + Res + GraceMs * Res
      BY <1>2, <3>1, <3>2, WaitArithmetic, ZenonT(60)
    <3> QED BY <1>1, <1>3, <1>4, <3>1, <3>3, Places, ZenonT(60) DEF Ending, limit
  <2>6. FailureExplained'
    BY <1>4 DEF FailureExplained
  <2> QED BY <2>1, <2>2, <2>3, <2>4, <2>5, <2>6
<1>5. CASE now >= until /\ Terminate
  <2>1. started + timeout * Res <= now /\ now < started + timeout * Res + Res
    BY <1>2, <1>3, <1>5
  <2> QED BY <1>1, <1>5, <2>1, TerminateEnding, ZenonT(60)
<1> QED BY <1>1, <1>4, <1>5

\* The grace period ends.
LEMMA GraceStep == ASSUME ScheduleInv, Grace PROVE ScheduleInv'
<1> USE DEF ScheduleInv, Early, Dispatching, Finishing
<1>1. /\ at = "grace" /\ at' = "ended" /\ app' = "exited" /\ index = Len(events) + 1
      /\ UNCHANGED <<events, timeout, now, started, origin, index, until, begun, dispatches,
                     timed_out, fault>>
  BY DEF Grace, Position, device, run, scenario
<1>2. /\ now \in Nat /\ until \in Nat /\ started \in Nat /\ timeout * Res \in Nat /\ Res \in Nat
      /\ GraceMs * Res \in Nat /\ dispatches[Len(events)].finished \in Nat
  <2>1. dispatches[Len(events)] \in Dispatched
    BY <1>1, Typed DEF STypeOK, Position
  <2> QED BY <1>1, <2>1, Typed, ScheduleAssumption, ZenonT(60) DEF STypeOK, Dispatched
<1>3. STypeOK'
  BY <1>1 DEF STypeOK
<1>4. Position'
  BY <1>1 DEF Position
<1>5. Records'
  BY <1>1, RecordsKept
<1>6. Times'
  BY <1>1, ZenonT(60) DEF Times, Free
<1>7. Ending'
  <2> DEFINE limit == started + timeout * Res
  <2> DEFINE f == dispatches[Len(events)].finished
  <2>1. limit \in Nat /\ UNCHANGED <<limit, now, f>>
    BY <1>1, <1>2, NatArithmetic, ZenonT(60)
  <2>2. /\ timed_out /\ limit <= now /\ now <= until
        /\ until < limit + Res + GraceMs * Res \/ until <= f + GraceMs * Res
    BY <1>1, ZenonT(60) DEF Ending
  <2> HIDE DEF limit, f
  <2>3. now < limit + Res + GraceMs * Res \/ now <= f + GraceMs * Res
    <3>1. f \in Nat
      BY <1>2, ZenonT(60) DEF f
    <3> QED BY <1>2, <2>1, <2>2, <3>1, WaitArithmetic, ZenonT(60)
  <2> QED BY <1>1, <2>1, <2>2, <2>3, Places, ZenonT(60) DEF Ending, limit, f
<1>8. FailureExplained'
  BY <1>1 DEF FailureExplained
<1> QED BY <1>3, <1>4, <1>5, <1>6, <1>7, <1>8

\* Nothing changes in a step that changes nothing.
LEMMA ScheduleStutter == ASSUME ScheduleInv, UNCHANGED svars PROVE ScheduleInv'
<1> USE DEF ScheduleInv, svars
<1>1. STypeOK'
  BY DEF STypeOK
<1>2. Position'
  BY DEF Position
<1>3. Records'
  BY RecordsKept
<1>4. Times'
  BY ZenonT(60) DEF Times, Free, Due, Begin
<1>5. Ending' /\ FailureExplained'
  BY ZenonT(60) DEF Ending, FailureExplained
<1> QED BY <1>1, <1>2, <1>3, <1>4, <1>5

\* The inductive invariant of a run against the clock: where it is, when each
\* event was dispatched and when the wait for the application ends.
THEOREM ScheduleInvariant == SSpec => []ScheduleInv
<1>1. SInit => ScheduleInv
  BY ScheduleInit
<1>2. ScheduleInv /\ [SNext]_svars => ScheduleInv'
  BY LoadStep, StartStep, NextEventStep, CallStep, ReturnStep, RemainingStep, CollectStep, GraceStep,
    ApplicationStep, TickStep, ScheduleStutter DEF SNext
<1> QED BY <1>1, <1>2, PTL DEF SSpec

\* ScenarioScheduler.run never lets the time of an event drift: it is dispatched
\* at its own time, or at the end of the event before.
THEOREM OnTime == SSpec => []DispatchedOnTime
<1>1. ScheduleInv => DispatchedOnTime
  BY ZenonT(60) DEF ScheduleInv, Records, DispatchedOnTime, Begin, Due, Free
<1> QED BY <1>1, ScheduleInvariant, PTL

\* A late event waited for one that was scheduled no later.
THEOREM LateEvents == SSpec => []LateExplained
<1>1. ScheduleInv => LateExplained
  <2> SUFFICES ASSUME ScheduleInv, NEW i \in DOMAIN dispatches, dispatches[i].started > Due(i)
               PROVE  \E j \in 1..(i - 1) :
                        events[j].at_ms <= events[i].at_ms /\ dispatches[j].finished > Due(i)
    BY ZenonT(60) DEF LateExplained, Due
  <2>1. i \in 1..(index - 1) /\ i \in Nat /\ index \in Nat \ {0}
    BY DEF ScheduleInv, STypeOK, Position
  <2>2. at \notin Early /\ i <= Len(events)
    BY <2>1 DEF ScheduleInv, STypeOK, Position, Early, Dispatching, Finishing
  <2>3. i \in DOMAIN events /\ Due(i) \in Nat /\ Free(i) \in Nat /\ Free(1) = origin
    <3>1. /\ i \in 1..Len(events) /\ i \in 1..index
          /\ \A j \in 1..index : Free(j) \in Nat
          /\ \A j \in DOMAIN events : Due(j) \in Nat
          /\ DOMAIN events = 1..Len(events)
      BY <2>1, <2>2, Typed DEF ScheduleInv
    <3> QED BY <3>1, ZenonT(60) DEF Free
  <2>4. dispatches[i].started = Begin(i)
    BY DEF ScheduleInv, Records
  <2>5. Free(i) > Due(i)
    BY <2>3, <2>4 DEF Begin
  <2>6. i # 1
    <3>1. Due(i) >= origin
      <4>1. events[i].at_ms * Res \in Nat
        BY <2>2, <2>3, Typed, ScheduleAssumption DEF ScheduleInv, Event
      <4> QED BY <4>1 DEF Due, ScheduleInv, STypeOK
    <3> QED BY <2>3, <2>5, <3>1 DEF ScheduleInv, STypeOK
  <2>7. dispatches[i - 1].finished > Due(i)
    BY <2>5, <2>6 DEF Free
  <2>8. i \in 2..Len(events) /\ i - 1 \in 1..(i - 1)
    BY <2>1, <2>2, <2>6, Typed DEF ScheduleInv
  <2>9. events[i - 1].at_ms <= events[i].at_ms
    BY <2>2, <2>8, ZenonT(60) DEF ScheduleInv, Position, Accepted, Early
  <2> QED BY <2>7, <2>8, <2>9
<1> QED BY <1>1, ScheduleInvariant, PTL

\* What parse_scenario accepts, the driver refuses for two reasons only.
THEOREM Failures == SSpec => []FailureExplained
<1>1. ScheduleInv => FailureExplained
  BY DEF ScheduleInv
<1> QED BY <1>1, ScheduleInvariant, PTL

\* The timeout is reported when it passed, and only then.
THEOREM TimeoutReported == SSpec => []TimeoutHonest
<1>1. ScheduleInv => TimeoutHonest
  <2> SUFFICES ASSUME ScheduleInv, at = "ended" PROVE TimeoutHonest
    BY DEF TimeoutHonest
  <2>1. timeout \in Nat /\ Res \in Nat
    BY Typed, ScheduleAssumption DEF ScheduleInv, Early
  <2>2. (timeout + 1) * Res = timeout * Res + 1 * Res /\ timeout * Res \in Int /\ 1 * Res = Res
    BY <2>1, TimesDistributes
  <2> QED BY <2>1, <2>2 DEF ScheduleInv, STypeOK, Ending, TimeoutHonest
<1> QED BY <1>1, ScheduleInvariant, PTL

\* The run ends within the timeout or its last call, a millisecond and the grace
\* period, whatever the application does.
THEOREM RunEndsInTime == SSpec => []EndsInTime
<1>1. ScheduleInv => EndsInTime
  <2> SUFFICES ASSUME ScheduleInv, at = "ended" PROVE EndsInTime
    BY DEF EndsInTime
  <2>1. timeout \in Nat /\ Res \in Nat /\ GraceMs \in Nat
    BY Typed, ScheduleAssumption DEF ScheduleInv, Early
  <2>2. /\ (timeout + 1) * Res = timeout * Res + 1 * Res /\ timeout * Res \in Int /\ 1 * Res = Res
        /\ ((timeout + 1) + GraceMs) * Res = (timeout + 1) * Res + GraceMs * Res
        /\ GraceMs * Res \in Int
    BY <2>1, TimesDistributes
  <2> QED BY <2>1, <2>2 DEF ScheduleInv, STypeOK, Ending, EndsInTime
<1> QED BY <1>1, ScheduleInvariant, PTL

-----------------------------------------------------------------------------
(* The application's log.                                                  *)

LogLine ==
  [json : {"object"}, timestamp_ms : Nat,
   event : {"READ_RETRY", "RECOVERY_SUCCESS", "TEMPERATURE", "DEVICE_DISCONNECTED"},
   errno : {EIO, None}, n : {0, 1}, cause : Nat]

\* The time stamp of the start of event i, which may be in progress.
StartMs(i) == IF i < index THEN dispatches[i].monotonic_started_ms ELSE begun \div Res

\* The lines are in the order of time, and each is later than its causes.
Logged(s) ==
  /\ s \in Seq(LogLine)
  /\ \A k \in DOMAIN s :
       /\ s[k].timestamp_ms <= now \div Res
       /\ k > 1 => s[k - 1].timestamp_ms <= s[k].timestamp_ms
       /\ s[k].cause <= Effective
       /\ \A i \in 1..s[k].cause : StartMs(i) <= s[k].timestamp_ms

\* The parser takes the log as it is.
Parsed(s) == parse_application_log(s) = [error |-> FALSE, events |-> s]

\* A line logs a retry at time ts.
RetryAt(s, ts) == \E k \in DOMAIN s : s[k].event = "READ_RETRY" /\ s[k].timestamp_ms = ts

Recovery == [first : Int, recovered : Int, latency : Int, observed : Int, reported : Int]

Metrics ==
  [error : {FALSE}, eio : Int, retries : Int, recoveries : Seq(Recovery), firstSeen : Int,
   first : Int, active : Int]

\* Of all the times the metrics show, a line logs a retry; a window is open while
\* the application retries.
Measured(s, open) ==
  LET m == calculate_recovery_metrics(s)
  IN  /\ m \in Metrics /\ (open <=> m.first # None)
      /\ m.first # None => RetryAt(s, m.first)
      /\ m.firstSeen # None => RetryAt(s, m.firstSeen)
      /\ \A i \in DOMAIN m.recoveries : RetryAt(s, m.recoveries[i].first)

InjectedBy(n) == \E i \in 1..n : events[i].action = "fault"

\* A device found without a fault has one, and the application meets one, only
\* after a fault event took its effect.
Injected == found = NoFault /\ fault.type # "none" => InjectedBy(Effective)

Caused(s) ==
  found = NoFault => \A k \in DOMAIN s : s[k].event = "READ_RETRY" => InjectedBy(s[k].cause)

\* The assertions of an accepted scenario can be evaluated.
Evaluates == \A i \in DOMAIN assertions : Evaluable(assertions[i])

LogInv ==
  /\ Logged(text) /\ Parsed(text) /\ Measured(text, retrying) /\ retrying \in BOOLEAN
  /\ Injected /\ Caused(text) /\ Evaluates

\* The loops of analysis.py take the lines one by one.
Loops ==
  /\ parse_application_log(<<>>) = [error |-> FALSE, events |-> <<>>]
  /\ calculate_recovery_metrics(<<>>) = NoMetrics
  /\ \A s \in Seq(LogLine), x \in LogLine :
       /\ parse_application_log(Append(s, x)) = ParseLine(parse_application_log(s), x)
       /\ calculate_recovery_metrics(Append(s, x)) = Measure(calculate_recovery_metrics(s), x)

\* The lines of a log.
LEMMA LinesOf ==
  ASSUME NEW s \in Seq(LogLine) PROVE \A k \in DOMAIN s : s[k] \in LogLine /\ k \in Nat
OBVIOUS

\* A line that is an event, not earlier than the one before, is one more event.
LEMMA ParseAppend ==
  ASSUME Loops, NEW s \in Seq(LogLine), NEW x \in LogLine, Parsed(s),
         s # <<>> => s[Len(s)].timestamp_ms <= x.timestamp_ms
  PROVE  Parsed(Append(s, x))
<1>1. parse_application_log(Append(s, x)) = ParseLine(parse_application_log(s), x)
  BY ZenonT(60) DEF Loops
<1>2. ParseLine([error |-> FALSE, events |-> s], x) = [error |-> FALSE, events |-> Append(s, x)]
  <2>1. s # <<>> => s[Len(s)].timestamp_ms <= x.timestamp_ms /\ s[Len(s)].timestamp_ms \in Nat
    <3>1. s # <<>> => s[Len(s)] \in LogLine
      OBVIOUS
    <3> QED BY <3>1 DEF LogLine
  <2>2. x.json = "object" /\ x.timestamp_ms \in Nat
    BY DEF LogLine
  <2>3. ~(s # <<>> /\ x.timestamp_ms < s[Len(s)].timestamp_ms)
    <3> DEFINE l == s[Len(s)].timestamp_ms
    <3>1. s # <<>> => l <= x.timestamp_ms /\ l \in Nat
      BY <2>1
    <3> HIDE DEF l
    <3>2. ~(s # <<>> /\ x.timestamp_ms < l)
      BY <2>2, <3>1
    <3> QED BY <3>2 DEF l
  <2>4. ~(x.timestamp_ms < 0)
    BY <2>2
  <2>5. x.event # ""
    BY ZenonT(60) DEF LogLine
  <2> QED BY <2>2, <2>3, <2>4, <2>5, ZenonT(60) DEF ParseLine
<1> QED BY <1>1, <1>2, ZenonT(60) DEF Parsed

\* One more event is one more step of the loop of calculate_recovery_metrics.
LEMMA MeasureAppend ==
  ASSUME Loops, NEW s \in Seq(LogLine), NEW x \in LogLine
  PROVE  calculate_recovery_metrics(Append(s, x)) = Measure(calculate_recovery_metrics(s), x)
BY ZenonT(60) DEF Loops

\* The log that is empty.
LEMMA EmptyLog == ASSUME Loops PROVE Parsed(<<>>) /\ Measured(<<>>, FALSE)
<1>1. parse_application_log(<<>>) = [error |-> FALSE, events |-> <<>>]
  BY ZenonT(60) DEF Loops
<1>2. calculate_recovery_metrics(<<>>) = NoMetrics
  BY ZenonT(60) DEF Loops
<1>3. NoMetrics \in Metrics /\ NoMetrics.first = None /\ NoMetrics.firstSeen = None
      /\ NoMetrics.recoveries = <<>>
  <2>1. None \in Int /\ 0 \in Int /\ <<>> \in Seq(Recovery)
    BY DEF None
  <2> QED BY <2>1, ZenonT(60) DEF NoMetrics, Metrics
<1> QED BY <1>1, <1>2, <1>3 DEF Parsed, Measured

\* A retry that a log shows, a longer one does.
LEMMA RetryKept ==
  ASSUME NEW s \in Seq(LogLine), NEW x \in LogLine, NEW ts, RetryAt(s, ts)
  PROVE  RetryAt(Append(s, x), ts)
<1>1. PICK k \in DOMAIN s : s[k].event = "READ_RETRY" /\ s[k].timestamp_ms = ts
  BY DEF RetryAt
<1>2. k \in DOMAIN Append(s, x) /\ Append(s, x)[k] = s[k]
  BY SMTT(30), <1>1
<1> QED BY <1>1, <1>2 DEF RetryAt

\* A retry opens a window, or is one more of the window that is open.
LEMMA MeasureRetry ==
  ASSUME Loops, NEW s \in Seq(LogLine), NEW x \in LogLine, NEW open, Measured(s, open),
         x.event = "READ_RETRY", x.errno = EIO
  PROVE  Measured(Append(s, x), TRUE)
<1> DEFINE m == calculate_recovery_metrics(s)
<1> DEFINE new == CountRetry(m, x)
<1>1. m \in Metrics /\ x.timestamp_ms \in Nat /\ x.timestamp_ms # None /\ x.errno = 5 /\ x.n \in Nat
  BY DEF Measured, LogLine, EIO, None
<1>2. calculate_recovery_metrics(Append(s, x)) = new
  BY <1>1, MeasureAppend, ZenonT(60) DEF Measure, Metrics
<1>3. RetryAt(Append(s, x), x.timestamp_ms)
  <2>1. Len(s) + 1 \in DOMAIN Append(s, x) /\ Append(s, x)[Len(s) + 1] = x
    OBVIOUS
  <2> QED BY <2>1 DEF RetryAt
<1>4. \A ts : RetryAt(s, ts) => RetryAt(Append(s, x), ts)
  BY RetryKept
<1>5. /\ m.first # None => RetryAt(s, m.first)
      /\ m.firstSeen # None => RetryAt(s, m.firstSeen)
      /\ \A i \in DOMAIN m.recoveries : RetryAt(s, m.recoveries[i].first)
  BY ZenonT(60) DEF Measured
<1> HIDE DEF m
<1>6. /\ new \in Metrics /\ new.recoveries = m.recoveries
      /\ new.first = IF m.first = None THEN x.timestamp_ms ELSE m.first
      /\ new.firstSeen = IF m.firstSeen = None THEN x.timestamp_ms ELSE m.firstSeen
  <2>1. ~(x.errno < 0 \/ x.n < 0)
    BY <1>1
  <2>2. /\ m.eio \in Int /\ m.retries \in Int /\ m.recoveries \in Seq(Recovery) /\ m.firstSeen \in Int
        /\ m.first \in Int /\ m.active \in Int /\ m.error = FALSE
        /\ m = [error |-> m.error, eio |-> m.eio, retries |-> m.retries, recoveries |-> m.recoveries,
                firstSeen |-> m.firstSeen, first |-> m.first, active |-> m.active]
    BY <1>1, ZenonT(60) DEF Metrics
  <2>3. new = [error |-> m.error, eio |-> m.eio + IF x.errno = EIO THEN 1 ELSE 0,
               retries |-> m.retries + 1, recoveries |-> m.recoveries,
               firstSeen |-> IF m.firstSeen = None THEN x.timestamp_ms ELSE m.firstSeen,
               first |-> IF m.first = None THEN x.timestamp_ms ELSE m.first, active |-> m.active + 1]
    BY <2>1, <2>2, ZenonT(60) DEF CountRetry
  <2> HIDE DEF new
  <2>4. /\ new.recoveries = m.recoveries
        /\ new.first = IF m.first = None THEN x.timestamp_ms ELSE m.first
        /\ new.firstSeen = IF m.firstSeen = None THEN x.timestamp_ms ELSE m.firstSeen
    BY <2>3, ZenonT(60)
  <2>5. /\ m.eio + (IF x.errno = EIO THEN 1 ELSE 0) \in Int /\ m.retries + 1 \in Int
        /\ (IF m.firstSeen = None THEN x.timestamp_ms ELSE m.firstSeen) \in Int
        /\ (IF m.first = None THEN x.timestamp_ms ELSE m.first) \in Int /\ m.active + 1 \in Int
    <3>1. x.timestamp_ms \in Int
      BY <1>1 DEF LogLine
    <3>2. \A a \in Int : a + 1 \in Int /\ a + 0 \in Int
      OBVIOUS
    <3> QED BY <2>2, <3>1, <3>2, ZenonT(60)
  <2> QED BY <2>2, <2>3, <2>4, <2>5, ZenonT(60) DEF Metrics
<1> HIDE DEF new
<1> QED BY <1>1, <1>2, <1>3, <1>4, <1>5, <1>6, ZenonT(60) DEF Measured

\* A recovery closes the window.
LEMMA MeasureRecovery ==
  ASSUME Loops, NEW s \in Seq(LogLine), NEW x \in LogLine, Measured(s, TRUE),
         x.event = "RECOVERY_SUCCESS"
  PROVE  Measured(Append(s, x), FALSE)
<1> DEFINE m == calculate_recovery_metrics(s)
<1> DEFINE new == CloseWindow(m, x)
<1>1. m \in Metrics /\ x.timestamp_ms \in Nat /\ x.n \in Nat /\ m.first # None /\ m.first \in Int
  <2>1. x.timestamp_ms \in Nat /\ x.n \in Nat
    BY DEF LogLine
  <2>2. m \in Metrics /\ m.first # None
    BY ZenonT(60) DEF Measured
  <2> QED BY <2>1, <2>2, ZenonT(60) DEF Metrics
<1>2. calculate_recovery_metrics(Append(s, x)) = new
  BY <1>1, MeasureAppend, ZenonT(60) DEF Measure, Metrics
<1>3. \A ts : RetryAt(s, ts) => RetryAt(Append(s, x), ts)
  BY RetryKept
<1>4. /\ RetryAt(s, m.first)
      /\ m.firstSeen # None => RetryAt(s, m.firstSeen)
      /\ \A i \in DOMAIN m.recoveries : RetryAt(s, m.recoveries[i].first)
  BY <1>1, ZenonT(60) DEF Measured
<1> HIDE DEF m
<1>5. Window(m, x) \in Recovery /\ Window(m, x).first = m.first
  <2>1. m.first \in Int /\ m.active \in Int /\ x.timestamp_ms \in Int /\ x.n \in Int
    BY <1>1 DEF Metrics, LogLine
  <2>2. x.timestamp_ms - m.first \in Int
    BY <2>1
  <2> QED BY <2>1, <2>2, ZenonT(60) DEF Window, Recovery
<1>6. /\ new \in Metrics /\ new.recoveries = Append(m.recoveries, Window(m, x))
      /\ new.first = None /\ new.firstSeen = m.firstSeen
  <2>1. ~(x.n < 0 \/ m.first = None)
    BY <1>1
  <2>2. /\ m.eio \in Int /\ m.retries \in Int /\ m.recoveries \in Seq(Recovery) /\ m.firstSeen \in Int
        /\ m.active \in Int /\ m.error = FALSE
        /\ m = [error |-> m.error, eio |-> m.eio, retries |-> m.retries, recoveries |-> m.recoveries,
                firstSeen |-> m.firstSeen, first |-> m.first, active |-> m.active]
    BY <1>1, ZenonT(60) DEF Metrics
  <2>3. new = [error |-> m.error, eio |-> m.eio, retries |-> m.retries,
               recoveries |-> Append(m.recoveries, Window(m, x)),
               firstSeen |-> m.firstSeen, first |-> None, active |-> 0]
    BY <2>1, <2>2, ZenonT(60) DEF CloseWindow
  <2>4. Append(m.recoveries, Window(m, x)) \in Seq(Recovery) /\ None \in Int
    BY <1>5, <2>2 DEF None
  <2> HIDE DEF new
  <2>5. 0 \in Int
    OBVIOUS
  <2> QED BY <2>2, <2>3, <2>4, <2>5, ZenonT(60) DEF Metrics
<1>7. \A i \in DOMAIN new.recoveries : RetryAt(s, new.recoveries[i].first)
  <2>1. m.recoveries \in Seq(Recovery)
    BY <1>1 DEF Metrics
  <2>2. \A i \in DOMAIN new.recoveries :
          \/ new.recoveries[i] = Window(m, x)
          \/ i \in DOMAIN m.recoveries /\ new.recoveries[i] = m.recoveries[i]
    <3> DEFINE w == Window(m, x)
    <3> DEFINE r == m.recoveries
    <3>1. w \in Recovery /\ r \in Seq(Recovery) /\ new.recoveries = Append(r, w)
      BY ZenonT(60), <1>5, <1>6, <2>1
    <3> HIDE DEF w, r, new
    <3>2. \A i \in DOMAIN Append(r, w) :
            Append(r, w)[i] = w \/ (i \in DOMAIN r /\ Append(r, w)[i] = r[i])
      BY <3>1, SMTT(60)
    <3> QED BY <3>1, <3>2, ZenonT(60) DEF w, r
  <2> QED BY <1>4, <1>5, <2>2, ZenonT(60)
<1> HIDE DEF new
<1> QED BY <1>2, <1>3, <1>4, <1>6, <1>7, ZenonT(60) DEF Measured

\* Any other event is nothing to the metrics.
LEMMA MeasureOther ==
  ASSUME Loops, NEW s \in Seq(LogLine), NEW x \in LogLine, NEW open, Measured(s, open),
         x.event \notin {"READ_RETRY", "RECOVERY_SUCCESS"}
  PROVE  Measured(Append(s, x), open)
<1>1. calculate_recovery_metrics(Append(s, x)) = calculate_recovery_metrics(s)
  BY MeasureAppend DEF Measure
<1>2. \A ts : RetryAt(s, ts) => RetryAt(Append(s, x), ts)
  BY RetryKept
<1> QED BY <1>1, <1>2, ZenonT(60) DEF Measured

-----------------------------------------------------------------------------
(* The assertions that parse_scenario accepts.                             *)

Milli(g) == IF g = "within" THEN "within_ms" ELSE "max_latency_ms"

\* The definition that a mapping of the document becomes.
AssertionOf(a) ==
  [f \in {"type"} \cup (DOMAIN a \ {"within", "max_latency"})
            \cup {Milli(g) : g \in {"within", "max_latency"} \cap DOMAIN a} |->
     IF f = "within_ms" THEN Milliseconds(a.within)
     ELSE IF f = "max_latency_ms" THEN Milliseconds(a.max_latency)
     ELSE IF f \in DOMAIN a THEN a[f].v ELSE "event_count"]

\* A duration of that definition comes from the mapping.
LEMMA WithinField ==
  ASSUME NEW a, "within_ms" \notin DOMAIN a, "within_ms" \in DOMAIN AssertionOf(a)
  PROVE  "within" \in DOMAIN a /\ AssertionOf(a).within_ms = Milliseconds(a.within)
BY DEF AssertionOf, Milli

\* So does the other one.
LEMMA LatencyField ==
  ASSUME NEW a, "max_latency_ms" \notin DOMAIN a, "max_latency_ms" \in DOMAIN AssertionOf(a)
  PROVE  "max_latency" \in DOMAIN a /\ AssertionOf(a).max_latency_ms = Milliseconds(a.max_latency)
BY DEF AssertionOf, Milli

\* The type of that definition, and the default.
LEMMA TypeField ==
  ASSUME NEW a
  PROVE  AssertionOf(a).type = IF "type" \in DOMAIN a THEN a.type.v ELSE "event_count"
BY DEF AssertionOf

\* Its other fields are the values of the mapping.
LEMMA PlainField ==
  ASSUME NEW a, NEW f \in {"event", "count", "expected", "contains", "not_contains"}, f \in DOMAIN a
  PROVE  f \in DOMAIN AssertionOf(a) /\ AssertionOf(a)[f] = a[f].v
BY ZenonT(60) DEF AssertionOf

\* The names that the schema allows are not empty.
LEMMA EventNamed == ASSUME NEW e \in _LOG_EVENTS PROVE e # ""
BY ZenonT(60) DEF _LOG_EVENTS

\* The schema's limit of a count is a number.
LEMMA CountLimit == MAX_COUNT \in Nat
BY SMTT(30) DEF MAX_COUNT

\* Every accepted assertion can be evaluated.
LEMMA AssertionAccepted ==
  ASSUME NEW x, NEW limit, _parse_assertion(x, limit) PROVE Evaluable(AssertionOf(x.v))
<1> DEFINE a == x.v
<1> DEFINE d == AssertionOf(a)
<1>1. CASE /\ "type" \notin DOMAIN a \/ Is(a.type, "event_count")
           /\ _parse_event_assertion(x, limit)
  <2>1. "within_ms" \notin DOMAIN a /\ "max_latency_ms" \notin DOMAIN a
    BY <1>1, ZenonT(60) DEF _parse_event_assertion, _allowed
  <2>2. "event" \in DOMAIN a /\ "count" \in DOMAIN a
    BY <1>1, ZenonT(60) DEF _parse_event_assertion, _required
  <2>3. /\ d.type = "event_count" /\ "event" \in DOMAIN d /\ d.event = a.event.v
        /\ "count" \in DOMAIN d /\ d.count = a.count.v
    <3>1. d.type = "event_count"
      BY <1>1, TypeField, ZenonT(60) DEF Is
    <3> QED BY <2>2, <3>1, PlainField, ZenonT(60)
  <2>4. a.event.v \in _LOG_EVENTS /\ a.count.v > 0
    <3> DEFINE c == a.count
    <3>1. a.event.v \in _LOG_EVENTS /\ _bounded_integer(c, 1, MAX_COUNT)
      BY <1>1, ZenonT(60) DEF _parse_event_assertion
    <3> HIDE DEF c
    <3>2. c.v > 0
      BY <3>1, CountLimit DEF _bounded_integer
    <3> QED BY <3>1, <3>2 DEF c
  <2>5. "within_ms" \in DOMAIN d => d.within_ms >= 0
    <3> SUFFICES ASSUME "within_ms" \in DOMAIN d PROVE d.within_ms >= 0
      OBVIOUS
    <3>1. "within" \in DOMAIN a /\ d.within_ms = Milliseconds(a.within)
      BY ZenonT(60), <2>1, WithinField
    <3>2. Milliseconds(a.within) \in Nat
      BY <1>1, <3>1, DurationNat, ZenonT(60) DEF _parse_event_assertion, parse_duration_to
    <3> QED BY <3>1, <3>2
  <2>6. "max_latency_ms" \in DOMAIN d => d.max_latency_ms >= 0
    <3> SUFFICES ASSUME "max_latency_ms" \in DOMAIN d PROVE d.max_latency_ms >= 0
      OBVIOUS
    <3>1. "max_latency" \in DOMAIN a /\ d.max_latency_ms = Milliseconds(a.max_latency)
      BY ZenonT(60), <2>1, LatencyField
    <3>2. Milliseconds(a.max_latency) \in Nat
      BY <1>1, <3>1, DurationNat, ZenonT(60) DEF _parse_event_assertion, parse_duration_to
    <3> QED BY <3>1, <3>2
  <2>7. d.event # ""
    BY ZenonT(60), <2>3, <2>4, EventNamed
  <2> HIDE DEF d, a
  <2> QED BY <2>3, <2>4, <2>5, <2>6, <2>7, ZenonT(60) DEF Evaluable, d, a
<1>2. CASE "type" \in DOMAIN a /\ Is(a.type, "stdout") /\ _parse_stdout_assertion(x)
  <2>1. DOMAIN a \subseteq {"type", "contains", "not_contains"} /\ a.type.v = "stdout"
    BY <1>2, ZenonT(60) DEF _parse_stdout_assertion, _allowed, Is
  <2>2. PICK f \in {"contains", "not_contains"} : f \in DOMAIN a
    BY <1>2, ZenonT(60) DEF _parse_stdout_assertion
  <2>3. d.type = "stdout" /\ f \in DOMAIN d /\ "max_latency_ms" \notin DOMAIN d
    <3>1. "type" \in DOMAIN a /\ "max_latency_ms" \notin DOMAIN a /\ "max_latency" \notin DOMAIN a
      BY <1>2, <2>1, ZenonT(60)
    <3>2. d.type = "stdout"
      BY <2>1, <3>1, TypeField
    <3> QED BY <2>2, <3>1, <3>2, LatencyField, PlainField, ZenonT(60)
  <2> HIDE DEF d, a
  <2> QED BY <2>2, <2>3, ZenonT(60) DEF Evaluable, d, a
<1>3. CASE /\ Is(a.type, "disconnect") /\ exactly(x, {"type", "expected"})
           /\ a.expected.kind = "bool" /\ a.expected.v \in BOOLEAN
  <2>1. DOMAIN a = {"type", "expected"} /\ a.type.v = "disconnect"
    BY <1>3 DEF exactly, _required, _allowed, Is
  <2>2. d.type = "disconnect" /\ "expected" \in DOMAIN d /\ d.expected = a.expected.v
        /\ "max_latency_ms" \notin DOMAIN d
    <3>1. "type" \in DOMAIN a /\ "max_latency_ms" \notin DOMAIN a /\ "max_latency" \notin DOMAIN a
      BY <2>1
    <3>2. a.type.v = d.type
      BY <3>1, TypeField
    <3> QED BY <2>1, <3>1, <3>2, LatencyField, PlainField, ZenonT(60)
  <2> HIDE DEF d, a
  <2> QED BY <1>3, <2>2, ZenonT(60) DEF Evaluable, d, a
<1>4. CASE /\ Is(a.type, "kernel_warnings") /\ exactly(x, {"type", "count"})
           /\ _bounded_integer(a.count, 0, MAX_COUNT)
  <2>1. DOMAIN a = {"type", "count"} /\ a.type.v = "kernel_warnings" /\ a.count.v >= 0
    BY <1>4, CountLimit DEF exactly, _required, _allowed, Is, _bounded_integer
  <2>2. d.type = "kernel_warnings" /\ "count" \in DOMAIN d /\ d.count = a.count.v
        /\ "max_latency_ms" \notin DOMAIN d
    <3>1. "type" \in DOMAIN a /\ "max_latency_ms" \notin DOMAIN a /\ "max_latency" \notin DOMAIN a
      BY <2>1
    <3>2. a.type.v = d.type
      BY <3>1, TypeField
    <3> QED BY <2>1, <3>1, <3>2, LatencyField, PlainField, ZenonT(60)
  <2> HIDE DEF d, a
  <2> QED BY <2>1, <2>2, ZenonT(60) DEF Evaluable, d, a
<1> QED BY <1>1, <1>2, <1>3, <1>4, ZenonT(60) DEF _parse_assertion

\* So can all assertions of an accepted document.
LEMMA AssertionsAccepted ==
  ASSUME NEW x, parse_scenario(x)
  PROVE  \A i \in DOMAIN assertions_of(x) : Evaluable(assertions_of(x)[i])
<1>1. assertions_of(x) = [i \in DOMAIN x.v.assertions.v |-> AssertionOf(x.v.assertions.v[i].v)]
  BY ZenonT(60) DEF assertions_of, AssertionOf, Milli
<1>2. \A i \in DOMAIN x.v.assertions.v :
        _parse_assertion(x.v.assertions.v[i], Milliseconds(x.v.scenario.v.timeout))
  BY DEF parse_scenario, _parse_assertions
<1> QED BY <1>1, <1>2, AssertionAccepted

-----------------------------------------------------------------------------
(* The log in the steps of the run.                                        *)

\* The events with an effect are the dispatches, and the one in progress.
LEMMA EffectiveEvents ==
  ASSUME ScheduleInv
  PROVE  /\ Effective \in Nat /\ index \in Nat /\ index - 1 <= Effective /\ Effective <= index
         /\ at = "return" => Effective = index
         /\ at # "return" => Effective = index - 1
         /\ DOMAIN dispatches = 1..(index - 1) /\ Res \in Nat \ {0} /\ now \div Res \in Nat
<1>1. index \in Nat \ {0} /\ now \in Nat /\ dispatches \in Seq(Dispatched) /\ Len(dispatches) = index - 1
  BY DEF ScheduleInv, STypeOK, Position
<1>2. Res \in Nat \ {0}
  BY ScheduleAssumption
<1>3. now \div Res \in Nat
  BY <1>1, <1>2, DivFacts
<1> QED BY <1>1, <1>2, <1>3 DEF Effective

\* An event with an effect began before now.
LEMMA EffectBegan ==
  ASSUME ScheduleInv, NEW i \in 1..Effective PROVE StartMs(i) <= now \div Res
<1> USE DEF ScheduleInv
<1>1. /\ i \in Nat /\ i >= 1 /\ i <= Effective /\ index \in Nat \ {0} /\ now \in Nat /\ begun \in Nat
      /\ Res \in Nat \ {0} /\ dispatches \in Seq(Dispatched) /\ Len(dispatches) = index - 1
  BY EffectiveEvents DEF STypeOK, Position
<1>2. CASE i < index
  <2>1. i \in DOMAIN dispatches /\ index - 1 \in DOMAIN dispatches /\ i \in 1..(index - 1) /\ index # 1
    BY <1>1, <1>2
  <2>2. at \notin Early
    BY <2>1 DEF Position
  <2>3. dispatches[i] \in Dispatched /\ dispatches[index - 1] \in Dispatched
    BY <1>1, <2>1
  <2>4. /\ dispatches[i].started <= dispatches[index - 1].started
        /\ dispatches[index - 1].started <= dispatches[index - 1].finished
        /\ dispatches[i].monotonic_started_ms = dispatches[i].started \div Res
    BY <2>1, ZenonT(60) DEF Records
  <2>5. dispatches[index - 1].finished <= now
    BY <2>1, <2>2, ZenonT(60) DEF Times, Free
  <2>6. dispatches[i].started \in Nat /\ dispatches[i].started <= now
    <3>1. /\ dispatches[i].started \in Nat /\ dispatches[index - 1].started \in Nat
          /\ dispatches[index - 1].finished \in Nat
      BY <2>3 DEF Dispatched
    <3> QED BY <1>1, <2>4, <2>5, <3>1, Chain, ZenonT(60)
  <2>7. dispatches[i].started \div Res <= now \div Res
    BY <1>1, <2>6, DivMonotone, ZenonT(60)
  <2> QED BY <1>2, <2>4, <2>7 DEF StartMs
<1>3. CASE ~(i < index)
  <2>1. at = "return"
    BY <1>1, <1>3, EffectiveEvents
  <2>2. begun <= now
    BY <2>1 DEF Times
  <2>3. begun \div Res <= now \div Res
    BY <1>1, <2>2, DivMonotone
  <2> QED BY <1>3, <2>3 DEF StartMs
<1> QED BY <1>2, <1>3

\* The application may log a line at any time.
LEMMA LineLogged ==
  ASSUME Loops, ScheduleInv, NEW s, Logged(s), Parsed(s), NEW n \in {0, 1},
         NEW event \in {"READ_RETRY", "RECOVERY_SUCCESS", "TEMPERATURE", "DEVICE_DISCONNECTED"}
  PROVE  LET x == Line(event, n)
         IN  x \in LogLine /\ Logged(Append(s, x)) /\ Parsed(Append(s, x))
<1> DEFINE x == Line(event, n)
<1> DEFINE t == Append(s, x)
<1>1. now \div Res \in Nat /\ Effective \in Nat
  BY EffectiveEvents
<1>2. /\ x \in LogLine /\ x.timestamp_ms = now \div Res /\ x.cause = Effective
  <2>1. x.timestamp_ms = now \div Res /\ x.cause = Effective
    BY ZenonT(60) DEF Line
  <2>2. (IF event = "READ_RETRY" THEN EIO ELSE None) \in {EIO, None}
    OBVIOUS
  <2>3. x \in LogLine
    BY <1>1, <2>2, ZenonT(60) DEF Line, LogLine
  <2> QED BY <2>1, <2>3
<1>3. s \in Seq(LogLine)
  BY ZenonT(60) DEF Logged
<1> HIDE DEF x
<1>4. s # <<>> => s[Len(s)].timestamp_ms <= x.timestamp_ms
  <2>1. s # <<>> => Len(s) \in DOMAIN s
    BY <1>3
  <2> QED BY <1>2, <2>1 DEF Logged
<1>5. Parsed(t)
  BY <1>2, <1>3, <1>4, ParseAppend
<1>6. /\ t \in Seq(LogLine) /\ DOMAIN t = 1..(Len(s) + 1) /\ t[Len(s) + 1] = x /\ Len(s) \in Nat
      /\ \A k \in DOMAIN s : t[k] = s[k] /\ k <= Len(s) /\ (k > 1 => k - 1 \in DOMAIN s)
  BY <1>2, <1>3
<1>7. Logged(t)
  <2> SUFFICES ASSUME NEW k \in DOMAIN t
               PROVE  /\ t[k].timestamp_ms <= now \div Res
                      /\ k > 1 => t[k - 1].timestamp_ms <= t[k].timestamp_ms
                      /\ t[k].cause <= Effective
                      /\ \A i \in 1..t[k].cause : StartMs(i) <= t[k].timestamp_ms
    BY <1>6, ZenonT(60) DEF Logged
  <2> HIDE DEF t
  <2>1. CASE k \in DOMAIN s
    BY <1>6, <2>1, ZenonT(60) DEF Logged
  <2>2. CASE k = Len(s) + 1
    <3>1. k > 1 => k - 1 = Len(s) /\ s # <<>> /\ Len(s) \in DOMAIN s
      BY <1>3, <2>2
    <3>2. k > 1 => t[k - 1].timestamp_ms <= t[k].timestamp_ms
      BY <1>4, <1>6, <2>2, <3>1, ZenonT(60)
    <3>3. \A i \in 1..Effective : StartMs(i) <= now \div Res
      BY EffectBegan
    <3> QED BY <1>1, <1>2, <1>6, <2>2, <3>2, <3>3
  <2>3. k \in DOMAIN s \/ k = Len(s) + 1
    BY <1>3, <1>6
  <2> QED BY <2>1, <2>2, <2>3, ZenonT(60)
<1> QED BY <1>2, <1>5, <1>7 DEF x

\* A retry is logged after a fault event took its effect.
LEMMA LineCaused ==
  ASSUME NEW s \in Seq(LogLine), Caused(s), NEW event, NEW n, Line(event, n) \in LogLine,
         event = "READ_RETRY" /\ found = NoFault => InjectedBy(Effective)
  PROVE  Caused(Append(s, Line(event, n)))
<1> DEFINE x == Line(event, n)
<1>1. x \in LogLine /\ x.event = event /\ x.cause = Effective
  BY ZenonT(60) DEF Line
<1> HIDE DEF x
<1>2. /\ \A k \in DOMAIN Append(s, x) : k \in DOMAIN s \/ k = Len(s) + 1
      /\ Append(s, x)[Len(s) + 1] = x
      /\ \A k \in DOMAIN s : Append(s, x)[k] = s[k]
  BY SMTT(30), <1>1
<1>3. Caused(Append(s, x))
  BY <1>1, <1>2, ZenonT(60) DEF Caused
<1> QED BY <1>3 DEF x

\* The steps of the run other than the calls and the application's reads.
LEMMA LogKept ==
  ASSUME LogInv, UNCHANGED <<text, retrying, found, events, assertions>>,
         Effective \in Nat, Effective' \in Nat, Effective <= Effective',
         now \div Res \in Nat, (now \div Res)' \in Nat, now \div Res <= (now \div Res)',
         \A i \in 1..Effective : StartMs(i)' = StartMs(i),
         fault'.type # "none" => fault.type # "none" \/ InjectedBy(Effective)'
  PROVE  LogInv'
<1>1. Logged(text)'
  <2>1. \A k \in DOMAIN text :
          text[k].timestamp_ms \in Nat /\ text[k].cause \in Nat
    <3>1. text \in Seq(LogLine)
      BY ZenonT(60) DEF LogInv, Logged
    <3>2. \A k \in DOMAIN text : text[k] \in LogLine
      BY <3>1
    <3> QED BY <3>2, ZenonT(60) DEF LogLine
  <2> SUFFICES ASSUME NEW k \in DOMAIN text
               PROVE  /\ text[k].timestamp_ms <= (now \div Res)'
                      /\ k > 1 => text[k - 1].timestamp_ms <= text[k].timestamp_ms
                      /\ text[k].cause <= Effective'
                      /\ \A i \in 1..text[k].cause : StartMs(i)' <= text[k].timestamp_ms
    BY ZenonT(60) DEF LogInv, Logged
  <2>2. text[k].timestamp_ms <= now \div Res /\ text[k].cause <= Effective
    BY ZenonT(60) DEF LogInv, Logged
  <2>3. \A i \in 1..text[k].cause : i \in 1..Effective
    BY <2>1, <2>2
  <2>4. text[k].timestamp_ms <= (now \div Res)' /\ text[k].cause <= Effective'
    BY SMTT(30), <2>1, <2>2
  <2> QED BY <2>3, <2>4, ZenonT(60) DEF LogInv, Logged
<1>2. Parsed(text)' /\ Measured(text, retrying)' /\ Caused(text)'
  BY ZenonT(60) DEF LogInv, Parsed, Measured, Caused, RetryAt, InjectedBy
<1>3. Injected'
  <2>1. InjectedBy(Effective) => InjectedBy(Effective)'
    <3> SUFFICES ASSUME NEW i \in 1..Effective, events[i].action = "fault"
                 PROVE  InjectedBy(Effective)'
      BY ZenonT(60) DEF InjectedBy
    <3>1. i \in 1..Effective'
      OBVIOUS
    <3> QED BY <3>1, ZenonT(60) DEF InjectedBy
  <2> QED BY <2>1, ZenonT(60) DEF LogInv, Injected
<1>4. Evaluates'
  BY ZenonT(60) DEF LogInv, Evaluates
<1>5. retrying' \in BOOLEAN
  BY ZenonT(60) DEF LogInv
<1> QED BY <1>1, <1>2, <1>3, <1>4, <1>5, ZenonT(60) DEF LogInv

\* Nothing is logged at the start.
LEMMA LogInit == ASSUME Loops, SInit PROVE LogInv
<1>1. text = <<>> /\ retrying = FALSE /\ assertions = <<>> /\ fault = found
  BY DEF SInit
<1>2. Parsed(text) /\ Measured(text, retrying)
  BY ZenonT(60), <1>1, EmptyLog
<1>3. Logged(text) /\ Caused(text) /\ Evaluates
  BY <1>1 DEF Logged, Caused, Evaluates
<1>4. Injected
  BY <1>1 DEF Injected, NoFault
<1> QED BY <1>1, <1>2, <1>3, <1>4, ZenonT(60) DEF LogInv

\* Before the first event nothing has an effect, whatever events are loaded.
LEMMA LoadLog == ASSUME ScheduleInv, LogInv, Load PROVE LogInv'
<1> USE DEF LogInv
<1>1. /\ UNCHANGED <<text, retrying, found, fault, index, now, begun, dispatches>>
      /\ at = "load" /\ at' # "return" /\ index = 1
  BY ZenonT(60) DEF Load, device, application, ScheduleInv, Position, Early
<1>2. Effective = 0 /\ Effective' = 0
  BY <1>1 DEF Effective
<1>3. \A k \in DOMAIN text : text[k].cause = 0
  <2>1. \A k \in DOMAIN text : text[k] \in LogLine /\ text[k].cause <= 0
    <3>1. text \in Seq(LogLine) /\ \A k \in DOMAIN text : text[k].cause <= 0
      BY <1>2, ZenonT(60) DEF Logged
    <3> QED BY <3>1, LinesOf, ZenonT(60)
  <2>2. \A k \in DOMAIN text : text[k].cause \in Nat
    BY <2>1, ZenonT(60) DEF LogLine
  <2> QED BY <2>1, <2>2, NatArithmetic, ZenonT(60)
<1>4. Logged(text)'
  <2>1. \A i \in 1 .. 0 : FALSE
    OBVIOUS
  <2>2. \A k \in DOMAIN text : \A i \in 1 .. text[k].cause : FALSE
    BY <1>3, <2>1, ZenonT(60)
  <2> QED BY <1>1, <1>2, <2>2, ZenonT(60) DEF Logged
<1>5. Parsed(text)' /\ Measured(text, retrying)'
  BY <1>1, ZenonT(60) DEF Parsed, Measured, RetryAt
<1>6. Injected' /\ Caused(text)'
  <2>1. ~InjectedBy(0)
    BY DEF InjectedBy
  <2> QED BY <1>1, <1>2, <1>3, <2>1, ZenonT(60) DEF Injected, Caused
<1>7. Evaluates'
  BY AssertionsAccepted, ZenonT(60) DEF Evaluates, Load
<1> QED BY <1>1, <1>4, <1>5, <1>6, <1>7

\* The call of a fault event is the injection.
LEMMA DispatchLog == ASSUME ScheduleInv, ScheduleInv', LogInv, Dispatch PROVE LogInv'
<1>1. /\ UNCHANGED <<text, retrying, found, events, assertions, now, index, begun, dispatches>>
      /\ at = "call" /\ at' = "return"
  BY ZenonT(60) DEF Dispatch, application, run, scenario
<1>2. /\ Effective = index - 1 /\ Effective' = index /\ index \in Nat /\ now \div Res \in Nat
      /\ Effective \in Nat
  BY <1>1, EffectiveEvents DEF Effective
<1>3. \A i \in 1..Effective : StartMs(i)' = StartMs(i)
  BY <1>1, ZenonT(60) DEF StartMs
<1>4. fault'.type # "none" => fault.type # "none" \/ InjectedBy(Effective)'
  <2>1. index \in 1..index
    BY <1>2 DEF ScheduleInv, STypeOK
  <2>2. events[index].action = "fault" => InjectedBy(Effective)'
    BY <1>1, <1>2, <2>1 DEF InjectedBy
  <2>3. events[index].action # "fault" => fault' = NoFault \/ fault' = fault
    BY ZenonT(60) DEF Dispatch
  <2>4. NoFault.type = "none"
    BY ZenonT(60) DEF NoFault
  <2> QED BY <2>2, <2>3, <2>4, ZenonT(60)
<1> QED BY SMTT(30), <1>1, <1>2, <1>3, <1>4, LogKept

\* The other steps of the runner and the clock.
LEMMA QuietLog ==
  ASSUME ScheduleInv, ScheduleInv', LogInv,
         \/ Open \/ Spawn \/ Spawned \/ NextEvent \/ Wake \/ DispatchFails \/ Return
         \/ Remaining \/ Collect \/ Grace \/ AppExit \/ Tick \/ UNCHANGED svars
  PROVE  LogInv'
<1> USE DEF device, application, run, scenario, svars
<1>1. UNCHANGED <<text, retrying, found, fault, events, assertions>>
  BY ZenonT(60) DEF Open, Spawn, Spawned, NextEvent, Wake, DispatchFails, Return, Remaining, Collect, Grace,
    AppExit, Tick
<1>2. now' = now \/ now' = now + 1
  BY ZenonT(60) DEF Open, Spawn, Spawned, NextEvent, Wake, DispatchFails, Return, Remaining, Collect, Grace,
    AppExit, Tick
<1>3. now \div Res \in Nat /\ (now \div Res)' \in Nat /\ now \div Res <= (now \div Res)'
  <2>1. now \in Nat /\ now' \in Nat /\ now <= now' /\ Res \in Nat \ {0}
    BY <1>2, ScheduleAssumption DEF ScheduleInv, STypeOK
  <2> QED BY ZenonT(60), <2>1, DivMonotone
<1>4. /\ Effective \in Nat /\ Effective' \in Nat /\ Effective <= Effective'
      /\ \A i \in 1..Effective : StartMs(i)' = StartMs(i)
  <2>1. CASE Return
    <3>1. /\ Effective = index /\ Effective' = index /\ index \in Nat \ {0} /\ index' = index + 1
          /\ dispatches \in Seq(Dispatched) /\ Len(dispatches) = index - 1
      <4>1. at = "return" /\ index' = index + 1 /\ at' = "next"
        BY <2>1, ZenonT(60) DEF Return
      <4>2. index \in Nat \ {0} /\ dispatches \in Seq(Dispatched) /\ Len(dispatches) = index - 1
        BY ZenonT(60) DEF ScheduleInv, STypeOK, Position
      <4>3. Effective = index /\ Effective' = index
        BY <4>1, <4>2 DEF Effective
      <4> QED BY <4>1, <4>2, <4>3
    <3>2. /\ \A i \in 1..(index - 1) : dispatches'[i] = dispatches[i]
          /\ dispatches'[index].monotonic_started_ms = begun \div Res
      <4> DEFINE d == [index |-> index, action |-> events[index].action, started |-> begun,
                       finished |-> now, monotonic_started_ms |-> begun \div Res]
      <4>1. dispatches' = Append(dispatches, d) /\ d.monotonic_started_ms = begun \div Res
        BY <2>1, ZenonT(60) DEF Return
      <4> HIDE DEF d
      <4> QED BY <3>1, <4>1
    <3>3. \A i \in 1..index : i < index' /\ (i < index => i \in 1..(index - 1)) /\ (~(i < index) => i = index)
      BY <3>1
    <3>4. \A i \in 1..index : StartMs(i)' = StartMs(i)
      BY <3>2, <3>3, ZenonT(60) DEF StartMs
    <3> QED BY <3>1, <3>4
  <2>2. CASE ~Return
    <3>1. UNCHANGED <<index, dispatches>> /\ (at = "return" <=> at' = "return")
      BY <2>2, ZenonT(60) DEF Open, Spawn, Spawned, NextEvent, Wake, DispatchFails, Remaining, Collect, Grace,
        AppExit, Tick, Terminate
    <3>2. Effective' = Effective /\ Effective \in Nat
      BY <3>1, EffectiveEvents, ZenonT(60) DEF Effective
    <3>3. at = "return" => begun' = begun
      BY <2>2, ZenonT(60) DEF Open, Spawn, Spawned, NextEvent, Wake, DispatchFails, Remaining, Collect, Grace,
        AppExit, Tick
    <3>4. \A i \in 1..Effective : StartMs(i)' = StartMs(i)
      <4>1. at # "return" => \A i \in 1..Effective : i < index
        BY EffectiveEvents
      <4> QED BY <3>1, <3>3, <4>1, ZenonT(60) DEF StartMs
    <3> QED BY SMTT(30), <3>2, <3>4
  <2> QED BY <2>1, <2>2
<1> QED BY ZenonT(60), <1>1, <1>3, <1>4, LogKept

\* Append is concatenation.
LEMMA AppendIsConcat ==
  ASSUME NEW S, NEW s \in Seq(S), NEW x \in S
  PROVE  s \o <<x>> = Append(s, x) /\ s \o <<>> = s /\ Append(s, x) \in Seq(S)
OBVIOUS

\* A read logs a retry only with a fault, and a recovery only after a retry.
LEMMA ReadLog == ASSUME Loops, ScheduleInv, ScheduleInv', LogInv, AppRead PROVE LogInv'
<1>1. UNCHANGED <<at, now, index, begun, dispatches, found, events, assertions>>
  BY DEF AppRead, run, scenario
<1>2. Effective' = Effective /\ \A i : StartMs(i)' = StartMs(i)
  BY <1>1 DEF Effective, StartMs
<1>3. text \in Seq(LogLine) /\ Logged(text) /\ Parsed(text) /\ Caused(text) /\ Measured(text, retrying)
      /\ retrying \in BOOLEAN
  BY ZenonT(60) DEF LogInv, Logged
<1>4. ASSUME Logged(text'), Parsed(text'), Measured(text', retrying'), Caused(text'),
             retrying' \in BOOLEAN, fault'.type # "none" => fault.type # "none"
      PROVE  LogInv'
  <2>1. Logged(text)' /\ Parsed(text)' /\ Measured(text, retrying)' /\ Caused(text)'
    BY <1>1, <1>2, <1>4, ZenonT(60) DEF Logged, Parsed, Measured, RetryAt, Caused, InjectedBy
  <2>2. Injected'
    BY <1>1, <1>2, <1>4, ZenonT(60) DEF LogInv, Injected, InjectedBy
  <2>3. Evaluates'
    BY <1>1 DEF LogInv, Evaluates
  <2> QED BY <1>4, <2>1, <2>2, <2>3, ZenonT(60) DEF LogInv
<1>5. CASE /\ fault.type = "eio" /\ retrying' = TRUE /\ text' = Append(text, Line("READ_RETRY", 1))
           /\ fault' = IF fault.value = 1 THEN NoFault ELSE [fault EXCEPT !.value = @ - 1]
  <2>1. Line("READ_RETRY", 1) \in LogLine /\ Logged(text') /\ Parsed(text')
    BY <1>3, <1>5, LineLogged
  <2>2. Line("READ_RETRY", 1).event = "READ_RETRY" /\ Line("READ_RETRY", 1).errno = EIO
    BY ZenonT(60) DEF Line
  <2>3. Measured(text', TRUE)
    BY ZenonT(60), <1>3, <1>5, <2>1, <2>2, MeasureRetry
  <2>4. Caused(text')
    <3>1. found = NoFault => InjectedBy(Effective)
      BY <1>5 DEF LogInv, Injected
    <3> QED BY <1>3, <1>5, <2>1, <3>1, LineCaused
  <2> QED BY <1>4, <1>5, <2>1, <2>3, <2>4
<1>6. CASE /\ UNCHANGED <<fault, retrying>> /\ text' = Append(text, Line("DEVICE_DISCONNECTED", 0))
  <2>1. Line("DEVICE_DISCONNECTED", 0) \in LogLine /\ Logged(text') /\ Parsed(text')
    BY <1>3, <1>6, LineLogged
  <2>2. Line("DEVICE_DISCONNECTED", 0).event \notin {"READ_RETRY", "RECOVERY_SUCCESS"}
    BY ZenonT(60) DEF Line
  <2>3. Measured(text', retrying)
    BY <1>3, <1>6, <2>1, <2>2, MeasureOther
  <2>4. Caused(text')
    BY <1>3, <1>6, <2>1, LineCaused
  <2> QED BY <1>3, <1>4, <1>6, <2>1, <2>3, <2>4
<1>7. CASE /\ UNCHANGED fault /\ retrying' = FALSE
           /\ text' = text \o (IF retrying THEN <<Line("RECOVERY_SUCCESS", 1)>> ELSE <<>>)
                           \o <<Line("TEMPERATURE", 0)>>
  <2> DEFINE x == Line("RECOVERY_SUCCESS", 1)
  <2> DEFINE y == Line("TEMPERATURE", 0)
  <2> DEFINE s == IF retrying THEN Append(text, x) ELSE text
  <2>1. x \in LogLine /\ Logged(Append(text, x)) /\ Parsed(Append(text, x))
    BY <1>3, LineLogged
  <2>2. x.event = "RECOVERY_SUCCESS" /\ y.event = "TEMPERATURE"
    BY ZenonT(60) DEF Line
  <2>3. Logged(s) /\ Parsed(s)
    BY <1>3, <2>1
  <2>4. Measured(s, FALSE) /\ s \in Seq(LogLine)
    <3>1. retrying => Measured(Append(text, x), FALSE)
      BY ZenonT(60), <1>3, <2>1, <2>2, MeasureRecovery
    <3>2. ~retrying => Measured(text, FALSE)
      BY ZenonT(60), <1>3
    <3> QED BY <3>1, <3>2, <2>3, ZenonT(60) DEF Logged
  <2>5. Caused(s)
    BY <1>3, <2>1, LineCaused
  <2>6. y \in LogLine /\ Logged(Append(s, y)) /\ Parsed(Append(s, y))
    <3> HIDE DEF s
    <3> QED BY <2>3, LineLogged
  <2>7. text' = Append(s, y)
    <3> HIDE DEF x, y
    <3>1. CASE retrying
      <4>1. text \o <<x>> = Append(text, x) /\ Append(text, x) \in Seq(LogLine)
        BY <1>3, <2>1, AppendIsConcat
      <4>2. Append(text, x) \o <<y>> = Append(Append(text, x), y)
        BY <2>6, <4>1, AppendIsConcat
      <4> QED BY <1>7, <3>1, <4>1, <4>2 DEF x, y
    <3>2. CASE ~retrying
      <4>1. text \o <<>> = text /\ text \o <<y>> = Append(text, y)
        BY <1>3, <2>6, AppendIsConcat
      <4> QED BY <1>7, <3>2, <4>1 DEF y
    <3> QED BY <3>1, <3>2
  <2> HIDE DEF s
  <2>8. Measured(Append(s, y), FALSE)
    BY ZenonT(60), <2>2, <2>4, <2>6, MeasureOther
  <2>9. Caused(Append(s, y))
    BY <2>4, <2>5, <2>6, LineCaused
  <2> QED BY ZenonT(60), <1>4, <1>7, <2>6, <2>7, <2>8, <2>9
<1> QED BY <1>5, <1>6, <1>7, ZenonT(60) DEF AppRead

-----------------------------------------------------------------------------
(* The report.                                                             *)

\* Finite sets have a number of elements, sets of numbers a least one.
Counting ==
  /\ \A n \in Nat : IsFiniteSet(1..n) /\ Cardinality(1..n) = n
  /\ \A S : IsFiniteSet(S) => Cardinality(S) \in Nat /\ (Cardinality(S) = 0 <=> S = {})
  /\ \A S : \A T \in SUBSET S : IsFiniteSet(S) =>
       /\ IsFiniteSet(T) /\ Cardinality(T) <= Cardinality(S)
       /\ Cardinality(S) = Cardinality(T) => S = T
  /\ \A S : \A f \in [S -> S] :
       IsFiniteSet(S) /\ (\A i, j \in S : f[i] = f[j] => i = j) =>
         \A p \in S : \E i \in S : f[i] = p
  /\ \A S \in SUBSET Nat : S # {} => \E i \in S : \A j \in S : i <= j

\* The log and the assertions make a report.
LEMMA ReportFollows == LogInv /\ ScheduleInv => ReportBuilds
<1> SUFFICES ASSUME LogInv, ScheduleInv, at = "ended" PROVE ReportBuilds
  BY ZenonT(60) DEF ReportBuilds
<1>1. \A i \in DOMAIN assertions : Evaluable(assertions[i])
  BY DEF LogInv, Evaluates
<1>2. parse_application_log(text).error = FALSE /\ parse_application_log(text).events = text
  BY DEF LogInv, Parsed
<1>3. calculate_recovery_metrics(text).error = FALSE
  <2>1. calculate_recovery_metrics(text) \in Metrics
    BY ZenonT(60) DEF LogInv, Measured
  <2> QED BY <2>1, ZenonT(60) DEF Metrics
<1> DEFINE r == [exit_code |-> 0, timed_out |-> timed_out, kernel_log_available |-> TRUE,
                 kernel_warnings |-> 0]
<1>4. r.timed_out = timed_out /\ r.kernel_log_available = TRUE /\ timed_out \in BOOLEAN
  BY ZenonT(60) DEF ScheduleInv, STypeOK
<1> HIDE DEF r
<1>5. report_status(assertions, text, r) \in IF timed_out THEN {"TIMEOUT"} ELSE {"PASS", "FAIL"}
  BY <1>2, <1>3, <1>4, ZenonT(60) DEF report_status
<1> QED BY <1>1, <1>5, ZenonT(60) DEF ReportBuilds, r

\* A retry in the log comes after a fault event, so after the first one.
LEMMA FaultFollows == ASSUME Counting PROVE LogInv /\ ScheduleInv => FaultBeforeError
<1> SUFFICES ASSUME LogInv, ScheduleInv, at = "ended", found = NoFault PROVE FaultBeforeError
  BY ZenonT(60) DEF FaultBeforeError
<1> DEFINE injected == _first_fault_timestamp(dispatches)
<1> DEFINE m == calculate_recovery_metrics(text)
<1> DEFINE faults == {i \in DOMAIN dispatches : dispatches[i].action = "fault"}
<1>1. parse_application_log(text).events = text
  BY SMTT(30) DEF LogInv, Parsed
<1>2. /\ m \in Metrics /\ (m.firstSeen # None => RetryAt(text, m.firstSeen))
      /\ \A i \in DOMAIN m.recoveries : RetryAt(text, m.recoveries[i].first)
  BY ZenonT(60) DEF LogInv, Measured
<1>3. /\ Effective = index - 1 /\ index \in Nat /\ DOMAIN dispatches = 1..(index - 1)
      /\ dispatches \in Seq(Dispatched) /\ Res \in Nat \ {0}
  BY EffectiveEvents, ZenonT(60) DEF ScheduleInv, STypeOK
<1>4. ASSUME NEW ts, RetryAt(text, ts) PROVE injected # None /\ injected <= ts
  <2>1. PICK k \in DOMAIN text : text[k].event = "READ_RETRY" /\ text[k].timestamp_ms = ts
    BY <1>4, ZenonT(60) DEF RetryAt
  <2>2. /\ text[k] \in LogLine /\ text[k].cause <= Effective
        /\ \A i \in 1..text[k].cause : StartMs(i) <= ts
    <3>1. text \in Seq(LogLine)
      BY ZenonT(60) DEF LogInv, Logged
    <3>2. text[k] \in LogLine
      BY <3>1
    <3> QED BY <2>1, <3>2, ZenonT(60) DEF LogInv, Logged
  <2>3. PICK i \in 1..text[k].cause : events[i].action = "fault"
    BY <2>1, ZenonT(60) DEF LogInv, Caused, InjectedBy
  <2>4. i \in 1..(index - 1) /\ i < index
    <3>1. text[k].cause \in Nat /\ text[k].cause <= index - 1
      BY <1>3, <2>2, ZenonT(60) DEF LogLine
    <3> QED BY <1>3, <2>3, <3>1, NatArithmetic, ZenonT(60)
  <2>5. i \in faults
    BY <1>3, <2>3, <2>4, ZenonT(60) DEF ScheduleInv, Records
  <2>6. faults \in SUBSET Nat
    BY <1>3
  <2>7. \E j \in faults : \A l \in faults : j <= l
    <3> HIDE DEF faults
    <3> QED BY <2>5, <2>6, ZenonT(60) DEF Counting
  <2> DEFINE j == CHOOSE j \in faults : \A l \in faults : j <= l
  <2>8. j \in faults /\ j <= i
    <3> HIDE DEF faults
    <3> QED BY ZenonT(60), <2>5, <2>7
  <2>9. injected = dispatches[j].monotonic_started_ms
    BY <2>5, ZenonT(60) DEF _first_fault_timestamp
  <2> HIDE DEF j
  <2>10. j \in DOMAIN dispatches /\ i \in DOMAIN dispatches /\ j \in 1..i
    BY <1>3, <2>4, <2>8
  <2>11. dispatches[j].started \in Nat /\ dispatches[i].started \in Nat
    <3>1. dispatches[j] \in Dispatched /\ dispatches[i] \in Dispatched
      BY <1>3, <2>10
    <3> QED BY <3>1, ZenonT(60) DEF Dispatched
  <2>12. /\ dispatches[j].started <= dispatches[i].started
         /\ dispatches[j].monotonic_started_ms = dispatches[j].started \div Res
         /\ dispatches[i].monotonic_started_ms = dispatches[i].started \div Res
    BY <2>10, ZenonT(60) DEF ScheduleInv, Records
  <2>13. /\ dispatches[j].monotonic_started_ms \in Nat /\ dispatches[i].monotonic_started_ms \in Nat
         /\ dispatches[j].monotonic_started_ms <= dispatches[i].monotonic_started_ms
    BY ZenonT(60), <1>3, <2>11, <2>12, DivMonotone
  <2>14. dispatches[i].monotonic_started_ms <= ts
    BY <2>2, <2>3, <2>4, ZenonT(60) DEF StartMs
  <2>15. ts \in Nat
    BY <2>1, <2>2, ZenonT(60) DEF LogLine
  <2> DEFINE a == dispatches[j].monotonic_started_ms
  <2> DEFINE b == dispatches[i].monotonic_started_ms
  <2>16. a \in Nat /\ b \in Nat /\ a <= b /\ b <= ts /\ injected = a
    BY <2>9, <2>13, <2>14, ZenonT(60)
  <2> HIDE DEF injected, a, b
  <2> QED BY <2>15, <2>16, SMTT(30) DEF None
<1>5. ~m.error
  BY <1>2, ZenonT(60) DEF Metrics
<1> HIDE DEF injected, m
<1>6. /\ ~m.error /\ (m.firstSeen # None => injected # None /\ injected <= m.firstSeen)
      /\ \A i \in DOMAIN m.recoveries : injected <= m.recoveries[i].first
  BY <1>2, <1>4, <1>5, ZenonT(60)
<1> QED BY <1>1, <1>6, ZenonT(60) DEF FaultBeforeError, injected, m

-----------------------------------------------------------------------------
(* The time line.                                                          *)

\* An entry of the time line, and a list of entries that are all different.
Entry == [source : {0, 1}, place : Nat, timestamp_ms : Nat]

Distinct(E) ==
  \A i, j \in DOMAIN E : E[i].source = E[j].source /\ E[i].place = E[j].place => i = j

\* The entries that do not come after entry i, and how many they are.
Upto(E, i) == {j \in DOMAIN E : ~Earlier(E[i], E[j])}
Rank(E, i) == Cardinality(Upto(E, i))

\* The order is total.
LEMMA EarlierTotal ==
  ASSUME NEW a \in Entry, NEW b \in Entry, ~(a.source = b.source /\ a.place = b.place)
  PROVE  Earlier(a, b) \/ Earlier(b, a)
<1>1. /\ a.source \in Int /\ a.place \in Int /\ a.timestamp_ms \in Int
      /\ b.source \in Int /\ b.place \in Int /\ b.timestamp_ms \in Int
  BY DEF Entry
<1> QED BY <1>1, SMTT(30) DEF Earlier

\* The order is strict.
LEMMA EarlierStrict == ASSUME NEW a \in Entry PROVE ~Earlier(a, a)
<1>1. a.source \in Int /\ a.place \in Int /\ a.timestamp_ms \in Int
  BY DEF Entry
<1> QED BY <1>1, SMTT(30) DEF Earlier

\* The order is transitive.
LEMMA EarlierTransitive ==
  ASSUME NEW a \in Entry, NEW b \in Entry, NEW c \in Entry, Earlier(a, b), Earlier(b, c)
  PROVE  Earlier(a, c)
<1>1. /\ a.source \in Int /\ a.place \in Int /\ a.timestamp_ms \in Int
      /\ b.source \in Int /\ b.place \in Int /\ b.timestamp_ms \in Int
      /\ c.source \in Int /\ c.place \in Int /\ c.timestamp_ms \in Int
  BY DEF Entry
<1> QED BY <1>1, SMTT(30) DEF Earlier

\* The entries of a list are in that order.
LEMMA EarlierOrder ==
  ASSUME NEW E \in Seq(Entry), Distinct(E)
  PROVE  /\ \A i \in DOMAIN E : ~Earlier(E[i], E[i])
         /\ \A i, j \in DOMAIN E : i # j => Earlier(E[i], E[j]) \/ Earlier(E[j], E[i])
         /\ \A i, j, k \in DOMAIN E : Earlier(E[i], E[j]) /\ Earlier(E[j], E[k]) => Earlier(E[i], E[k])
<1>1. \A i \in DOMAIN E : E[i] \in Entry
  OBVIOUS
<1>2. \A i \in DOMAIN E : ~Earlier(E[i], E[i])
  BY <1>1, EarlierStrict, ZenonT(60)
<1>3. \A i, j \in DOMAIN E : i # j => Earlier(E[i], E[j]) \/ Earlier(E[j], E[i])
  BY <1>1, EarlierTotal, ZenonT(60) DEF Distinct
<1>4. \A i, j, k \in DOMAIN E : Earlier(E[i], E[j]) /\ Earlier(E[j], E[k]) => Earlier(E[i], E[k])
  BY <1>1, EarlierTransitive, ZenonT(60)
<1> QED BY <1>2, <1>3, <1>4, ZenonT(60)

\* An earlier entry has a lower rank, and the ranks are places of the list.
LEMMA RankOrder ==
  ASSUME Counting, NEW E \in Seq(Entry), Distinct(E)
  PROVE  /\ \A i \in DOMAIN E : Rank(E, i) \in DOMAIN E
         /\ \A i, j \in DOMAIN E : Earlier(E[i], E[j]) => Rank(E, i) < Rank(E, j)
         /\ \A i, j \in DOMAIN E : Rank(E, i) = Rank(E, j) => i = j
<1>1. DOMAIN E = 1..Len(E) /\ Len(E) \in Nat
  OBVIOUS
<1>2. IsFiniteSet(DOMAIN E) /\ Cardinality(DOMAIN E) = Len(E)
  BY <1>1, ZenonT(60) DEF Counting
<1>3. \A i \in DOMAIN E : i \in Upto(E, i) /\ Upto(E, i) \in SUBSET DOMAIN E
  BY EarlierOrder, ZenonT(60) DEF Upto
<1>4. \A i \in DOMAIN E : IsFiniteSet(Upto(E, i)) /\ Rank(E, i) \in Nat /\ Rank(E, i) <= Len(E)
  BY <1>2, <1>3 DEF Rank, Counting
<1>5. \A i \in DOMAIN E : Rank(E, i) # 0
  BY <1>3, <1>4, ZenonT(60) DEF Rank, Counting
<1>6. ASSUME NEW i \in DOMAIN E, NEW j \in DOMAIN E, Earlier(E[i], E[j])
      PROVE  Rank(E, i) < Rank(E, j)
  <2>1. Upto(E, i) \in SUBSET Upto(E, j)
    BY <1>6, EarlierOrder, ZenonT(60) DEF Upto
  <2>2. j \in Upto(E, j) /\ j \notin Upto(E, i)
    BY <1>3, <1>6 DEF Upto
  <2>3. Rank(E, i) <= Rank(E, j) /\ Rank(E, i) # Rank(E, j)
    BY <1>4, <2>1, <2>2, ZenonT(60) DEF Rank, Counting
  <2> QED BY <1>4, <2>3
<1>7. ASSUME NEW i \in DOMAIN E, NEW j \in DOMAIN E, Rank(E, i) = Rank(E, j) PROVE i = j
  BY <1>4, <1>6, <1>7, EarlierOrder
<1> QED BY <1>1, <1>4, <1>5, <1>6, <1>7

\* Every place of the list is the rank of an entry.
LEMMA RankOnto ==
  ASSUME Counting, NEW E \in Seq(Entry), Distinct(E), NEW p \in DOMAIN E
  PROVE  \E i \in DOMAIN E : Rank(E, i) = p
<1> DEFINE P == DOMAIN E
<1> DEFINE f == [i \in P |-> Rank(E, i)]
<1>1. f \in [P -> P] /\ \A i, j \in P : f[i] = f[j] => i = j
  BY RankOrder, ZenonT(60)
<1>2. DOMAIN E = 1..Len(E) /\ Len(E) \in Nat
  OBVIOUS
<1>3. IsFiniteSet(P)
  BY <1>2, ZenonT(60) DEF Counting
<1>4. ASSUME NEW S, NEW g \in [S -> S], IsFiniteSet(S), \A i, j \in S : g[i] = g[j] => i = j
      PROVE  \A q \in S : \E i \in S : g[i] = q
  BY <1>4, ZenonT(60) DEF Counting
<1> HIDE DEF f, P
<1>5. \A q \in P : \E i \in P : f[i] = q
  BY <1>1, <1>3, <1>4, ZenonT(60)
<1> QED BY <1>5 DEF f, P

\* The sorted list has every entry at its rank, and nothing else.
LEMMA SortedAt ==
  ASSUME Counting, NEW E \in Seq(Entry), Distinct(E)
  PROVE  LET T == _sorted_timeline(E)
         IN  DOMAIN T = DOMAIN E /\ \A i \in DOMAIN E : T[Rank(E, i)] = E[i]
<1>1. _sorted_timeline(E) = [p \in DOMAIN E |-> E[CHOOSE i \in DOMAIN E : Rank(E, i) = p]]
  BY DEF _sorted_timeline, Rank, Upto
<1>2. \A i \in DOMAIN E : (CHOOSE j \in DOMAIN E : Rank(E, j) = Rank(E, i)) = i
  BY RankOrder
<1>3. \A i \in DOMAIN E : Rank(E, i) \in DOMAIN E
  BY RankOrder
<1> QED BY <1>1, <1>2, <1>3

\* Where a time line shows an entry.
PlaceIn(T, source, place) ==
  CHOOSE p \in DOMAIN T : T[p].source = source /\ T[p].place = place

\* The entry of a source and a place stands at its rank.
LEMMA SortedPlace ==
  ASSUME Counting, NEW E \in Seq(Entry), Distinct(E), NEW i \in DOMAIN E, NEW source, NEW place,
         E[i].source = source, E[i].place = place
  PROVE  PlaceIn(_sorted_timeline(E), source, place) = Rank(E, i)
<1> DEFINE T == _sorted_timeline(E)
<1>1. DOMAIN T = DOMAIN E /\ \A j \in DOMAIN E : T[Rank(E, j)] = E[j]
  BY ZenonT(60), SortedAt
<1> HIDE DEF T
<1>2. Rank(E, i) \in DOMAIN T /\ T[Rank(E, i)] = E[i]
  BY ZenonT(60), <1>1, RankOrder
<1>3. \A p \in DOMAIN T : T[p].source = source /\ T[p].place = place => p = Rank(E, i)
  <2> SUFFICES ASSUME NEW p \in DOMAIN T, T[p].source = source, T[p].place = place
               PROVE  p = Rank(E, i)
    BY ZenonT(60)
  <2>1. PICK j \in DOMAIN E : Rank(E, j) = p
    BY ZenonT(60), <1>1, RankOnto
  <2>2. j = i
    BY <1>1, <2>1, ZenonT(60) DEF Distinct
  <2> QED BY <2>1, <2>2, ZenonT(60)
<1>4. (CHOOSE p \in DOMAIN T : T[p].source = source /\ T[p].place = place) = Rank(E, i)
  BY <1>2, <1>3, ZenonT(60)
<1> QED BY <1>4, ZenonT(60) DEF T, PlaceIn

\* What the report merges: the dispatches, then the lines.
LEMMA Merged ==
  ASSUME NEW D \in Seq(Entry), NEW A \in Seq(Entry),
         \A i \in DOMAIN D : D[i].source = 0 /\ D[i].place = i,
         \A i \in DOMAIN A : A[i].source = 1 /\ A[i].place = i
  PROVE  /\ D \o A \in Seq(Entry) /\ Distinct(D \o A)
         /\ \A i \in DOMAIN D : i \in DOMAIN (D \o A) /\ (D \o A)[i] = D[i]
         /\ \A i \in DOMAIN A : Len(D) + i \in DOMAIN (D \o A) /\ (D \o A)[Len(D) + i] = A[i]
<1> DEFINE E == D \o A
<1>1. /\ E \in Seq(Entry) /\ DOMAIN E = 1..(Len(D) + Len(A)) /\ Len(D) \in Nat /\ Len(A) \in Nat
      /\ DOMAIN D = 1..Len(D) /\ DOMAIN A = 1..Len(A)
  OBVIOUS
<1>2. \A i \in DOMAIN E : E[i] = IF i <= Len(D) THEN D[i] ELSE A[i - Len(D)]
  OBVIOUS
<1> HIDE DEF E
<1>3. \A i \in DOMAIN D : i \in DOMAIN E /\ E[i] = D[i]
  BY <1>1, <1>2
<1>4. \A i \in DOMAIN A : Len(D) + i \in DOMAIN E /\ E[Len(D) + i] = A[i]
  <2>1. \A i \in DOMAIN A :
          Len(D) + i \in DOMAIN E /\ ~(Len(D) + i <= Len(D)) /\ (Len(D) + i) - Len(D) = i
    BY <1>1
  <2> QED BY <1>2, <2>1, ZenonT(60)
<1>5. \A i \in DOMAIN E : i \in DOMAIN D \/ (i - Len(D) \in DOMAIN A /\ E[i] = A[i - Len(D)])
  BY <1>1, <1>2
<1>6. ASSUME NEW i \in DOMAIN E
      PROVE  \/ E[i].source = 0 /\ E[i].place = i
             \/ E[i].source = 1 /\ E[i].place = i - Len(D)
  <2>1. CASE i \in DOMAIN D
    BY <1>3, <2>1, ZenonT(60)
  <2>2. CASE i - Len(D) \in DOMAIN A /\ E[i] = A[i - Len(D)]
    BY <2>2, ZenonT(60)
  <2> QED BY <1>5, <2>1, <2>2, ZenonT(60)
<1>7. Distinct(E)
  <2> SUFFICES ASSUME NEW i \in DOMAIN E, NEW j \in DOMAIN E,
                      E[i].source = E[j].source, E[i].place = E[j].place
               PROVE  i = j
    BY ZenonT(60) DEF Distinct
  <2>1. \/ E[i].source = 0 /\ E[i].place = i
        \/ E[i].source = 1 /\ E[i].place = i - Len(D)
    BY <1>6, ZenonT(60)
  <2>2. \/ E[j].source = 0 /\ E[j].place = j
        \/ E[j].source = 1 /\ E[j].place = j - Len(D)
    BY <1>6, ZenonT(60)
  <2>3. i \in Int /\ j \in Int /\ Len(D) \in Int
    BY <1>1
  <2> QED BY <2>1, <2>2, <2>3
<1> QED BY <1>1, <1>3, <1>4, <1>7, ZenonT(60) DEF E

\* The dispatches as entries.
LEMMA DispatchEntries ==
  ASSUME NEW list \in Seq(Dispatched)
  PROVE  /\ _dispatch_timeline(list) \in Seq(Entry) /\ DOMAIN _dispatch_timeline(list) = DOMAIN list
         /\ \A i \in DOMAIN list :
              /\ _dispatch_timeline(list)[i].source = 0 /\ _dispatch_timeline(list)[i].place = i
              /\ _dispatch_timeline(list)[i].timestamp_ms = list[i].monotonic_started_ms
<1>1. \A i \in DOMAIN list : list[i] \in Dispatched /\ i \in Nat
  OBVIOUS
<1>2. \A i \in DOMAIN list : list[i].monotonic_started_ms \in Nat
  BY <1>1, ZenonT(60) DEF Dispatched
<1>3. \A i \in DOMAIN list :
        [source |-> 0, place |-> i, timestamp_ms |-> list[i].monotonic_started_ms] \in Entry
  BY <1>1, <1>2, ZenonT(60) DEF Entry
<1> QED BY <1>3 DEF _dispatch_timeline

\* The lines as entries.
LEMMA LineEntries ==
  ASSUME NEW list \in Seq(LogLine)
  PROVE  /\ _application_timeline(list) \in Seq(Entry)
         /\ DOMAIN _application_timeline(list) = DOMAIN list
         /\ \A i \in DOMAIN list :
              /\ _application_timeline(list)[i].source = 1 /\ _application_timeline(list)[i].place = i
              /\ _application_timeline(list)[i].timestamp_ms = list[i].timestamp_ms
<1>1. \A i \in DOMAIN list : list[i] \in LogLine /\ i \in Nat
  OBVIOUS
<1>2. \A i \in DOMAIN list : list[i].timestamp_ms \in Nat
  BY <1>1, ZenonT(60) DEF LogLine
<1>3. \A i \in DOMAIN list :
        [source |-> 1, place |-> i, timestamp_ms |-> list[i].timestamp_ms] \in Entry
  BY <1>1, <1>2, ZenonT(60) DEF Entry
<1> QED BY <1>3 DEF _application_timeline

\* A dispatch comes before a line of the same millisecond, and lines of one
\* millisecond stay in order.
LEMMA EarlierEntries ==
  ASSUME NEW a, NEW b, a.timestamp_ms \in Nat, b.timestamp_ms \in Nat,
         a.timestamp_ms <= b.timestamp_ms
  PROVE  /\ a.source = 0 /\ b.source = 1 => Earlier(a, b)
         /\ \A i, j \in Nat : a.source = b.source /\ a.place = i /\ b.place = j /\ i < j => Earlier(a, b)
BY SMTT(30) DEF Earlier

\* An entry that is earlier has the lower rank, and stands before.
LEMMA TimelineFollows == ASSUME Counting PROVE LogInv /\ ScheduleInv => TimelineCausal
<1> SUFFICES ASSUME LogInv, ScheduleInv, at = "ended", NEW k \in DOMAIN text
             PROVE  /\ \A i \in DOMAIN dispatches : i <= text[k].cause => Place(0, i) < Place(1, k)
                    /\ k > 1 => Place(1, k - 1) < Place(1, k)
  BY ZenonT(60) DEF TimelineCausal
<1> DEFINE D == _dispatch_timeline(dispatches)
<1> DEFINE A == _application_timeline(text)
<1> DEFINE E == D \o A
<1>1. /\ D \in Seq(Entry) /\ DOMAIN D = DOMAIN dispatches
      /\ \A i \in DOMAIN dispatches :
           /\ D[i].source = 0 /\ D[i].place = i
           /\ D[i].timestamp_ms = dispatches[i].monotonic_started_ms
  <2>1. dispatches \in Seq(Dispatched)
    BY ZenonT(60) DEF ScheduleInv, STypeOK
  <2> QED BY <2>1, DispatchEntries, ZenonT(60)
<1>2. /\ A \in Seq(Entry) /\ DOMAIN A = DOMAIN text
      /\ \A i \in DOMAIN text :
           A[i].source = 1 /\ A[i].place = i /\ A[i].timestamp_ms = text[i].timestamp_ms
  <2>1. text \in Seq(LogLine)
    BY ZenonT(60) DEF LogInv, Logged
  <2> QED BY <2>1, LineEntries, ZenonT(60)
<1> HIDE DEF D, A
<1>3. /\ E \in Seq(Entry) /\ Distinct(E)
      /\ \A i \in DOMAIN dispatches : i \in DOMAIN E /\ E[i] = D[i]
      /\ \A i \in DOMAIN text : Len(D) + i \in DOMAIN E /\ E[Len(D) + i] = A[i]
  <2>1. /\ \A i \in DOMAIN D : D[i].source = 0 /\ D[i].place = i
        /\ \A i \in DOMAIN A : A[i].source = 1 /\ A[i].place = i
    BY <1>1, <1>2, ZenonT(60)
  <2>2. /\ D \o A \in Seq(Entry) /\ Distinct(D \o A)
        /\ \A i \in DOMAIN D : i \in DOMAIN (D \o A) /\ (D \o A)[i] = D[i]
        /\ \A i \in DOMAIN A : Len(D) + i \in DOMAIN (D \o A) /\ (D \o A)[Len(D) + i] = A[i]
    BY <1>1, <1>2, <2>1, Merged, ZenonT(60)
  <2> QED BY <1>1, <1>2, <2>2, ZenonT(60)
<1> HIDE DEF E
<1>4. \A i \in DOMAIN dispatches : Place(0, i) = Rank(E, i)
  <2> SUFFICES ASSUME NEW i \in DOMAIN dispatches PROVE Place(0, i) = Rank(E, i)
    BY ZenonT(60)
  <2>1. i \in DOMAIN E /\ E[i].source = 0 /\ E[i].place = i
    BY ZenonT(60), <1>1, <1>3
  <2>2. PlaceIn(_sorted_timeline(E), 0, i) = Rank(E, i)
    BY <1>3, <2>1, SortedPlace, ZenonT(60)
  <2> QED BY <2>2, ZenonT(60) DEF Place, PlaceIn, Timeline, E, D, A
<1>5. \A i \in DOMAIN text : Place(1, i) = Rank(E, Len(D) + i)
  <2> SUFFICES ASSUME NEW i \in DOMAIN text PROVE Place(1, i) = Rank(E, Len(D) + i)
    OBVIOUS
  <2>1. Len(D) + i \in DOMAIN E /\ E[Len(D) + i].source = 1 /\ E[Len(D) + i].place = i
    BY <1>2, <1>3, ZenonT(60)
  <2>2. PlaceIn(_sorted_timeline(E), 1, i) = Rank(E, Len(D) + i)
    BY <1>3, <2>1, SortedPlace, ZenonT(60)
  <2> QED BY <2>2, ZenonT(60) DEF Place, PlaceIn, Timeline, E, D, A
<1>6. ASSUME NEW i \in DOMAIN dispatches, i <= text[k].cause PROVE Earlier(E[i], E[Len(D) + k])
  <2>1. /\ E[i].source = 0 /\ E[i].timestamp_ms = dispatches[i].monotonic_started_ms
        /\ E[Len(D) + k].source = 1 /\ E[Len(D) + k].timestamp_ms = text[k].timestamp_ms
    <3>1. E[i] = D[i] /\ E[Len(D) + k] = A[k]
      BY <1>3, ZenonT(60)
    <3> QED BY <1>1, <1>2, <3>1, ZenonT(60)
  <2>2. i \in 1..(index - 1) /\ i < index /\ text[k].cause \in Nat /\ text[k].timestamp_ms \in Nat
    <3>1. text \in Seq(LogLine)
      BY ZenonT(60) DEF LogInv, Logged
    <3>2. text[k].cause \in Nat /\ text[k].timestamp_ms \in Nat
      <4>1. text[k] \in LogLine
        BY <3>1
      <4> QED BY <4>1, ZenonT(60) DEF LogLine
    <3>3. DOMAIN dispatches = 1..(index - 1) /\ index \in Nat
      BY EffectiveEvents
    <3> QED BY <3>2, <3>3
  <2>3. i \in 1..text[k].cause
    BY <1>6, <2>2
  <2>4. dispatches[i].monotonic_started_ms <= text[k].timestamp_ms
    BY <2>2, <2>3, ZenonT(60) DEF LogInv, Logged, StartMs
  <2>5. dispatches[i].monotonic_started_ms \in Nat
    <3>1. dispatches[i] \in Dispatched
      BY DEF ScheduleInv, STypeOK
    <3> QED BY <3>1 DEF Dispatched
  <2> DEFINE a == E[i]
  <2> DEFINE b == E[Len(D) + k]
  <2>6. /\ a.source = 0 /\ b.source = 1 /\ a.timestamp_ms \in Nat /\ b.timestamp_ms \in Nat
        /\ a.timestamp_ms <= b.timestamp_ms
    BY <2>1, <2>2, <2>4, <2>5, ZenonT(60)
  <2> HIDE DEF a, b
  <2>7. Earlier(a, b)
    BY <2>6, EarlierEntries, ZenonT(60)
  <2> QED BY <2>7 DEF a, b
<1>7. k > 1 => k - 1 \in DOMAIN text /\ Earlier(E[Len(D) + (k - 1)], E[Len(D) + k])
  <2>1. text \in Seq(LogLine)
    BY ZenonT(60) DEF LogInv, Logged
  <2>2. k \in Nat /\ (k > 1 => k - 1 \in DOMAIN text /\ k - 1 < k)
    BY SMTT(30), <2>1
  <2>3. k > 1 => text[k - 1].timestamp_ms <= text[k].timestamp_ms
    BY ZenonT(60) DEF LogInv, Logged
  <2>4. \A i \in DOMAIN text : text[i].timestamp_ms \in Nat
    <3>1. \A i \in DOMAIN text : text[i] \in LogLine
      BY SMTT(30), <2>1
    <3> QED BY <3>1 DEF LogLine
  <2>5. \A i \in DOMAIN text :
          /\ E[Len(D) + i].source = 1 /\ E[Len(D) + i].place = i
          /\ E[Len(D) + i].timestamp_ms = text[i].timestamp_ms
    BY ZenonT(60), <1>2, <1>3
  <2>6. ASSUME k > 1 PROVE Earlier(E[Len(D) + (k - 1)], E[Len(D) + k])
    <3> DEFINE a == E[Len(D) + (k - 1)]
    <3> DEFINE b == E[Len(D) + k]
    <3>1. /\ a.source = b.source /\ a.timestamp_ms \in Nat /\ b.timestamp_ms \in Nat
          /\ a.place = k - 1 /\ b.place = k /\ a.timestamp_ms <= b.timestamp_ms
      BY <2>2, <2>3, <2>4, <2>5, <2>6, ZenonT(60)
    <3>2. k \in Nat /\ k - 1 \in Nat /\ k - 1 < k
      BY <2>2, <2>6
    <3> HIDE DEF a, b
    <3>3. Earlier(a, b)
      BY <3>1, <3>2, EarlierEntries, ZenonT(60)
    <3> QED BY <3>3 DEF a, b
  <2> QED BY <2>2, <2>6, ZenonT(60)
<1>8. \A i, j \in DOMAIN E : Earlier(E[i], E[j]) => Rank(E, i) < Rank(E, j)
  BY ZenonT(60), <1>3, RankOrder
<1>9. ASSUME NEW i \in DOMAIN dispatches, i <= text[k].cause PROVE Place(0, i) < Place(1, k)
  <2>1. Rank(E, i) < Rank(E, Len(D) + k)
    BY <1>3, <1>6, <1>8, <1>9, ZenonT(60)
  <2> QED BY <1>4, <1>5, <2>1, ZenonT(60)
<1>10. ASSUME k > 1 PROVE Place(1, k - 1) < Place(1, k)
  <2>1. k - 1 \in DOMAIN text /\ Rank(E, Len(D) + (k - 1)) < Rank(E, Len(D) + k)
    BY <1>3, <1>7, <1>8, <1>10, ZenonT(60)
  <2> QED BY <1>5, <2>1, ZenonT(60)
<1> QED BY <1>9, <1>10, ZenonT(60)

-----------------------------------------------------------------------------
(* The loops of analysis.py, and the theorems about the log.               *)

Parse == INSTANCE FoldProofs WITH Op <- ParseLine, Base <- [error |-> FALSE, events |-> <<>>]

\* The loop of parse_application_log, as FoldProofs has it.
LEMMA ParseLoop ==
  ASSUME NEW s
  PROVE  parse_application_log(s) = Parse!Fold(s)
BY ZenonT(60) DEF parse_application_log, Parse!Fold

Metric == INSTANCE FoldProofs WITH Op <- Measure, Base <- NoMetrics

\* The loop of calculate_recovery_metrics, as FoldProofs has it.
LEMMA MeasureLoop ==
  ASSUME NEW s PROVE calculate_recovery_metrics(s) = Metric!Fold(s)
BY ZenonT(60) DEF calculate_recovery_metrics, Metric!Fold

\* The loops take the lines one by one: FoldProofs, for their bodies.
LEMMA LoopsHold == Loops
<1>1. parse_application_log(<<>>) = [error |-> FALSE, events |-> <<>>]
  BY Parse!FoldEmpty, ParseLoop, ZenonT(60)
<1>2. calculate_recovery_metrics(<<>>) = NoMetrics
  BY Metric!FoldEmpty, MeasureLoop
<1>3. ASSUME NEW s \in Seq(LogLine), NEW x \in LogLine
      PROVE  parse_application_log(Append(s, x)) = ParseLine(parse_application_log(s), x)
  BY Parse!FoldAppend, ParseLoop, ZenonT(60)
<1>4. ASSUME NEW s \in Seq(LogLine), NEW x \in LogLine
      PROVE  calculate_recovery_metrics(Append(s, x)) = Measure(calculate_recovery_metrics(s), x)
  BY Metric!FoldAppend, MeasureLoop, ZenonT(60)
<1> QED BY <1>1, <1>2, <1>3, <1>4, ZenonT(60) DEF Loops

INSTANCE FiniteSetTheorems

\* The library's theorems on finite sets, and the least element of FoldProofs.
LEMMA CountingHolds == Counting
<1>1. ASSUME NEW n \in Nat PROVE IsFiniteSet(1..n) /\ Cardinality(1..n) = n
  BY FS_Interval
<1>2. ASSUME NEW S, IsFiniteSet(S) PROVE Cardinality(S) \in Nat /\ (Cardinality(S) = 0 <=> S = {})
  BY <1>2, FS_CardinalityType, FS_EmptySet, ZenonT(60)
<1>3. ASSUME NEW S, NEW T \in SUBSET S, IsFiniteSet(S)
      PROVE  /\ IsFiniteSet(T) /\ Cardinality(T) <= Cardinality(S)
             /\ Cardinality(S) = Cardinality(T) => S = T
  BY ZenonT(60), <1>3, FS_Subset
<1>4. ASSUME NEW S, NEW f \in [S -> S], IsFiniteSet(S), \A i, j \in S : f[i] = f[j] => i = j
      PROVE  \A p \in S : \E i \in S : f[i] = p
  <2>1. f \in Injection(S, S)
    BY <1>4, ZenonT(60) DEF Injection, IsInjective
  <2>2. f \in Surjection(S, S)
    BY <1>4, <2>1, FS_Injection, ZenonT(60)
  <2> QED BY <2>2, ZenonT(60) DEF Surjection
<1>5. ASSUME NEW S \in SUBSET Nat, S # {} PROVE \E i \in S : \A j \in S : i <= j
  BY <1>5, Parse!Least, ZenonT(60)
<1> QED BY <1>1, <1>2, <1>3, <1>4, <1>5, ZenonT(60) DEF Counting

\* The inductive invariant of the application's log and what the report makes of
\* it: its lines are in order, each after the events it saw, and the parser and
\* the metrics take them all.
THEOREM LogInvariant == SSpec => []LogInv
<1>1. SInit => LogInv
  BY ZenonT(60), LogInit, LoopsHold
<1>2. ScheduleInv /\ ScheduleInv' /\ LogInv /\ [SNext]_svars => LogInv'
  BY LoadLog, DispatchLog, QuietLog, ReadLog, LoopsHold, ZenonT(60) DEF SNext
<1> QED BY <1>1, <1>2, ScheduleInvariant, PTL DEF SSpec

\* The report of every run that ended can be built, whatever assertions the
\* schema accepted and whatever the application logged.
THEOREM Reports == SSpec => []ReportBuilds
BY ReportFollows, LogInvariant, ScheduleInvariant, PTL

\* On a device found clean, every error the report shows is later than the first
\* fault event.
THEOREM Faults == SSpec => []FaultBeforeError
<1>1. LogInv /\ ScheduleInv => FaultBeforeError
  BY FaultFollows, CountingHolds
<1> QED BY <1>1, LogInvariant, ScheduleInvariant, PTL

\* The report shows causes before effects, although its time stamps are cut to
\* milliseconds.
THEOREM CausalTimeline == SSpec => []TimelineCausal
<1>1. LogInv /\ ScheduleInv => TimelineCausal
  BY TimelineFollows, CountingHolds
<1> QED BY <1>1, LogInvariant, ScheduleInvariant, PTL
=============================================================================

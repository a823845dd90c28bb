------------------------- MODULE VTempMonitorProofs -------------------------
(***************************************************************************)
(* The monitor's invariants for every buffer size, read size, retry limit  *)
(* and event limit, and for streams of any length; and, for every sequence *)
(* of reads, that the analysis of its output tells what the device did.    *)
(***************************************************************************)
EXTENDS MonitorAnalysis, TLAPS

\* The pending buffer holds the line as long as the line fits.
Pending == Len(line) < PendingBytes => input = line

\* The count that is compared is the number of failures in a row.
Counted == retries = streak

Verdicts == {"TEMPERATURE", "INVALID_INPUT"}

-----------------------------------------------------------------------------
\* What a line is judged to be is one of the two verdicts.
LEMMA VerdictType == \A text : process_line(text) \in Verdicts
BY DEF process_line, Verdicts

\* A logged event keeps the type of the output.
LEMMA LoggedType ==
  ASSUME stdout \in Seq(Entry), NEW e \in Entry, Logged(e)
  PROVE  stdout' \in Seq(Entry)
BY DEF Logged

\* The laws of counting the elements of a set.
Counting ==
  /\ Cardinality({}) = 0 /\ \A n \in Nat : IsFiniteSet(1..n)
  /\ \A S : IsFiniteSet(S) => Cardinality(S) \in Nat /\ \A T \in SUBSET S : IsFiniteSet(T)
  /\ \A S, x : IsFiniteSet(S) /\ x \notin S => Cardinality(S \cup {x}) = Cardinality(S) + 1
  /\ \A S, T : IsFiniteSet(S) /\ IsFiniteSet(T) => IsFiniteSet(S \X T)

\* The number of temperatures in the log counts the entry appended to it.
LEMMA CountAppend ==
  ASSUME Counting, NEW s \in Seq(Verdicts), NEW v \in Verdicts
  PROVE  Cardinality({i \in DOMAIN Append(s, v) : Append(s, v)[i] = "TEMPERATURE"}) =
           Cardinality({i \in DOMAIN s : s[i] = "TEMPERATURE"})
             + IF v = "TEMPERATURE" THEN 1 ELSE 0
<1> DEFINE old == {i \in DOMAIN s : s[i] = "TEMPERATURE"}
           new == {i \in DOMAIN Append(s, v) : Append(s, v)[i] = "TEMPERATURE"}
<1>1. IsFiniteSet(old) /\ Cardinality(old) \in Nat
  <2>1. IsFiniteSet(1..Len(s))
    BY DEF Counting
  <2>2. old \subseteq 1..Len(s)
    OBVIOUS
  <2> QED BY <2>1, <2>2 DEF Counting
<1>2. CASE v = "TEMPERATURE"
  <2>1. new = old \cup {Len(s) + 1} /\ Len(s) + 1 \notin old
    BY <1>2
  <2>2. Cardinality(new) = Cardinality(old) + 1
    BY <1>1, <2>1, ZenonT(60) DEF Counting
  <2> QED BY <1>2, <2>2, ZenonT(60)
<1>3. CASE v # "TEMPERATURE"
  <2>1. new = old
    BY <1>3
  <2> HIDE DEF old, new
  <2>2. Cardinality(new) = Cardinality(old) + 0
    BY <1>1, <2>1
  <2> QED BY <1>3, <2>2, ZenonT(60) DEF old, new
<1> QED BY <1>2, <1>3, ZenonT(60)

-----------------------------------------------------------------------------
\* Types are preserved by the steps of the parser.
LEMMA ParserType ==
  ASSUME TypeOK, consume_input PROVE TypeOK'
<1> USE MonitorAssumption
<1> DEFINE c == Head(batch)
<1>1. batch # <<>> /\ batch \in Seq(Chars) /\ c \in Chars /\ Tail(batch) \in Seq(Chars)
  BY DEF TypeOK, consume_input
<1>2. ASSUME NextChar
      PROVE  /\ batch' \in Seq(Chars) /\ at' \in {"loop", "consume"} /\ result' = result
             /\ (at' = "consume" => batch' # <<>>)
  BY <1>1, <1>2 DEF NextChar
<1>3. CASE c = "newline"
  <2>1. EndLine
    BY <1>3 DEF consume_input
  <2>2. stdout' \in Seq(Entry)
    <3>1. Event(process_line(input), 0) \in Entry
      BY VerdictType DEF Verdicts, Event, Entry
    <3> QED BY <2>1, <3>1, LoggedType DEF EndLine, TypeOK
  <2>3. log' \in Seq(Verdicts) /\ events' \in Nat
    BY <2>1, VerdictType DEF EndLine, TypeOK, Verdicts
  <2>4. lines' \in Seq(Seq(Plain)) /\ line' \in Seq(Plain) /\ input' = <<>>
    BY <2>1 DEF EndLine, TypeOK, Emptied
  <2>5. /\ batch' \in Seq(Chars) /\ at' \in {"loop", "consume", "exited"}
        /\ (at' = "consume" => batch' # <<>>)
        /\ result' \in {"running", "limit"} /\ (result' = "running" <=> at' # "exited")
    BY <1>1, <1>2, <2>1, ZenonT(60) DEF EndLine, TypeOK, Exit, consume_input
  <2> QED BY SMTT(60), <2>2, <2>3, <2>4, <2>5 DEF TypeOK, Verdicts, consume_input, device
<1>4. CASE c # "newline"
  <2>1. AddChar(c) /\ c \in Plain
    BY <1>1, <1>4 DEF consume_input, Chars, Plain
  <2>2. stdout' \in Seq(Entry)
    <3>1. Event("INPUT_TOO_LONG", 0) \in Entry
      BY DEF Event, Entry
    <3> QED BY <2>1, <3>1, LoggedType DEF AddChar, TypeOK
  <2>3. input' \in Seq(Plain) /\ Len(input') < PendingBytes
    <3>1. CASE NoRoom
      BY <2>1, <3>1 DEF AddChar, Emptied
    <3>2. CASE ~NoRoom
      <4>1. input' = Append(input, c) /\ Len(input) + 1 < PendingBytes /\ input \in Seq(Plain)
        BY <2>1, <3>2 DEF AddChar, TypeOK, NoRoom
      <4> QED BY <2>1, <4>1
    <3> QED BY <3>1, <3>2
  <2>4. line' \in Seq(Plain)
    BY <2>1 DEF AddChar, TypeOK
  <2> QED BY <1>2, <2>1, <2>2, <2>3, <2>4, ZenonT(60) DEF TypeOK, AddChar, consume_input, device
<1> QED BY <1>3, <1>4

\* Types are preserved by a read that gets to the FIFO.
LEMMA FifoType ==
  ASSUME TypeOK, NEW limit \in Nat \ {0}, ReadFifo(limit), UNCHANGED <<stop, written>>,
         at \in {"read", "delay"}
  PROVE  TypeOK'
<1> USE MonitorAssumption
<1>1. CASE queue = <<>>
  BY <1>1 DEF ReadFifo, TypeOK, parser
<1>2. CASE queue # <<>>
  <2> DEFINE n == min(limit, Len(queue))
  <2>1. Received(n) /\ n \in 1..Len(queue)
    BY <1>2 DEF ReadFifo, min, TypeOK
  <2>2. queue' \in Seq(Chars) /\ batch' \in Seq(Chars) /\ batch' # <<>>
    <3>1. queue \in Seq(Chars) /\ Len(queue) \in Nat
      BY DEF TypeOK
    <3>2. SubSeq(queue, n + 1, Len(queue)) \in Seq(Chars)
      BY <2>1, <3>1
    <3>3. SubSeq(queue, 1, n) \in Seq(Chars) /\ Len(SubSeq(queue, 1, n)) = n
      BY <2>1, <3>1
    <3> QED BY <2>1, <3>2, <3>3 DEF Received
  <2>3. stdout' \in Seq(Entry)
    <3>1. Event("RECOVERY_SUCCESS", retries) \in Entry
      BY DEF TypeOK, Event, Entry
    <3> QED BY <2>1, <3>1, LoggedType DEF Received, TypeOK
  <2> QED BY <1>2, <2>1, <2>2, <2>3, ZenonT(60) DEF Received, ReadFifo, TypeOK, parser, RetriesOver
<1> QED BY <1>1, <1>2

\* Types are preserved by every step; above all, the pending line fits the
\* buffer with its final NUL.
LEMMA TypeStep ==
  ASSUME TypeOK, [Next]_vars PROVE TypeOK'
<1> USE MonitorAssumption
<1>1. CASE Check \/ Poll \/ PollOver
  BY ZenonT(60), <1>1 DEF Check, Poll, PollOver, TypeOK, device, parser, Exit
<1>2. CASE Read
  <2>1. CASE ReadEio
    <3>1. stdout' \in Seq(Entry)
      <4>1. Event("READ_FAILED", 0) \in Entry /\ Event("READ_RETRY", retries + 1) \in Entry
        BY DEF TypeOK, Event, Entry
      <4> QED BY <2>1, <4>1, LoggedType DEF ReadEio, TypeOK
    <3>2. fault' \in Fault
      <4>1. CASE fault.left = 1
        BY <2>1, <4>1 DEF ReadEio, NoFault, Fault
      <4>2. CASE fault.left # 1
        <5>1. fault \in [type : {"EIO"}, left : Nat \ {0}]
          BY <2>1, ZenonT(60) DEF ReadEio, TypeOK, Fault
        <5>2. fault' = [fault EXCEPT !.left = @ - 1]
          BY <2>1, <4>2 DEF ReadEio
        <5>3. fault.left - 1 \in Nat \ {0}
          BY <4>2, <5>1
        <5>4. fault' \in [type : {"EIO"}, left : Nat \ {0}]
          BY <5>1, <5>2, <5>3
        <5> QED BY <5>4 DEF Fault
      <4> QED BY <4>1, <4>2
    <3>3. /\ at' \in {"loop", "exited"} /\ result' \in {"running", "eio"}
          /\ (result' = "running" <=> at' # "exited")
      BY <1>2, <2>1, ZenonT(60) DEF ReadEio, Read, TypeOK, Exit
    <3>4. retries' \in Nat /\ streak' \in Nat
      <4>1. retries' = retries + 1 /\ streak' = streak + 1
        BY <2>1 DEF ReadEio
      <4>2. retries \in Nat /\ streak \in Nat
        BY DEF TypeOK
      <4> QED BY <4>1, <4>2
    <3> QED BY <1>2, <2>1, <3>1, <3>2, <3>3, <3>4, ZenonT(60) DEF ReadEio, Read, TypeOK, parser
  <2>2. CASE ReadGone
    <3>1. stdout' \in Seq(Entry)
      <4>1. Event("DEVICE_DISCONNECTED", 0) \in Entry
        BY DEF Event, Entry
      <4> QED BY <2>2, <4>1, LoggedType DEF ReadGone, TypeOK
    <3> QED BY <1>2, <2>2, <3>1 DEF ReadGone, Read, TypeOK, device, parser, Exit
  <2>3. CASE ReadDelay
    BY <1>2, <2>3 DEF ReadDelay, Read, TypeOK, device, parser
  <2>4. CASE ReadFifo(ReadBytes)
    BY <1>2, <2>4, FifoType DEF Read
  <2>5. CASE ReadFifo(min(ReadBytes, PartialBytes))
    BY <1>2, <2>5, FifoType DEF Read, min
  <2> QED BY <1>2, <2>1, <2>2, <2>3, <2>4, <2>5 DEF Read
<1>3. CASE ReadDelayed
  BY <1>3, FifoType DEF ReadDelayed
<1>4. CASE consume_input
  BY <1>4, ParserType
<1>5. CASE Signal
  <2>1. stdout' \in Seq(Entry)
    <3>1. Event("READ_FAILED", 0) \in Entry
      BY DEF Event, Entry
    <3> QED BY <1>5, <3>1, LoggedType DEF Signal, TypeOK
  <2> QED BY <1>5, <2>1 DEF Signal, TypeOK, device, parser, Exit
<1>6. ASSUME NEW ch \in Chars, Write(ch) PROVE TypeOK'
  BY <1>6 DEF Write, TypeOK, monitor, parser
<1>7. CASE Inject
  BY <1>7, SMTT(30) DEF Inject, TypeOK, monitor, parser, NoFault, Fault
<1>8. CASE Reset
  BY <1>8 DEF Reset, TypeOK, monitor, parser, NoFault, Fault
<1>9. CASE UNCHANGED vars
  BY <1>9 DEF vars, TypeOK
<1> QED BY <1>1, <1>2, <1>3, <1>4, <1>5, <1>6, <1>7, <1>8, <1>9 DEF Next, Step

\* Types hold at the start.
LEMMA TypeInit == ASSUME Init PROVE TypeOK
<1>1. Event("MONITOR_STARTED", 0) \in Entry
  BY DEF Event, Entry
<1>2. stdout \in Seq(Entry)
  BY <1>1 DEF Init
<1>3. fault \in Fault
  BY DEF Init, NoFault, Fault
<1>4. input \in Seq(Plain) /\ Len(input) < PendingBytes
  BY MonitorAssumption DEF Init
<1>5. /\ queue \in Seq(Chars) /\ batch \in Seq(Chars) /\ line \in Seq(Plain)
      /\ lines \in Seq(Seq(Plain)) /\ log \in Seq(Verdicts)
  BY DEF Init
<1> QED BY <1>2, <1>3, <1>4, <1>5, ZenonT(60) DEF Init, TypeOK, Verdicts

\* The variables have their types, and the buffer is never overrun.
THEOREM TypeCorrect == Spec => []TypeOK
BY TypeInit, TypeStep, PTL DEF Spec

-----------------------------------------------------------------------------
(* RetryBudget.                                                            *)

RetryInv == TypeOK /\ Counted /\ RetryBudget

\* The budget is kept by every step.
LEMMA RetryStep ==
  ASSUME RetryInv, [Next]_vars PROVE RetryInv'
<1> USE MonitorAssumption DEF RetryInv, Counted
<1>1. TypeOK'
  BY TypeStep
<1>2. CASE Read /\ ReadEio
  <2>1. retries' = retries + 1 /\ streak' = streak + 1
    BY <1>2 DEF ReadEio
  <2>2. result = "running" /\ streak \in Nat /\ streak <= MaxEioRetries
    BY <1>2 DEF Read, TypeOK, RetryBudget
  <2>3. IF streak + 1 > MaxEioRetries THEN result' = "eio" ELSE result' = result
    BY <1>2 DEF ReadEio, Exit
  <2> QED BY <1>1, <2>1, <2>2, <2>3 DEF RetryBudget
<1>3. ASSUME NEW limit, ReadFifo(limit), at \in {"read", "delay"}
      PROVE  Counted' /\ RetryBudget'
  BY SMTT(60), <1>3 DEF ReadFifo, Received, RetryBudget, RetriesOver, TypeOK
<1>4. CASE Read /\ ~ReadEio
  <2>1. CASE ReadGone \/ ReadDelay
    BY <1>1, <1>4, <2>1, ZenonT(60) DEF Read, ReadGone, ReadDelay, Exit, RetryBudget, TypeOK
  <2>2. CASE ~(ReadGone \/ ReadDelay)
    BY <1>1, <1>3, <1>4, <2>2 DEF Read
  <2> QED BY <2>1, <2>2
<1>5. CASE Check \/ Poll \/ PollOver \/ Signal
  BY <1>1, <1>5, ZenonT(60) DEF Check, Poll, PollOver, Signal, Exit, RetryBudget, TypeOK
<1>6. CASE ReadDelayed
  BY <1>1, <1>3, <1>6 DEF ReadDelayed
<1>7. CASE consume_input
  <2>1. result' \in {result, "limit"} /\ result = "running"
    BY <1>7 DEF consume_input, EndLine, AddChar, NextChar, Exit, TypeOK
  <2>2. UNCHANGED <<retries, streak>>
    BY <1>7 DEF consume_input
  <2> QED BY <1>1, <2>1, <2>2 DEF RetryBudget
<1>8. CASE UNCHANGED <<retries, streak, result>>
  BY <1>1, <1>8 DEF RetryBudget
<1>9. (\E ch \in Chars : Write(ch)) \/ Inject \/ Reset \/ UNCHANGED vars
        => UNCHANGED <<retries, streak, result>>
  BY DEF Write, Inject, Reset, monitor, vars
<1> QED BY <1>2, <1>4, <1>5, <1>6, <1>7, <1>8, <1>9 DEF Next, Step

\* The monitor survives MaxEioRetries failures in a row and no more.
THEOREM RetriesBudgeted == Spec => []RetryBudget
<1>1. ASSUME Init PROVE RetryInv
  <2>1. TypeOK
    BY <1>1, TypeInit
  <2> QED BY <1>1, <2>1, MonitorAssumption DEF Init, RetryInv, Counted, RetryBudget
<1>2. RetryInv /\ [Next]_vars => RetryInv'
  BY RetryStep
<1>3. RetryInv => RetryBudget
  BY DEF RetryInv
<1> QED BY <1>1, <1>2, <1>3, PTL DEF Spec

-----------------------------------------------------------------------------
(* LinesFaithful and LimitExact.                                           *)

LinesInv == TypeOK /\ Pending /\ LinesFaithful /\ LimitExact

\* The lines and the limit concern no step but those of the parser.
LEMMA ParserOnly ==
  ASSUME LinesInv, [Next]_vars, ~consume_input
  PROVE  LinesInv'
<1>1. TypeOK'
  BY TypeStep DEF LinesInv
<1>2. UNCHANGED parser /\ (result' = "limit" <=> result = "limit")
  <2>1. ASSUME NEW limit, ReadFifo(limit) PROVE UNCHANGED parser /\ UNCHANGED result
    BY <2>1 DEF ReadFifo, Received
  <2>2. CASE Check \/ Poll \/ PollOver \/ Signal
    BY <2>2 DEF Check, Poll, PollOver, Signal, Exit, TypeOK, LinesInv
  <2>3. CASE ReadDelayed
    BY <2>1, <2>3 DEF ReadDelayed
  <2>4. CASE Read
    <3>1. CASE ReadEio \/ ReadGone \/ ReadDelay
      BY <2>4, <3>1, ZenonT(60) DEF Read, ReadEio, ReadGone, ReadDelay, Exit, TypeOK, LinesInv
    <3>2. CASE ~(ReadEio \/ ReadGone \/ ReadDelay)
      BY <2>1, <2>4, <3>2 DEF Read
    <3> QED BY <3>1, <3>2
  <2>5. CASE (\E ch \in Chars : Write(ch)) \/ Inject \/ Reset \/ UNCHANGED vars
    BY <2>5 DEF Write, Inject, Reset, monitor, vars, parser
  <2> QED BY <2>2, <2>3, <2>4, <2>5 DEF Next, Step
<1> QED BY <1>1, <1>2 DEF LinesInv, Pending, LinesFaithful, LimitExact, parser

\* The end of a line: the pending buffer is the line, if that fits, and gets
\* its verdict; the count of the temperatures goes up with the log.
LEMMA EndLineStep ==
  ASSUME Counting, LinesInv, consume_input, Head(batch) = "newline"
  PROVE  Pending' /\ LinesFaithful' /\ LimitExact'
<1> USE MonitorAssumption
<1> DEFINE v == process_line(input)
<1>1. EndLine /\ v \in Verdicts /\ result = "running"
  BY VerdictType DEF consume_input, LinesInv, TypeOK
<1>2. /\ log \in Seq(Verdicts) /\ lines \in Seq(Seq(Plain)) /\ line \in Seq(Plain)
      /\ events \in Nat
  BY DEF LinesInv, TypeOK, Verdicts
<1>3. log' = Append(log, v) /\ lines' = Append(lines, line) /\ line' = <<>> /\ input' = <<>>
  BY <1>1 DEF EndLine, Emptied
<1>4. Pending'
  BY <1>3 DEF Pending
<1>5. LinesFaithful'
  <2>1. Len(log) = Len(lines) /\ \A i \in DOMAIN log :
          ~Oversized(lines[i]) => log[i] = process_line(lines[i])
    BY DEF LinesInv, LinesFaithful
  <2>2. Len(log') = Len(lines')
    BY <1>1, <1>2, <1>3, <2>1
  <2>3. ASSUME NEW i \in DOMAIN log', ~Oversized(lines'[i])
        PROVE  log'[i] = process_line(lines'[i])
    <3>1. CASE i \in DOMAIN log
      <4>1. log'[i] = log[i] /\ lines'[i] = lines[i]
        BY <1>1, <1>2, <1>3, <2>1, <3>1
      <4> QED BY <2>1, <2>3, <3>1, <4>1
    <3>2. CASE i \notin DOMAIN log
      <4>1. log'[i] = v /\ lines'[i] = line
        BY <1>1, <1>2, <1>3, <2>1, <2>3, <3>2
      <4>2. ~Oversized(line)
        BY <2>3, <4>1
      <4>3. Len(line) < PendingBytes
        BY <1>2, <4>2 DEF Oversized
      <4>4. input = line
        BY <4>3 DEF LinesInv, Pending
      <4> QED BY <4>1, <4>4
    <3> QED BY <3>1, <3>2
  <2> QED BY <2>2, <2>3 DEF LinesFaithful, Oversized
<1>6. LimitExact'
  <2>1. events' = events + IF v = "TEMPERATURE" THEN 1 ELSE 0
    BY <1>1 DEF EndLine
  <2>2. events' = Cardinality({i \in DOMAIN log' : log'[i] = "TEMPERATURE"})
    BY <1>1, <1>2, <1>3, <2>1, CountAppend, ZenonT(60) DEF LinesInv, LimitExact
  <2>3. result' = IF MaxEvents # 0 /\ events' >= MaxEvents THEN "limit" ELSE "running"
    BY <1>1, <2>1 DEF EndLine, LimitReached, Exit, NextChar
  <2>4. MaxEvents # 0 => events < MaxEvents
    BY <1>1, <1>2 DEF LinesInv, LimitExact
  <2>5. events' \in Nat /\ events' <= events + 1
    BY <1>2, <2>1
  <2> QED BY <1>2, <2>2, <2>3, <2>4, <2>5 DEF LimitExact
<1> QED BY <1>4, <1>5, <1>6

\* Another character: the buffer follows the line until it is full.
LEMMA AddCharStep ==
  ASSUME LinesInv, consume_input, Head(batch) # "newline"
  PROVE  Pending' /\ LinesFaithful' /\ LimitExact'
<1> USE MonitorAssumption
<1> DEFINE c == Head(batch)
<1>1. AddChar(c) /\ c \in Plain /\ line \in Seq(Plain) /\ input \in Seq(Plain)
  BY DEF consume_input, LinesInv, TypeOK, Chars, Plain
<1>2. line' = Append(line, c) /\ Len(line') = Len(line) + 1 /\ Len(line) \in Nat
  BY <1>1 DEF AddChar
<1>3. Pending'
  <2>1. SUFFICES ASSUME Len(line) + 1 < PendingBytes PROVE input' = line'
    BY <1>2 DEF Pending
  <2>2. input = line
    BY <1>2, <2>1 DEF LinesInv, Pending
  <2> QED BY <1>1, <1>2, <2>1, <2>2 DEF AddChar, NoRoom
<1>4. UNCHANGED <<log, lines, events, result>>
  BY <1>1 DEF AddChar, NextChar
<1>5. LinesFaithful' /\ LimitExact'
  BY <1>4 DEF LinesInv, LinesFaithful, LimitExact
<1> QED BY <1>3, <1>5

\* Both are kept by every step.
LEMMA LinesStep ==
  ASSUME Counting, LinesInv, [Next]_vars PROVE LinesInv'
<1>1. CASE consume_input
  <2>1. TypeOK'
    BY TypeStep DEF LinesInv
  <2> QED BY <1>1, <2>1, EndLineStep, AddCharStep DEF LinesInv
<1> QED BY <1>1, ParserOnly

\* They hold at the start.
LEMMA LinesInit == ASSUME Counting, Init PROVE LinesInv
<1>1. {i \in DOMAIN log : log[i] = "TEMPERATURE"} = {}
  BY DEF Init
<1>2. Cardinality({}) = 0
  BY DEF Counting
<1>3. TypeOK
  BY TypeInit
<1>4. LimitExact
  BY <1>1, <1>2, MonitorAssumption DEF Init, LimitExact
<1>5. Pending /\ LinesFaithful
  BY DEF Init, Pending, LinesFaithful
<1> QED BY <1>3, <1>4, <1>5 DEF LinesInv

-----------------------------------------------------------------------------
(* The analysis of the output.                                             *)

LogLine ==
  [json : {"object"}, timestamp_ms : Nat,
   event : {"MONITOR_STARTED", "TEMPERATURE", "INVALID_INPUT", "INPUT_TOO_LONG", "READ_RETRY",
            "RECOVERY_SUCCESS", "READ_FAILED", "DEVICE_DISCONNECTED"},
   errno : {EIO, None}, n : Nat]

\* The line that the entry e of stdout is at time ms.
LineOf(e, ms) ==
  [json |-> "object", timestamp_ms |-> ms, event |-> e.event,
   errno |-> IF e.event = "READ_RETRY" THEN EIO ELSE None, n |-> e.n]

Recovery == [first : Int, recovered : Int, latency : Int, observed : Int, reported : Int]

Metrics ==
  [error : {FALSE}, eio : Int, retries : Int, recoveries : Seq(Recovery), firstSeen : Int,
   first : Int, active : Int]

ReadResult == [ok : BOOLEAN, ms : Nat]

\* The outages and failures in a sequence of results of read().
OutagesIn(R) ==
  {o \in (DOMAIN R) \X (DOMAIN R) :
     /\ o[1] < o[2] /\ R[o[2]].ok
     /\ \A k \in o[1]..(o[2] - 1) : ~R[k].ok
     /\ o[1] = 1 \/ R[o[1] - 1].ok}

FailedIn(R) == {i \in DOMAIN R : ~R[i].ok}

WindowOf(R, o) ==
  [first |-> R[o[1]].ms, recovered |-> R[o[2]].ms, latency |-> R[o[2]].ms - R[o[1]].ms,
   observed |-> o[2] - o[1], reported |-> o[2] - o[1]]

WindowsIn(R) == {WindowOf(R, o) : o \in OutagesIn(R)}

\* The last n results of R are failures, and the one before them is none.
EndsWith(R, n) ==
  /\ n <= Len(R)
  /\ \A k \in DOMAIN R : k > Len(R) - n => ~R[k].ok
  /\ n < Len(R) => R[Len(R) - n].ok

\* How many lines of s have an event.
CountOf(s, name) == Cardinality({i \in DOMAIN s : s[i].event = name})

\* What the metrics m show of the lines s, when the results of read() were R, the
\* last n of them failures that were logged as retries.
Agrees(m, s, R, n, lost) ==
  /\ m \in Metrics /\ m.eio = Cardinality(FailedIn(R)) - lost
  /\ m.active = n - lost
  /\ m.first = IF m.active = 0 THEN None ELSE R[Len(R) - n + 1].ms
  /\ Len(m.recoveries) = Cardinality(OutagesIn(R))
  /\ Range(m.recoveries) = WindowsIn(R)
  /\ CountOf(s, "READ_RETRY") = m.eio /\ CountOf(s, "RECOVERY_SUCCESS") = Len(m.recoveries)

\* The failure that ends the monitor is not logged as a retry.
Lost == IF result = "eio" THEN 1 ELSE 0

Stamps ==
  /\ now \in Nat /\ stamps \in Seq(Nat) /\ Len(stamps) = Len(stdout)
  /\ reads \in Seq(ReadResult)
  /\ \A i \in DOMAIN stamps : stamps[i] <= now

AnalysisInv ==
  /\ RetryInv /\ Stamps /\ EndsWith(reads, streak)
  /\ parse_application_log(Text) = [error |-> FALSE, events |-> Text]
  /\ Agrees(calculate_recovery_metrics(Text), Text, reads, streak, Lost)
  /\ (\E i \in DOMAIN stdout : stdout[i].event = "READ_FAILED") <=> result \in {"eio", "eintr"}

-----------------------------------------------------------------------------
(* One more result of read().                                              *)

\* The results that were there keep their places.
LEMMA OneMore ==
  ASSUME NEW S, NEW R \in Seq(S), NEW x \in S
  PROVE  LET T == Append(R, x)
         IN  /\ T \in Seq(S) /\ Len(T) = Len(R) + 1 /\ Len(R) \in Nat /\ T[Len(R) + 1] = x
             /\ DOMAIN R = 1..Len(R) /\ DOMAIN T = 1..(Len(R) + 1)
             /\ \A k \in 1..Len(R) : T[k] = R[k]
OBVIOUS

\* A set of elements of a sequence: one more element may be one more of them.
LEMMA OneMoreCounted ==
  ASSUME Counting, NEW n \in Nat, NEW old \in SUBSET (1..n), NEW new,
         new = old \/ new = old \cup {n + 1}
  PROVE  /\ Cardinality(old) \in Nat
         /\ Cardinality(new) = Cardinality(old) + IF n + 1 \in new THEN 1 ELSE 0
<1>1. IsFiniteSet(1..n)
  BY DEF Counting
<1>2. IsFiniteSet(old) /\ Cardinality(old) \in Nat
  BY <1>1, ZenonT(60) DEF Counting
<1>3. n + 1 \notin old
  OBVIOUS
<1>4. CASE new = old
  BY <1>2, <1>3, <1>4
<1>5. CASE new = old \cup {n + 1}
  <2>1. Cardinality(new) = Cardinality(old) + 1 /\ n + 1 \in new
    BY <1>2, <1>3, <1>5 DEF Counting
  <2> QED BY <1>2, <2>1
<1> QED BY <1>4, <1>5

\* The failures count one more failure.
LEMMA FailedAppend ==
  ASSUME Counting, NEW R \in Seq(ReadResult), NEW x \in ReadResult
  PROVE  /\ Cardinality(FailedIn(R)) \in Nat
         /\ Cardinality(FailedIn(Append(R, x))) = Cardinality(FailedIn(R)) + IF x.ok THEN 0 ELSE 1
<1> DEFINE T == Append(R, x)
<1> DEFINE n == Len(R)
<1>1. /\ n \in Nat /\ DOMAIN R = 1..n /\ DOMAIN T = 1..(n + 1) /\ T[n + 1] = x
      /\ \A k \in 1..n : T[k] = R[k]
  BY OneMore
<1> HIDE DEF T, n
<1>2. FailedIn(R) \in SUBSET (1..n)
  BY <1>1 DEF FailedIn
<1>3. \A k \in 1..(n + 1) : k \in 1..n \/ k = n + 1
  BY <1>1
<1>4. FailedIn(T) = IF x.ok THEN FailedIn(R) ELSE FailedIn(R) \cup {n + 1}
  BY <1>1, <1>3 DEF FailedIn
<1>5. n + 1 \in FailedIn(T) <=> ~x.ok
  BY <1>1 DEF FailedIn
<1>6. /\ Cardinality(FailedIn(R)) \in Nat
      /\ Cardinality(FailedIn(T)) = Cardinality(FailedIn(R)) + IF n + 1 \in FailedIn(T) THEN 1 ELSE 0
  BY <1>1, <1>2, <1>4, OneMoreCounted
<1> QED BY <1>5, <1>6 DEF T

\* An outage is a pair of results, and there are finitely many.
LEMMA OutageFacts ==
  ASSUME Counting, NEW R \in Seq(ReadResult)
  PROVE  /\ IsFiniteSet(OutagesIn(R)) /\ Cardinality(OutagesIn(R)) \in Nat
         /\ \A o \in OutagesIn(R) : o[1] \in 1..Len(R) /\ o[2] \in 1..Len(R)
<1>1. DOMAIN R = 1..Len(R) /\ Len(R) \in Nat
  OBVIOUS
<1>2. IsFiniteSet(DOMAIN R)
  BY <1>1 DEF Counting
<1>3. IsFiniteSet((DOMAIN R) \X (DOMAIN R))
  BY <1>2 DEF Counting
<1>4. OutagesIn(R) \in SUBSET ((DOMAIN R) \X (DOMAIN R))
  BY DEF OutagesIn
<1>5. IsFiniteSet(OutagesIn(R)) /\ Cardinality(OutagesIn(R)) \in Nat
  BY <1>3, <1>4 DEF Counting
<1> QED BY <1>1, <1>4, <1>5

\* What makes a pair an outage.
IsOutage(R, a, b) ==
  /\ a \in DOMAIN R /\ b \in DOMAIN R /\ a < b /\ R[b].ok
  /\ \A k \in a..(b - 1) : ~R[k].ok
  /\ a = 1 \/ R[a - 1].ok

\* The outages are those pairs.
LEMMA OutagePairs ==
  ASSUME NEW R
  PROVE  /\ \A a, b : <<a, b>> \in OutagesIn(R) <=> IsOutage(R, a, b)
         /\ \A o \in OutagesIn(R) : o = <<o[1], o[2]>>
BY DEF OutagesIn, IsOutage

\* The outages that were there stay, and none ends but with the new result.
LEMMA OldOutages ==
  ASSUME NEW R \in Seq(ReadResult), NEW x \in ReadResult, NEW a, NEW b, b # Len(R) + 1
  PROVE  IsOutage(Append(R, x), a, b) <=> IsOutage(R, a, b)
<1> DEFINE T == Append(R, x)
<1> DEFINE n == Len(R)
<1>1. /\ n \in Nat /\ DOMAIN R = 1..n /\ DOMAIN T = 1..(n + 1) /\ T[n + 1] = x
      /\ \A k \in 1..n : T[k] = R[k]
  BY OneMore
<1>2. b # n + 1
  OBVIOUS
<1> HIDE DEF T, n
<1>3. ASSUME IsOutage(T, a, b) PROVE IsOutage(R, a, b)
  <2>1. a \in 1..n /\ b \in 1..n /\ a < b
    BY <1>1, <1>2, <1>3 DEF IsOutage
  <2>2. \A k \in a..(b - 1) : k \in 1..n
    BY <1>1, <2>1
  <2>3. a # 1 => a - 1 \in 1..n
    BY <1>1, <2>1
  <2> QED BY <1>1, <1>3, <2>1, <2>2, <2>3 DEF IsOutage
<1>4. ASSUME IsOutage(R, a, b) PROVE IsOutage(T, a, b)
  <2>1. a \in 1..n /\ b \in 1..n /\ a < b /\ a \in 1..(n + 1) /\ b \in 1..(n + 1)
    BY <1>1, <1>4 DEF IsOutage
  <2>2. \A k \in a..(b - 1) : k \in 1..n
    BY <1>1, <2>1
  <2>3. a # 1 => a - 1 \in 1..n
    BY <1>1, <2>1
  <2> QED BY <1>1, <1>4, <2>1, <2>2, <2>3 DEF IsOutage
<1> QED BY <1>3, <1>4 DEF T

\* A failure ends no outage.
LEMMA OutagesFailure ==
  ASSUME NEW R \in Seq(ReadResult), NEW x \in ReadResult, ~x.ok
  PROVE  OutagesIn(Append(R, x)) = OutagesIn(R)
<1> DEFINE T == Append(R, x)
<1> DEFINE n == Len(R)
<1>1. T[n + 1] = x /\ n + 1 \notin DOMAIN R
  BY OneMore
<1>2. \A a, b : IsOutage(T, a, b) <=> IsOutage(R, a, b)
  <2> SUFFICES ASSUME NEW a, NEW b PROVE IsOutage(T, a, b) <=> IsOutage(R, a, b)
    OBVIOUS
  <2>1. CASE b = n + 1
    <3> HIDE DEF T, n
    <3> QED BY <1>1, <2>1 DEF IsOutage
  <2>2. CASE b # n + 1
    BY <2>2, OldOutages
  <2> QED BY <2>1, <2>2
<1> HIDE DEF T
<1>3. \A o : o \in OutagesIn(T) <=> o \in OutagesIn(R)
  <2>1. /\ \A a, b : <<a, b>> \in OutagesIn(T) <=> IsOutage(T, a, b)
        /\ \A o \in OutagesIn(T) : o = <<o[1], o[2]>>
    BY OutagePairs
  <2>2. /\ \A a, b : <<a, b>> \in OutagesIn(R) <=> IsOutage(R, a, b)
        /\ \A o \in OutagesIn(R) : o = <<o[1], o[2]>>
    BY OutagePairs
  <2> SUFFICES ASSUME NEW o PROVE o \in OutagesIn(T) <=> o \in OutagesIn(R)
    OBVIOUS
  <2>3. ASSUME o \in OutagesIn(T) PROVE o \in OutagesIn(R)
    <3>1. o = <<o[1], o[2]>> /\ IsOutage(T, o[1], o[2])
      BY <2>1, <2>3, ZenonT(60)
    <3> QED BY <1>2, <2>2, <3>1, ZenonT(60)
  <2>4. ASSUME o \in OutagesIn(R) PROVE o \in OutagesIn(T)
    <3>1. o = <<o[1], o[2]>> /\ IsOutage(R, o[1], o[2])
      BY <2>2, <2>4, ZenonT(60)
    <3> QED BY <1>2, <2>1, <3>1, ZenonT(60)
  <2> QED BY <2>3, <2>4
<1>4. OutagesIn(T) = OutagesIn(R)
  BY <1>3, ZenonT(60)
<1> QED BY <1>4 DEF T

\* A read that works ends the outage in progress.
LEMMA OutagesSuccess ==
  ASSUME NEW R \in Seq(ReadResult), NEW x \in ReadResult, x.ok, NEW n \in Nat, EndsWith(R, n)
  PROVE  LET last == <<Len(R) - n + 1, Len(R) + 1>>
         IN  /\ n = 0 => OutagesIn(Append(R, x)) = OutagesIn(R)
             /\ n > 0 => OutagesIn(Append(R, x)) = OutagesIn(R) \cup {last}
             /\ last \notin OutagesIn(R)
<1> DEFINE T == Append(R, x)
<1> DEFINE l == Len(R)
<1> DEFINE f == l - n + 1
<1>1. /\ l \in Nat /\ DOMAIN R = 1..l /\ DOMAIN T = 1..(l + 1) /\ T[l + 1] = x
      /\ \A k \in 1..l : T[k] = R[k]
  BY OneMore
<1>2. /\ n <= l /\ (\A k \in DOMAIN R : k > l - n => ~R[k].ok) /\ (n < l => R[l - n].ok)
  BY DEF EndsWith
<1>3. \A a, b : b # l + 1 => (IsOutage(T, a, b) <=> IsOutage(R, a, b))
  BY OldOutages
<1> HIDE DEF T, l
<1>4. \A a : ~IsOutage(R, a, l + 1)
  BY <1>1 DEF IsOutage
<1>5. ASSUME NEW a, IsOutage(T, a, l + 1) PROVE n > 0 /\ a = f
  <2>1. a \in 1..l /\ (\A k \in a..l : ~T[k].ok) /\ (a = 1 \/ T[a - 1].ok)
    BY <1>1, <1>5 DEF IsOutage
  <2>2. \A k \in a..l : k \in 1..l /\ ~R[k].ok
    <3>1. \A k \in a..l : k \in 1..l
      BY <1>1, <2>1
    <3> QED BY <1>1, <2>1, <3>1
  <2>3. a > l - n
    <3>1. CASE n < l
      <4>1. l - n \notin a..l
        BY <1>2, <2>2, <3>1
      <4> QED BY <1>1, <1>2, <2>1, <4>1
    <3>2. CASE n = l
      BY <1>1, <2>1, <3>2
    <3> QED BY <1>1, <1>2, <3>1, <3>2
  <2>4. a <= l - n + 1
    <3>1. CASE a = 1
      BY <1>1, <1>2, <3>1
    <3>2. CASE a # 1
      <4>1. a - 1 \in 1..l /\ a - 1 \in DOMAIN R
        BY <1>1, <2>1, <3>2
      <4>2. R[a - 1].ok
        BY <1>1, <2>1, <3>2, <4>1
      <4>3. ~(a - 1 > l - n)
        BY <1>2, <4>1, <4>2
      <4> QED BY <1>1, <2>1, <4>3
    <3> QED BY <3>1, <3>2
  <2> QED BY <1>1, <2>1, <2>3, <2>4
<1>6. ASSUME n > 0 PROVE IsOutage(T, f, l + 1)
  <2>1. f \in 1..l /\ f < l + 1 /\ f \in 1..(l + 1) /\ l + 1 \in 1..(l + 1) /\ (l + 1) - 1 = l
    BY <1>1, <1>2, <1>6
  <2>2. \A k \in f..l : k \in 1..l /\ k > l - n
    BY <1>1, <1>2, <2>1
  <2>3. \A k \in f..l : ~T[k].ok
    BY <1>1, <1>2, <2>2
  <2>4. f = 1 \/ T[f - 1].ok
    <3>1. CASE n = l
      BY <1>1, <3>1
    <3>2. CASE n < l
      <4>1. f - 1 = l - n /\ l - n \in 1..l
        BY <1>1, <1>2, <1>6, <3>2
      <4> QED BY <1>1, <1>2, <3>2, <4>1
    <3> QED BY <1>1, <1>2, <3>1, <3>2
  <2> HIDE DEF f
  <2> QED BY <1>1, <2>1, <2>3, <2>4 DEF IsOutage
<1> HIDE DEF f
<1>7. \A a, b : IsOutage(T, a, b) <=> IsOutage(R, a, b) \/ (n > 0 /\ a = f /\ b = l + 1)
  BY <1>3, <1>4, <1>5, <1>6
<1>8. <<f, l + 1>> \notin OutagesIn(R)
  BY <1>4, OutagePairs
<1> DEFINE e == l + 1
<1>9. \A o : o \in OutagesIn(T) <=> o \in OutagesIn(R) \/ (n > 0 /\ o = <<f, e>>)
  <2>1. /\ \A a, b : <<a, b>> \in OutagesIn(T) <=> IsOutage(T, a, b)
        /\ \A o \in OutagesIn(T) : o = <<o[1], o[2]>>
    BY OutagePairs
  <2>2. /\ \A a, b : <<a, b>> \in OutagesIn(R) <=> IsOutage(R, a, b)
        /\ \A o \in OutagesIn(R) : o = <<o[1], o[2]>>
    BY OutagePairs
  <2> HIDE DEF e
  <2>3. \A a, b : IsOutage(T, a, b) <=> IsOutage(R, a, b) \/ (n > 0 /\ a = f /\ b = e)
    BY <1>7 DEF e
  <2> SUFFICES ASSUME NEW o
               PROVE  o \in OutagesIn(T) <=> o \in OutagesIn(R) \/ (n > 0 /\ o = <<f, e>>)
    OBVIOUS
  <2>4. ASSUME o \in OutagesIn(T) PROVE o \in OutagesIn(R) \/ (n > 0 /\ o = <<f, e>>)
    <3>1. o = <<o[1], o[2]>> /\ IsOutage(T, o[1], o[2])
      BY <2>1, <2>4, ZenonT(60)
    <3>2. IsOutage(R, o[1], o[2]) \/ (n > 0 /\ o[1] = f /\ o[2] = e)
      BY <2>3, <3>1, ZenonT(60)
    <3> QED BY <2>2, <3>1, <3>2, ZenonT(60)
  <2>5. ASSUME o \in OutagesIn(R) PROVE o \in OutagesIn(T)
    <3>1. o = <<o[1], o[2]>> /\ IsOutage(R, o[1], o[2])
      BY <2>2, <2>5, ZenonT(60)
    <3> QED BY <2>1, <2>3, <3>1, ZenonT(60)
  <2>6. ASSUME n > 0, o = <<f, e>> PROVE o \in OutagesIn(T)
    BY <2>1, <2>3, <2>6, ZenonT(60)
  <2> QED BY <2>4, <2>5, <2>6, ZenonT(60)
<1>10. /\ n = 0 => OutagesIn(T) = OutagesIn(R)
       /\ n > 0 => OutagesIn(T) = OutagesIn(R) \cup {<<f, l + 1>>}
  <2>1. n = 0 => ~(n > 0)
    OBVIOUS
  <2> QED BY <1>9, <2>1, ZenonT(60)
<1> QED BY <1>8, <1>10 DEF T, l, f

\* The windows of the outages that were there stay.
LEMMA OldWindows ==
  ASSUME Counting, NEW R \in Seq(ReadResult), NEW x \in ReadResult
  PROVE  \A o \in OutagesIn(R) : WindowOf(Append(R, x), o) = WindowOf(R, o)
<1>1. \A k \in 1..Len(R) : Append(R, x)[k] = R[k]
  BY OneMore
<1>2. \A o \in OutagesIn(R) : o[1] \in 1..Len(R) /\ o[2] \in 1..Len(R)
  BY OutageFacts
<1> QED BY <1>1, <1>2, ZenonT(60) DEF WindowOf

\* One more failure.
LEMMA ReadsFailure ==
  ASSUME Counting, NEW R \in Seq(ReadResult), NEW x \in ReadResult, ~x.ok, NEW n \in Nat, EndsWith(R, n)
  PROVE  LET T == Append(R, x)
         IN  /\ Cardinality(FailedIn(R)) \in Nat
             /\ Cardinality(FailedIn(T)) = Cardinality(FailedIn(R)) + 1
             /\ OutagesIn(T) = OutagesIn(R) /\ WindowsIn(T) = WindowsIn(R)
             /\ T[Len(T) - (n + 1) + 1].ms = IF n = 0 THEN x.ms ELSE R[Len(R) - n + 1].ms
             /\ EndsWith(T, n + 1)
<1> DEFINE T == Append(R, x)
<1> DEFINE l == Len(R)
<1>1. /\ T \in Seq(ReadResult) /\ Len(T) = l + 1 /\ l \in Nat /\ T[l + 1] = x
      /\ DOMAIN R = 1..l /\ DOMAIN T = 1..(l + 1) /\ \A k \in 1..l : T[k] = R[k]
  BY OneMore
<1>2. /\ Cardinality(FailedIn(R)) \in Nat
      /\ Cardinality(FailedIn(T)) = Cardinality(FailedIn(R)) + 1
  BY FailedAppend
<1>3. OutagesIn(T) = OutagesIn(R)
  BY OutagesFailure
<1>4. \A o \in OutagesIn(R) : WindowOf(T, o) = WindowOf(R, o)
  BY OldWindows
<1>5. /\ n <= l /\ (\A k \in DOMAIN R : k > l - n => ~R[k].ok) /\ (n < l => R[l - n].ok)
  BY DEF EndsWith
<1> HIDE DEF T, l
<1>6. WindowsIn(T) = WindowsIn(R)
  BY <1>3, <1>4 DEF WindowsIn
<1>7. T[l + 1 - (n + 1) + 1].ms = IF n = 0 THEN x.ms ELSE R[l - n + 1].ms
  <2>1. l + 1 - (n + 1) + 1 = l - n + 1 /\ (n # 0 => l - n + 1 \in 1..l) /\ (n = 0 => l - n + 1 = l + 1)
    BY <1>1, <1>5
  <2> QED BY <1>1, <2>1
<1>8. EndsWith(T, n + 1)
  <2>1. n + 1 <= l + 1 /\ (l + 1) - (n + 1) = l - n /\ (n + 1 < l + 1 => n < l /\ l - n \in 1..l)
    BY <1>1, <1>5
  <2>2. \A k \in 1..(l + 1) : k \in 1..l \/ k = l + 1
    BY <1>1
  <2>3. \A k \in 1..(l + 1) : k > l - n => ~T[k].ok
    BY <1>1, <1>5, <2>2, ZenonT(60)
  <2>4. n + 1 < l + 1 => T[l - n].ok
    BY <1>1, <1>5, <2>1
  <2> QED BY <1>1, <2>1, <2>3, <2>4, ZenonT(60) DEF EndsWith
<1>9. T[Len(T) - (n + 1) + 1].ms = IF n = 0 THEN x.ms ELSE R[l - n + 1].ms
  BY <1>1, <1>7, SMTT(30)
<1> QED BY <1>2, <1>3, <1>6, <1>8, <1>9, ZenonT(60) DEF T, l

\* One more read that works.
LEMMA ReadsSuccess ==
  ASSUME Counting, NEW R \in Seq(ReadResult), NEW x \in ReadResult, x.ok, NEW n \in Nat, EndsWith(R, n)
  PROVE  LET T == Append(R, x)
             first == R[Len(R) - n + 1].ms
             w == [first |-> first, recovered |-> x.ms, latency |-> x.ms - first,
                   observed |-> n, reported |-> n]
         IN  /\ Cardinality(FailedIn(T)) = Cardinality(FailedIn(R))
             /\ n = 0 => OutagesIn(T) = OutagesIn(R) /\ WindowsIn(T) = WindowsIn(R)
             /\ n > 0 => /\ Cardinality(OutagesIn(T)) = Cardinality(OutagesIn(R)) + 1
                         /\ WindowsIn(T) = WindowsIn(R) \cup {w} /\ first \in Nat
             /\ EndsWith(T, 0)
<1> DEFINE T == Append(R, x)
<1> DEFINE l == Len(R)
<1> DEFINE f == l - n + 1
<1> DEFINE first == R[f].ms
<1> DEFINE w == [first |-> first, recovered |-> x.ms, latency |-> x.ms - first,
                 observed |-> n, reported |-> n]
<1> DEFINE last == <<f, l + 1>>
<1>1. /\ T \in Seq(ReadResult) /\ Len(T) = l + 1 /\ l \in Nat /\ T[l + 1] = x
      /\ DOMAIN R = 1..l /\ DOMAIN T = 1..(l + 1) /\ \A k \in 1..l : T[k] = R[k]
  BY OneMore
<1>2. /\ Cardinality(FailedIn(R)) \in Nat
      /\ Cardinality(FailedIn(T)) = Cardinality(FailedIn(R)) + 0
  BY FailedAppend
<1>3. /\ n = 0 => OutagesIn(T) = OutagesIn(R)
      /\ n > 0 => OutagesIn(T) = OutagesIn(R) \cup {last}
      /\ last \notin OutagesIn(R)
  BY OutagesSuccess
<1>4. \A o \in OutagesIn(R) : WindowOf(T, o) = WindowOf(R, o)
  BY OldWindows
<1>5. n <= l
  BY DEF EndsWith
<1>6. IsFiniteSet(OutagesIn(R)) /\ Cardinality(OutagesIn(R)) \in Nat
  BY OutageFacts
<1>7. n > 0 => f \in 1..l /\ l + 1 - f = n
  BY <1>1, <1>5
<1>8. n > 0 => first \in Nat
  <2>1. n > 0 => R[f] \in ReadResult
    BY <1>1, <1>7
  <2> QED BY <2>1 DEF ReadResult
<1>9. n > 0 => WindowOf(T, last) = w
  <2>1. last[1] = f /\ last[2] = l + 1
    OBVIOUS
  <2>2. n > 0 => T[f] = R[f] /\ T[l + 1] = x /\ (l + 1) - f = n
    BY <1>1, <1>7
  <2> HIDE DEF T, l, f, last
  <2>3. n > 0 => T[last[1]].ms = first /\ T[last[2]].ms = x.ms /\ last[2] - last[1] = n
    BY <2>1, <2>2, ZenonT(60)
  <2> HIDE DEF first
  <2> QED BY <2>3, ZenonT(60) DEF WindowOf
<1> HIDE DEF T, l, f, first, w, last
<1>10. n = 0 => WindowsIn(T) = WindowsIn(R)
  BY <1>3, <1>4 DEF WindowsIn
<1>11. n > 0 => WindowsIn(T) = WindowsIn(R) \cup {w}
  <2> SUFFICES ASSUME n > 0 PROVE WindowsIn(T) = WindowsIn(R) \cup {w}
    OBVIOUS
  <2> QED BY <1>3, <1>4, <1>9, ZenonT(60) DEF WindowsIn
<1>12. n > 0 => Cardinality(OutagesIn(T)) = Cardinality(OutagesIn(R)) + 1
  BY <1>3, <1>6 DEF Counting
<1>13. EndsWith(T, 0)
  BY <1>1 DEF EndsWith
<1> QED BY <1>2, <1>3, <1>8, <1>10, <1>11, <1>12, <1>13, SMTT(30) DEF T, l, f, first, w

-----------------------------------------------------------------------------
(* One more line of output.                                                *)

\* The loops of analysis.py take the lines one by one.
Loops ==
  /\ parse_application_log(<<>>) = [error |-> FALSE, events |-> <<>>]
  /\ calculate_recovery_metrics(<<>>) = NoMetrics
  /\ \A s \in Seq(LogLine), x \in LogLine :
       /\ parse_application_log(Append(s, x)) = ParseLine(parse_application_log(s), x)
       /\ calculate_recovery_metrics(Append(s, x)) = Measure(calculate_recovery_metrics(s), x)

Parsed(s) == parse_application_log(s) = [error |-> FALSE, events |-> s]

\* A line that is an event, not earlier than the one before, is one more event.
LEMMA ParseAppend ==
  ASSUME Loops, NEW s \in Seq(LogLine), NEW x \in LogLine, Parsed(s),
         s # <<>> => s[Len(s)].timestamp_ms <= x.timestamp_ms
  PROVE  Parsed(Append(s, x))
<1>1. parse_application_log(Append(s, x)) = ParseLine(parse_application_log(s), x)
  BY ZenonT(60) DEF Loops
<1>2. ParseLine([error |-> FALSE, events |-> s], x) = [error |-> FALSE, events |-> Append(s, x)]
  <2> DEFINE l == s[Len(s)].timestamp_ms
  <2>1. s # <<>> => l <= x.timestamp_ms /\ l \in Nat
    <3>1. s # <<>> => s[Len(s)] \in LogLine
      OBVIOUS
    <3> QED BY <3>1 DEF LogLine
  <2>2. x.json = "object" /\ x.timestamp_ms \in Nat
    BY DEF LogLine
  <2> HIDE DEF l
  <2>3. ~(s # <<>> /\ x.timestamp_ms < l) /\ ~(x.timestamp_ms < 0)
    BY <2>1, <2>2
  <2>4. x.event # ""
    BY ZenonT(60) DEF LogLine
  <2> QED BY <2>2, <2>3, <2>4, ZenonT(60) DEF ParseLine, l
<1> QED BY <1>1, <1>2, ZenonT(60) DEF Parsed

\* One more event is one more of its name.
LEMMA EventCount ==
  ASSUME Counting, NEW s \in Seq(LogLine), NEW x \in LogLine, NEW name
  PROVE  /\ CountOf(s, name) \in Nat
         /\ CountOf(Append(s, x), name) = CountOf(s, name) + IF x.event = name THEN 1 ELSE 0
<1> DEFINE t == Append(s, x)
<1> DEFINE n == Len(s)
<1> DEFINE old == {i \in DOMAIN s : s[i].event = name}
<1> DEFINE new == {i \in DOMAIN t : t[i].event = name}
<1>0. CountOf(s, name) = Cardinality(old) /\ CountOf(t, name) = Cardinality(new)
  BY DEF CountOf
<1>1. /\ n \in Nat /\ DOMAIN s = 1..n /\ DOMAIN t = 1..(n + 1) /\ t[n + 1] = x
      /\ \A k \in 1..n : t[k] = s[k]
  BY OneMore
<1> HIDE DEF t, n
<1>2. old \in SUBSET (1..n)
  BY <1>1
<1>3. \A k \in 1..(n + 1) : k \in 1..n \/ k = n + 1
  BY <1>1
<1>4. new = old \/ new = old \cup {n + 1}
  BY <1>1, <1>3
<1>5. n + 1 \in new <=> x.event = name
  BY <1>1
<1> HIDE DEF old, new
<1>6. /\ Cardinality(old) \in Nat
      /\ Cardinality(new) = Cardinality(old) + IF n + 1 \in new THEN 1 ELSE 0
  BY <1>1, <1>2, <1>4, OneMoreCounted
<1> QED BY <1>0, <1>5, <1>6 DEF t

\* An event that is no retry and no recovery changes nothing.
LEMMA OtherLine ==
  ASSUME Counting, Loops, NEW s \in Seq(LogLine), NEW x \in LogLine, NEW m \in Metrics,
         m = calculate_recovery_metrics(s), x.event \notin {"READ_RETRY", "RECOVERY_SUCCESS"}
  PROVE  /\ calculate_recovery_metrics(Append(s, x)) = m
         /\ CountOf(Append(s, x), "READ_RETRY") = CountOf(s, "READ_RETRY")
         /\ CountOf(Append(s, x), "RECOVERY_SUCCESS") = CountOf(s, "RECOVERY_SUCCESS")
<1>1. calculate_recovery_metrics(Append(s, x)) = Measure(m, x)
  BY ZenonT(60) DEF Loops
<1>2. Measure(m, x) = m
  BY ZenonT(60) DEF Measure
<1>3. /\ CountOf(s, "READ_RETRY") \in Nat
      /\ CountOf(Append(s, x), "READ_RETRY") = CountOf(s, "READ_RETRY") + 0
  BY EventCount
<1>4. /\ CountOf(s, "RECOVERY_SUCCESS") \in Nat
      /\ CountOf(Append(s, x), "RECOVERY_SUCCESS") = CountOf(s, "RECOVERY_SUCCESS") + 0
  BY EventCount
<1> QED BY <1>1, <1>2, <1>3, <1>4

\* A retry is one more failure, and opens a window when none is open.
LEMMA RetryLine ==
  ASSUME Counting, Loops, NEW s \in Seq(LogLine), NEW x \in LogLine, NEW m \in Metrics,
         m = calculate_recovery_metrics(s), x.event = "READ_RETRY", x.errno = EIO
  PROVE  LET new == calculate_recovery_metrics(Append(s, x))
         IN  /\ new \in Metrics /\ new.eio = m.eio + 1 /\ new.active = m.active + 1
             /\ new.recoveries = m.recoveries
             /\ new.first = IF m.first = None THEN x.timestamp_ms ELSE m.first
             /\ CountOf(s, "READ_RETRY") \in Nat
             /\ CountOf(Append(s, x), "READ_RETRY") = CountOf(s, "READ_RETRY") + 1
             /\ CountOf(Append(s, x), "RECOVERY_SUCCESS") = CountOf(s, "RECOVERY_SUCCESS")
<1> DEFINE new == CountRetry(m, x)
<1>1. x.timestamp_ms \in Nat /\ x.n \in Nat /\ x.errno = 5
  BY DEF LogLine, EIO
<1>2. ~(x.errno < 0 \/ x.n < 0)
  BY <1>1
<1>3. /\ m.error = FALSE
      /\ m = [error |-> m.error, eio |-> m.eio, retries |-> m.retries, recoveries |-> m.recoveries,
              firstSeen |-> m.firstSeen, first |-> m.first, active |-> m.active]
      /\ m.eio \in Int /\ m.retries \in Int /\ m.recoveries \in Seq(Recovery)
      /\ m.firstSeen \in Int /\ m.first \in Int /\ m.active \in Int
  BY ZenonT(60) DEF Metrics
<1>4. calculate_recovery_metrics(Append(s, x)) = new
  <2>1. calculate_recovery_metrics(Append(s, x)) = Measure(m, x)
    BY ZenonT(60) DEF Loops
  <2>2. ~m.error
    BY ZenonT(60) DEF Metrics
  <2> QED BY <2>1, <2>2, ZenonT(60) DEF Measure
<1> DEFINE f == IF m.first = None THEN x.timestamp_ms ELSE m.first
<1> DEFINE g == IF m.firstSeen = None THEN x.timestamp_ms ELSE m.firstSeen
<1>5. new = [error |-> FALSE, eio |-> m.eio + 1, retries |-> m.retries + 1,
             recoveries |-> m.recoveries, firstSeen |-> g, first |-> f, active |-> m.active + 1]
  <2> DEFINE k == m.eio + IF x.errno = EIO THEN 1 ELSE 0
  <2>1. k = m.eio + 1
    OBVIOUS
  <2>2. new = [m EXCEPT !.eio = k, !.retries = m.retries + 1, !.active = m.active + 1,
                        !.firstSeen = g, !.first = f]
    BY <1>2, ZenonT(60) DEF CountRetry
  <2> HIDE DEF k, f, g, new
  <2>3. new = [error |-> m.error, eio |-> k, retries |-> m.retries + 1,
               recoveries |-> m.recoveries, firstSeen |-> g, first |-> f, active |-> m.active + 1]
    BY <1>3, <2>2, ZenonT(60)
  <2> QED BY <1>3, <2>1, <2>3, ZenonT(60)
<1>6. f \in Int /\ g \in Int /\ m.eio + 1 \in Int /\ m.retries + 1 \in Int /\ m.active + 1 \in Int
  BY <1>1, <1>3, SMTT(30)
<1>7. /\ CountOf(s, "READ_RETRY") \in Nat
      /\ CountOf(Append(s, x), "READ_RETRY") = CountOf(s, "READ_RETRY") + 1
  BY EventCount
<1>8. /\ CountOf(s, "RECOVERY_SUCCESS") \in Nat
      /\ CountOf(Append(s, x), "RECOVERY_SUCCESS") = CountOf(s, "RECOVERY_SUCCESS") + 0
  BY EventCount
<1>9. CountOf(Append(s, x), "RECOVERY_SUCCESS") = CountOf(s, "RECOVERY_SUCCESS")
  BY <1>8
<1> HIDE DEF new
<1>10. /\ new \in Metrics /\ new.eio = m.eio + 1 /\ new.active = m.active + 1
       /\ new.recoveries = m.recoveries /\ new.first = f
  <2> HIDE DEF f, g
  <2> QED BY <1>3, <1>5, <1>6, ZenonT(60) DEF Metrics
<1> QED BY <1>4, <1>7, <1>9, <1>10, ZenonT(60)

\* A recovery ends the window that is open.
LEMMA RecoveryLine ==
  ASSUME Counting, Loops, NEW s \in Seq(LogLine), NEW x \in LogLine, NEW m \in Metrics,
         m = calculate_recovery_metrics(s), x.event = "RECOVERY_SUCCESS", m.first # None
  PROVE  LET new == calculate_recovery_metrics(Append(s, x))
         IN  /\ new \in Metrics /\ new.eio = m.eio /\ new.active = 0 /\ new.first = None
             /\ new.recoveries = Append(m.recoveries, Window(m, x)) /\ Window(m, x) \in Recovery
             /\ CountOf(Append(s, x), "READ_RETRY") = CountOf(s, "READ_RETRY")
             /\ CountOf(s, "RECOVERY_SUCCESS") \in Nat
             /\ CountOf(Append(s, x), "RECOVERY_SUCCESS") = CountOf(s, "RECOVERY_SUCCESS") + 1
<1> DEFINE new == CloseWindow(m, x)
<1> DEFINE w == Window(m, x)
<1>1. x.timestamp_ms \in Nat /\ x.n \in Nat
  BY DEF LogLine
<1>2. ~(x.n < 0 \/ m.first = None)
  BY <1>1
<1>3. /\ m.error = FALSE
      /\ m = [error |-> m.error, eio |-> m.eio, retries |-> m.retries, recoveries |-> m.recoveries,
              firstSeen |-> m.firstSeen, first |-> m.first, active |-> m.active]
      /\ m.eio \in Int /\ m.retries \in Int /\ m.recoveries \in Seq(Recovery)
      /\ m.firstSeen \in Int /\ m.first \in Int /\ m.active \in Int
  BY ZenonT(60) DEF Metrics
<1>4. calculate_recovery_metrics(Append(s, x)) = new
  <2>1. calculate_recovery_metrics(Append(s, x)) = Measure(m, x)
    BY ZenonT(60) DEF Loops
  <2>2. ~m.error
    BY ZenonT(60) DEF Metrics
  <2> QED BY <2>1, <2>2, ZenonT(60) DEF Measure
<1>5. w \in Recovery
  <2>1. x.timestamp_ms - m.first \in Int /\ x.timestamp_ms \in Int /\ x.n \in Int
    BY <1>1, <1>3, SMTT(30)
  <2> QED BY <1>3, <2>1, ZenonT(60) DEF Window, Recovery
<1> HIDE DEF w
<1>6. new = [error |-> FALSE, eio |-> m.eio, retries |-> m.retries,
             recoveries |-> Append(m.recoveries, w), firstSeen |-> m.firstSeen, first |-> None,
             active |-> 0]
  <2>1. new = [m EXCEPT !.recoveries = Append(m.recoveries, w), !.first = None, !.active = 0]
    BY <1>2, ZenonT(60) DEF CloseWindow, w
  <2> DEFINE r == Append(m.recoveries, w)
  <2>2. new = [m EXCEPT !.recoveries = r, !.first = None, !.active = 0]
    BY <2>1
  <2> HIDE DEF new, r
  <2>3. new = [error |-> m.error, eio |-> m.eio, retries |-> m.retries, recoveries |-> r,
               firstSeen |-> m.firstSeen, first |-> None, active |-> 0]
    BY <1>3, <2>2, ZenonT(60)
  <2> QED BY <1>3, <2>3, ZenonT(60) DEF r
<1>7. Append(m.recoveries, w) \in Seq(Recovery) /\ None \in Int /\ 0 \in Int
  BY <1>3, <1>5 DEF None
<1>8. /\ CountOf(s, "READ_RETRY") \in Nat
      /\ CountOf(Append(s, x), "READ_RETRY") = CountOf(s, "READ_RETRY") + 0
  BY EventCount
<1>9. /\ CountOf(s, "RECOVERY_SUCCESS") \in Nat
      /\ CountOf(Append(s, x), "RECOVERY_SUCCESS") = CountOf(s, "RECOVERY_SUCCESS") + 1
  BY EventCount
<1>10. CountOf(Append(s, x), "READ_RETRY") = CountOf(s, "READ_RETRY")
  BY <1>8
<1> HIDE DEF new
<1>11. /\ new \in Metrics /\ new.eio = m.eio /\ new.active = 0 /\ new.first = None
       /\ new.recoveries = Append(m.recoveries, w)
  BY <1>3, <1>6, <1>7, ZenonT(60) DEF Metrics
<1> QED BY <1>4, <1>5, <1>9, <1>10, <1>11, ZenonT(60) DEF w

\* The elements of a longer sequence.
LEMMA RangeAppend ==
  ASSUME NEW S, NEW s \in Seq(S), NEW x \in S
  PROVE  Range(Append(s, x)) = Range(s) \cup {x} /\ Len(Append(s, x)) = Len(s) + 1
<1> DEFINE t == Append(s, x)
<1> DEFINE n == Len(s)
<1>1. /\ Len(t) = n + 1 /\ n \in Nat /\ DOMAIN s = 1..n /\ DOMAIN t = 1..(n + 1) /\ t[n + 1] = x
      /\ \A k \in 1..n : t[k] = s[k]
  BY OneMore
<1> HIDE DEF t, n
<1>2. \A k \in 1..(n + 1) : k \in 1..n \/ k = n + 1
  BY <1>1
<1>3. n + 1 \in 1..(n + 1) /\ \A k \in 1..n : k \in 1..(n + 1)
  BY <1>1
<1>4. Range(t) = Range(s) \cup {x}
  BY <1>1, <1>2, <1>3 DEF Range
<1> QED BY <1>1, <1>4 DEF t, n

\* Arithmetic of the counts.
LEMMA Counts ==
  /\ 0 - 0 = 0
  /\ \A k \in Nat : /\ k - 0 = k /\ (k + 1) - 0 = k + 1 /\ (k + 1) - 1 = k
                    /\ k + 1 # 0 /\ k # None /\ (k > 0 => k # 0)
BY DEF None

\* A function whose values on 1..n are in S is a sequence of S.
LEMMA SequenceOf ==
  ASSUME NEW S, NEW n \in Nat, NEW f, f = [k \in 1..n |-> f[k]], \A k \in 1..n : f[k] \in S
  PROVE  f \in Seq(S) /\ Len(f) = n
<1>1. f \in [1..n -> S]
  BY ZenonT(60)
<1> QED BY <1>1

\* The parts of the metrics.
LEMMA MetricsTypes ==
  ASSUME NEW m \in Metrics
  PROVE  m.eio \in Int /\ m.active \in Int /\ m.first \in Int /\ m.recoveries \in Seq(Recovery)
BY ZenonT(60) DEF Metrics

\* The steps of the monitor that read nothing, and what they log.
LEMMA AgreesOther ==
  ASSUME Counting, Loops, NEW s \in Seq(LogLine), NEW x \in LogLine, NEW R, NEW n, NEW lost,
         Agrees(calculate_recovery_metrics(s), s, R, n, lost),
         x.event \notin {"READ_RETRY", "RECOVERY_SUCCESS"}
  PROVE  Agrees(calculate_recovery_metrics(Append(s, x)), Append(s, x), R, n, lost)
<1> DEFINE m == calculate_recovery_metrics(s)
<1>1. m \in Metrics
  BY ZenonT(60) DEF Agrees
<1> HIDE DEF m
<1>2. /\ calculate_recovery_metrics(Append(s, x)) = m
      /\ CountOf(Append(s, x), "READ_RETRY") = CountOf(s, "READ_RETRY")
      /\ CountOf(Append(s, x), "RECOVERY_SUCCESS") = CountOf(s, "RECOVERY_SUCCESS")
  BY <1>1, OtherLine DEF m
<1>3. Agrees(m, s, R, n, lost)
  BY DEF m
<1> QED BY <1>2, <1>3, ZenonT(60) DEF Agrees

\* A read that fails and is retried.
LEMMA AgreesRetry ==
  ASSUME Counting, Loops, NEW s \in Seq(LogLine), NEW x \in LogLine, NEW R \in Seq(ReadResult), NEW r \in ReadResult,
         NEW n \in Nat, EndsWith(R, n), Agrees(calculate_recovery_metrics(s), s, R, n, 0),
         x.event = "READ_RETRY", x.errno = EIO, ~r.ok, r.ms = x.timestamp_ms
  PROVE  Agrees(calculate_recovery_metrics(Append(s, x)), Append(s, x), Append(R, r), n + 1, 0)
<1> DEFINE m == calculate_recovery_metrics(s)
<1> DEFINE new == calculate_recovery_metrics(Append(s, x))
<1> DEFINE T == Append(R, r)
<1> DEFINE F == Cardinality(FailedIn(R))
<1> DEFINE c == CountOf(s, "READ_RETRY")
<1>1. /\ m \in Metrics /\ m.eio \in Int /\ m.active \in Int /\ m.first \in Int
      /\ m.eio = F - 0 /\ m.active = n - 0
      /\ m.first = IF m.active = 0 THEN None ELSE R[Len(R) - n + 1].ms
      /\ Len(m.recoveries) = Cardinality(OutagesIn(R))
      /\ Range(m.recoveries) = WindowsIn(R)
      /\ c = m.eio /\ CountOf(s, "RECOVERY_SUCCESS") = Len(m.recoveries)
  <2>1. m \in Metrics
    BY ZenonT(60) DEF Agrees
  <2>2. m.eio \in Int /\ m.active \in Int /\ m.first \in Int /\ m.recoveries \in Seq(Recovery)
    BY <2>1, MetricsTypes, ZenonT(60)
  <2> QED BY <2>1, <2>2, ZenonT(60) DEF Agrees
<1>2. /\ new \in Metrics /\ new.eio = m.eio + 1 /\ new.active = m.active + 1
      /\ new.recoveries = m.recoveries
      /\ new.first = IF m.first = None THEN x.timestamp_ms ELSE m.first
      /\ c \in Nat /\ CountOf(Append(s, x), "READ_RETRY") = c + 1
      /\ CountOf(Append(s, x), "RECOVERY_SUCCESS") = CountOf(s, "RECOVERY_SUCCESS")
  BY <1>1, RetryLine, ZenonT(60)
<1>3. /\ F \in Nat /\ Cardinality(FailedIn(T)) = F + 1
      /\ OutagesIn(T) = OutagesIn(R) /\ WindowsIn(T) = WindowsIn(R)
      /\ T[Len(T) - (n + 1) + 1].ms = IF n = 0 THEN r.ms ELSE R[Len(R) - n + 1].ms
  BY ReadsFailure, ZenonT(60)
<1>4. n # 0 => R[Len(R) - n + 1].ms \in Nat
  <2>1. n <= Len(R) /\ Len(R) \in Nat
    BY DEF EndsWith
  <2>2. n # 0 => Len(R) - n + 1 \in 1..Len(R)
    BY <2>1
  <2>3. n # 0 => R[Len(R) - n + 1] \in ReadResult
    BY <2>2
  <2> QED BY <2>3, ZenonT(60) DEF ReadResult
<1> DEFINE q == R[Len(R) - n + 1].ms
<1> DEFINE u == T[Len(T) - (n + 1) + 1].ms
<1>5. m.first = (IF m.active = 0 THEN None ELSE q) /\ u = (IF n = 0 THEN r.ms ELSE q)
      /\ (n # 0 => q \in Nat)
  BY <1>1, <1>3, <1>4, ZenonT(60)
<1> HIDE DEF m, new, T, F, c, q, u
<1>6. new.eio = Cardinality(FailedIn(T)) - 0 /\ new.active = (n + 1) - 0 /\ c + 1 = new.eio
      /\ new.active # 0
  <2>1. new.eio = F + 1 /\ new.active = n + 1
    BY <1>1, <1>2, <1>3, Counts, ZenonT(60)
  <2>2. F + 1 = (F + 1) - 0 /\ n + 1 = (n + 1) - 0 /\ n + 1 # 0
    BY <1>3, Counts, ZenonT(60)
  <2> QED BY <1>1, <1>2, <1>3, <2>1, <2>2, ZenonT(60)
<1>7. new.first = u
  <2>1. n # 0 => q # None
    BY <1>5, Counts, ZenonT(60)
  <2>2. m.active = n
    BY <1>1, Counts, ZenonT(60)
  <2> QED BY <1>2, <1>5, <2>1, <2>2, ZenonT(60)
<1>8. new.first = IF new.active = 0 THEN None ELSE T[Len(T) - (n + 1) + 1].ms
  BY <1>6, <1>7, ZenonT(60) DEF u
<1>9. /\ Len(new.recoveries) = Cardinality(OutagesIn(T)) /\ Range(new.recoveries) = WindowsIn(T)
      /\ CountOf(Append(s, x), "RECOVERY_SUCCESS") = Len(new.recoveries)
  BY <1>1, <1>2, <1>3, ZenonT(60)
<1>10. CountOf(Append(s, x), "READ_RETRY") = new.eio
  BY <1>2, <1>6, ZenonT(60)
<1>11. Agrees(new, Append(s, x), T, n + 1, 0)
  BY <1>2, <1>6, <1>8, <1>9, <1>10, ZenonT(60) DEF Agrees
<1> QED BY <1>11, ZenonT(60) DEF new, T

\* A read that fails and ends the monitor.
LEMMA AgreesFailed ==
  ASSUME Counting, Loops, NEW s \in Seq(LogLine), NEW x \in LogLine, NEW R \in Seq(ReadResult), NEW r \in ReadResult,
         NEW n \in Nat, EndsWith(R, n), Agrees(calculate_recovery_metrics(s), s, R, n, 0),
         x.event = "READ_FAILED", ~r.ok
  PROVE  Agrees(calculate_recovery_metrics(Append(s, x)), Append(s, x), Append(R, r), n + 1, 1)
<1> DEFINE m == calculate_recovery_metrics(Append(s, x))
<1> DEFINE T == Append(R, r)
<1> DEFINE F == Cardinality(FailedIn(R))
<1>1. Agrees(m, Append(s, x), R, n, 0)
  BY AgreesOther
<1>2. /\ m \in Metrics /\ m.eio \in Int /\ m.active \in Int
      /\ m.eio = F - 0 /\ m.active = n - 0
      /\ m.first = IF m.active = 0 THEN None ELSE R[Len(R) - n + 1].ms
      /\ Len(m.recoveries) = Cardinality(OutagesIn(R))
      /\ Range(m.recoveries) = WindowsIn(R)
      /\ CountOf(Append(s, x), "READ_RETRY") = m.eio
      /\ CountOf(Append(s, x), "RECOVERY_SUCCESS") = Len(m.recoveries)
  <2>1. m \in Metrics
    BY <1>1, ZenonT(60) DEF Agrees
  <2>2. m.eio \in Int /\ m.active \in Int /\ m.first \in Int /\ m.recoveries \in Seq(Recovery)
    BY <2>1, MetricsTypes
  <2> QED BY <1>1, <2>1, <2>2, ZenonT(60) DEF Agrees
<1>3. /\ F \in Nat /\ Cardinality(FailedIn(T)) = F + 1
      /\ OutagesIn(T) = OutagesIn(R) /\ WindowsIn(T) = WindowsIn(R)
      /\ T[Len(T) - (n + 1) + 1].ms = IF n = 0 THEN r.ms ELSE R[Len(R) - n + 1].ms
  BY ReadsFailure, ZenonT(60)
<1> DEFINE q == R[Len(R) - n + 1].ms
<1> DEFINE u == T[Len(T) - (n + 1) + 1].ms
<1>4. m.first = (IF m.active = 0 THEN None ELSE q) /\ u = (IF n = 0 THEN r.ms ELSE q)
  BY <1>2, <1>3, ZenonT(60)
<1> HIDE DEF m, T, F, q, u
<1>5. m.eio = Cardinality(FailedIn(T)) - 1 /\ m.active = (n + 1) - 1 /\ m.active = n
  BY <1>2, <1>3, Counts, ZenonT(60)
<1>6. m.first = IF m.active = 0 THEN None ELSE u
  BY <1>4, <1>5, ZenonT(60)
<1>7. Agrees(m, Append(s, x), T, n + 1, 1)
  BY <1>2, <1>3, <1>5, <1>6, ZenonT(60) DEF Agrees, u
<1> QED BY <1>7 DEF m, T

\* The window that a success x closes after n failures.
Ended(R, n, x) ==
  [first |-> R[Len(R) - n + 1].ms, recovered |-> x.ms, latency |-> x.ms - R[Len(R) - n + 1].ms,
   observed |-> n, reported |-> n]

\* One more read that works, after a failure.
LEMMA SuccessEnds ==
  ASSUME Counting, NEW R \in Seq(ReadResult), NEW x \in ReadResult, x.ok, NEW n \in Nat,
         n > 0, EndsWith(R, n)
  PROVE  /\ Cardinality(FailedIn(Append(R, x))) = Cardinality(FailedIn(R))
         /\ Cardinality(OutagesIn(Append(R, x))) = Cardinality(OutagesIn(R)) + 1
         /\ WindowsIn(Append(R, x)) = WindowsIn(R) \cup {Ended(R, n, x)}
         /\ R[Len(R) - n + 1].ms \in Nat
BY ReadsSuccess, ZenonT(60) DEF Ended

\* A read that ends an outage.
LEMMA AgreesRecovered ==
  ASSUME Counting, Loops, NEW s \in Seq(LogLine), NEW x \in LogLine, NEW R \in Seq(ReadResult), NEW r \in ReadResult,
         NEW n \in Nat, n > 0, EndsWith(R, n), Agrees(calculate_recovery_metrics(s), s, R, n, 0),
         x.event = "RECOVERY_SUCCESS", x.n = n, r.ok, r.ms = x.timestamp_ms
  PROVE  Agrees(calculate_recovery_metrics(Append(s, x)), Append(s, x), Append(R, r), 0, 0)
<1> DEFINE m == calculate_recovery_metrics(s)
<1> DEFINE new == calculate_recovery_metrics(Append(s, x))
<1> DEFINE T == Append(R, r)
<1> DEFINE F == Cardinality(FailedIn(R))
<1> DEFINE q == R[Len(R) - n + 1].ms
<1> DEFINE c == CountOf(s, "RECOVERY_SUCCESS")
<1> DEFINE w == Window(m, x)
<1> DEFINE v == [first |-> q, recovered |-> r.ms, latency |-> r.ms - q, observed |-> n, reported |-> n]
<1>1. /\ m \in Metrics /\ m.eio \in Int /\ m.active \in Int /\ m.recoveries \in Seq(Recovery)
      /\ m.eio = F - 0 /\ m.active = n - 0
      /\ m.first = IF m.active = 0 THEN None ELSE q
      /\ Len(m.recoveries) = Cardinality(OutagesIn(R))
      /\ Range(m.recoveries) = WindowsIn(R)
      /\ CountOf(s, "READ_RETRY") = m.eio /\ c = Len(m.recoveries)
  <2>1. m \in Metrics
    BY ZenonT(60) DEF Agrees
  <2>2. m.eio \in Int /\ m.active \in Int /\ m.first \in Int /\ m.recoveries \in Seq(Recovery)
    BY <2>1, MetricsTypes, ZenonT(60)
  <2> QED BY <2>1, <2>2, ZenonT(60) DEF Agrees
<1>2. /\ Cardinality(FailedIn(T)) = F
      /\ n > 0 => /\ Cardinality(OutagesIn(T)) = Cardinality(OutagesIn(R)) + 1
                  /\ WindowsIn(T) = WindowsIn(R) \cup {v} /\ q \in Nat
  <2>1. /\ Cardinality(FailedIn(Append(R, r))) = Cardinality(FailedIn(R))
        /\ Cardinality(OutagesIn(Append(R, r))) = Cardinality(OutagesIn(R)) + 1
        /\ WindowsIn(Append(R, r)) = WindowsIn(R) \cup {Ended(R, n, r)}
        /\ R[Len(R) - n + 1].ms \in Nat
    BY SuccessEnds, ZenonT(60)
  <2>2. Ended(R, n, r) = v
    BY ZenonT(60) DEF Ended
  <2> QED BY <2>1, <2>2, ZenonT(60)
<1> HIDE DEF q
<1>3. m.active = n /\ m.first = q /\ m.first # None
  <2>1. m.active = n /\ n # 0
    BY <1>1, Counts, ZenonT(60)
  <2>2. q # None
    BY <1>2, Counts, ZenonT(60)
  <2> QED BY <1>1, <2>1, <2>2, ZenonT(60)
<1>4. /\ new \in Metrics /\ new.eio = m.eio /\ new.active = 0 /\ new.first = None
      /\ new.recoveries = Append(m.recoveries, w) /\ w \in Recovery
      /\ CountOf(Append(s, x), "READ_RETRY") = CountOf(s, "READ_RETRY")
      /\ c \in Nat /\ CountOf(Append(s, x), "RECOVERY_SUCCESS") = c + 1
  BY <1>1, <1>3, RecoveryLine, ZenonT(60)
<1>5. w = v
  BY <1>3, ZenonT(60) DEF Window
<1> HIDE DEF m, new, T, F, c, w, v
<1>6. Range(new.recoveries) = Range(m.recoveries) \cup {w} /\ Len(new.recoveries) = Len(m.recoveries) + 1
  <2>1. m.recoveries \in Seq(Recovery) /\ w \in Recovery /\ new.recoveries = Append(m.recoveries, w)
    BY <1>1, <1>4, ZenonT(60)
  <2>2. /\ Range(Append(m.recoveries, w)) = Range(m.recoveries) \cup {w}
        /\ Len(Append(m.recoveries, w)) = Len(m.recoveries) + 1
    BY <2>1, RangeAppend, ZenonT(60)
  <2> QED BY <2>1, <2>2, ZenonT(60)
<1>7. F \in Nat
  BY FailedAppend, ZenonT(60) DEF F
<1>8. new.eio = Cardinality(FailedIn(T)) - 0 /\ 0 = 0 - 0
  BY <1>1, <1>2, <1>4, Counts, ZenonT(60)
<1>9. /\ Len(new.recoveries) = Cardinality(OutagesIn(T)) /\ Range(new.recoveries) = WindowsIn(T)
      /\ CountOf(Append(s, x), "READ_RETRY") = new.eio
      /\ CountOf(Append(s, x), "RECOVERY_SUCCESS") = Len(new.recoveries)
  BY <1>1, <1>2, <1>4, <1>5, <1>6, ZenonT(60)
<1>10. Agrees(new, Append(s, x), T, 0, 0)
  BY <1>4, <1>8, <1>9, ZenonT(60) DEF Agrees
<1> QED BY <1>10, ZenonT(60) DEF new, T

\* A read that works with no outage before.
LEMMA AgreesSuccess ==
  ASSUME Counting, NEW s, NEW R \in Seq(ReadResult), NEW r \in ReadResult,
         EndsWith(R, 0), Agrees(calculate_recovery_metrics(s), s, R, 0, 0), r.ok
  PROVE  Agrees(calculate_recovery_metrics(s), s, Append(R, r), 0, 0)
<1> DEFINE m == calculate_recovery_metrics(s)
<1> DEFINE T == Append(R, r)
<1>1. Agrees(m, s, R, 0, 0)
  OBVIOUS
<1>2. /\ Cardinality(FailedIn(T)) = Cardinality(FailedIn(R))
      /\ OutagesIn(T) = OutagesIn(R) /\ WindowsIn(T) = WindowsIn(R)
  BY ReadsSuccess, ZenonT(60)
<1>3. m.active = 0 /\ m.first = None
  <2>1. m.active = 0 - 0 /\ m.first = IF m.active = 0 THEN None ELSE R[Len(R) - 0 + 1].ms
    BY <1>1, ZenonT(60) DEF Agrees
  <2> HIDE DEF m
  <2> QED BY <2>1
<1> HIDE DEF m, T
<1>4. 0 = 0 - 0
  OBVIOUS
<1> QED BY <1>1, <1>2, <1>3, <1>4, ZenonT(60) DEF Agrees, m, T

-----------------------------------------------------------------------------
(* The steps, by what they log and read.                                   *)

\* No read returned or failed with EIO.
NoRead == streak' = streak /\ (at' = "consume" => at = "consume")

Quiet ==
  /\ stdout' = stdout /\ NoRead
  /\ result' = result \/ (result = "running" /\ result' = "stopped")

Prints(e) ==
  /\ stdout' = Append(stdout, e) /\ NoRead /\ result = "running"
  /\ e.event \notin {"READ_RETRY", "RECOVERY_SUCCESS"}
  /\ \/ e.event # "READ_FAILED" /\ result' \in {"running", "limit", "disconnected"}
     \/ e.event = "READ_FAILED" /\ result' = "eintr"

Retries ==
  /\ stdout' = Append(stdout, Event("READ_RETRY", retries + 1))
  /\ streak' = streak + 1 /\ result = "running" /\ result' = "running"

Fails ==
  /\ stdout' = Append(stdout, Event("READ_FAILED", 0))
  /\ streak' = streak + 1 /\ result = "running" /\ result' = "eio"

Receives ==
  /\ IF retries > 0 THEN stdout' = Append(stdout, Event("RECOVERY_SUCCESS", retries))
     ELSE stdout' = stdout
  /\ streak' = 0 /\ at # "consume" /\ at' = "consume" /\ result = "running" /\ result' = "running"

\* What consume_input does.
LEMMA ConsumeKinds ==
  ASSUME TypeOK, consume_input PROVE Quiet \/ \E e \in Entry : Prints(e)
<1>1. at = "consume" /\ result = "running" /\ streak' = streak
  BY DEF consume_input, TypeOK
<1>2. NoRead
  BY <1>1 DEF NoRead
<1>3. CASE Head(batch) = "newline"
  <2> DEFINE e == Event(process_line(input), 0)
  <2>1. e \in Entry /\ e.event \in {"TEMPERATURE", "INVALID_INPUT"}
    BY VerdictType DEF Verdicts, Event, Entry
  <2>2. stdout' = Append(stdout, e) /\ result' \in {"running", "limit"}
    BY <1>1, <1>3 DEF consume_input, EndLine, Logged, Exit, NextChar
  <2> HIDE DEF e
  <2>3. Prints(e)
    BY <1>1, <1>2, <2>1, <2>2 DEF Prints
  <2> QED BY <2>1, <2>3
<1>4. CASE Head(batch) # "newline"
  <2> DEFINE e == Event("INPUT_TOO_LONG", 0)
  <2>1. e \in Entry /\ e.event = "INPUT_TOO_LONG"
    BY DEF Event, Entry
  <2>2. result' = result /\ (stdout' = Append(stdout, e) \/ stdout' = stdout)
    BY <1>4 DEF consume_input, AddChar, Logged, NextChar
  <2> HIDE DEF e
  <2>3. CASE stdout' = Append(stdout, e)
    <3>1. Prints(e)
      BY <1>1, <1>2, <2>1, <2>2, <2>3 DEF Prints
    <3> QED BY <2>1, <3>1
  <2>4. CASE stdout' = stdout
    BY <1>2, <2>2, <2>4 DEF Quiet
  <2> QED BY <2>2, <2>3, <2>4
<1> QED BY <1>3, <1>4

\* What a read that gets to the FIFO does.
LEMMA FifoKinds ==
  ASSUME TypeOK, NEW limit, ReadFifo(limit), at \in {"read", "delay"} PROVE Quiet \/ Receives
<1>1. result = "running"
  BY DEF TypeOK
<1>2. CASE queue = <<>>
  BY <1>1, <1>2 DEF ReadFifo, Quiet, NoRead
<1>3. CASE queue # <<>>
  <2>1. Received(min(limit, Len(queue)))
    BY <1>3 DEF ReadFifo
  <2> QED BY <1>1, <2>1 DEF Received, Receives, Logged
<1> QED BY <1>2, <1>3

\* What a read does.
LEMMA ReadKinds ==
  ASSUME TypeOK, Read
  PROVE  Quiet \/ (\E e \in Entry : Prints(e)) \/ Retries \/ Fails \/ Receives
<1>1. at = "read" /\ result = "running"
  BY DEF Read, TypeOK
<1>2. CASE ReadEio
  BY <1>1, <1>2 DEF ReadEio, Retries, Fails, Logged, Exit
<1>3. CASE ReadGone
  <2> DEFINE e == Event("DEVICE_DISCONNECTED", 0)
  <2>1. e \in Entry /\ e.event = "DEVICE_DISCONNECTED"
    BY DEF Event, Entry
  <2>2. stdout' = Append(stdout, e) /\ NoRead /\ result' = "disconnected"
    BY <1>3 DEF ReadGone, Logged, Exit, NoRead
  <2> HIDE DEF e
  <2>3. Prints(e)
    BY <1>1, <2>1, <2>2 DEF Prints
  <2> QED BY <2>1, <2>3
<1>4. CASE ReadDelay
  BY <1>4 DEF ReadDelay, Quiet, NoRead
<1>5. CASE \E limit : ReadFifo(limit)
  BY <1>1, <1>5, FifoKinds
<1> QED BY <1>2, <1>3, <1>4, <1>5 DEF Read

\* What a signal does.
LEMMA SignalKinds ==
  ASSUME TypeOK, Signal PROVE Quiet \/ \E e \in Entry : Prints(e)
<1>1. result = "running" /\ streak' = streak
  BY DEF Signal, TypeOK
<1>2. CASE at = "delay"
  <2> DEFINE e == Event("READ_FAILED", 0)
  <2>1. e \in Entry /\ e.event = "READ_FAILED"
    BY DEF Event, Entry
  <2>2. stdout' = Append(stdout, e) /\ NoRead /\ result' = "eintr"
    BY <1>1, <1>2 DEF Signal, Logged, Exit, NoRead
  <2> HIDE DEF e
  <2>3. Prints(e)
    BY <1>1, <2>1, <2>2 DEF Prints
  <2> QED BY <2>1, <2>3
<1>3. CASE at # "delay"
  BY <1>1, <1>3 DEF Signal, Quiet, NoRead
<1> QED BY <1>2, <1>3

\* Every step is of one of these kinds.
LEMMA Kinds ==
  ASSUME TypeOK, [Next]_vars
  PROVE  Quiet \/ (\E e \in Entry : Prints(e)) \/ Retries \/ Fails \/ Receives
<1>1. CASE UNCHANGED vars
  BY <1>1 DEF vars, Quiet, NoRead
<1>2. CASE Check
  BY <1>2 DEF Check, Exit, TypeOK, Quiet, NoRead
<1>3. CASE Poll \/ PollOver
  BY <1>3 DEF Poll, PollOver, Quiet, NoRead
<1>4. CASE ReadDelayed
  BY <1>4, FifoKinds DEF ReadDelayed
<1>5. CASE (\E c \in Chars : Write(c)) \/ Inject \/ Reset
  BY <1>5, ZenonT(60) DEF Write, Inject, Reset, monitor, Quiet, NoRead
<1> QED BY <1>1, <1>2, <1>3, <1>4, <1>5, ConsumeKinds, ReadKinds, SignalKinds DEF Next, Step

-----------------------------------------------------------------------------
(* The steps keep AnalysisInv.                                             *)

TextOf(out, when) == [i \in DOMAIN out |-> LineOf(out[i], when[i])]

\* The lines of the output.
LEMMA TextIs == Text = TextOf(stdout, stamps)
BY ZenonT(60) DEF Text, TextOf, LineOf

\* An entry is a line when it gets its time.
LEMMA LineType ==
  ASSUME NEW e \in Entry, NEW ms \in Nat PROVE LineOf(e, ms) \in LogLine
BY ZenonT(60) DEF Entry, LineOf, LogLine

\* One more entry is one more line, and not an earlier one.
LEMMA TextAppend ==
  ASSUME NEW out \in Seq(Entry), NEW when \in Seq(Nat), Len(when) = Len(out), NEW ms \in Nat,
         \A i \in DOMAIN when : when[i] <= ms, NEW e \in Entry
  PROVE  LET s == TextOf(out, when)
         IN  /\ s \in Seq(LogLine) /\ (s # <<>> => s[Len(s)].timestamp_ms <= ms)
             /\ TextOf(Append(out, e), Append(when, ms)) = Append(s, LineOf(e, ms))
<1> DEFINE n == Len(out)
<1> DEFINE s == TextOf(out, when)
<1> DEFINE O == Append(out, e)
<1> DEFINE W == Append(when, ms)
<1> DEFINE x == LineOf(e, ms)
<1>1. /\ n \in Nat /\ O[n + 1] = e /\ DOMAIN out = 1..n /\ DOMAIN O = 1..(n + 1)
      /\ \A k \in 1..n : O[k] = out[k]
  BY OneMore
<1>2. W[n + 1] = ms /\ DOMAIN when = 1..n /\ \A k \in 1..n : W[k] = when[k]
  BY OneMore
<1>3. \A k \in 1..n : out[k] \in Entry /\ when[k] \in Nat /\ when[k] <= ms
  BY <1>1, <1>2
<1> HIDE DEF n, O, W
<1>4. \A k \in 1..n : LineOf(out[k], when[k]) \in LogLine
  BY <1>3, LineType
<1>5. s = [i \in 1..n |-> LineOf(out[i], when[i])]
  BY <1>1, ZenonT(60) DEF TextOf
<1> HIDE DEF s, x
<1>6. s \in Seq(LogLine) /\ Len(s) = n /\ \A k \in 1..n : s[k] = LineOf(out[k], when[k])
  <2>1. \A k \in 1..n : s[k] = LineOf(out[k], when[k])
    BY <1>5, ZenonT(60)
  <2>2. s = [k \in 1..n |-> s[k]]
    BY <1>5, <2>1, ZenonT(60)
  <2>3. n \in Nat /\ \A k \in 1..n : s[k] \in LogLine
    BY <1>1, <1>4, <2>1, ZenonT(60)
  <2>4. s \in Seq(LogLine) /\ Len(s) = n
    BY <2>2, <2>3, SequenceOf, ZenonT(60)
  <2> QED BY <2>1, <2>4, ZenonT(60)
<1>7. s # <<>> => s[Len(s)].timestamp_ms <= ms
  <2>1. s # <<>> => n \in 1..n
    BY <1>1, <1>6
  <2>2. s # <<>> => s[n].timestamp_ms = when[n]
    BY <1>6, <2>1, SMTT(30) DEF LineOf
  <2> QED BY <1>3, <1>6, <2>1, <2>2, ZenonT(60)
<1>8. TextOf(O, W) = Append(s, x)
  <2>1. TextOf(O, W) = [i \in 1..(n + 1) |-> LineOf(O[i], W[i])]
    BY <1>1, ZenonT(60) DEF TextOf
  <2>2. \A k \in 1..(n + 1) : k \in 1..n \/ k = n + 1
    BY <1>1
  <2>3. LineOf(O[n + 1], W[n + 1]) = x
    BY <1>1, <1>2, ZenonT(60) DEF x
  <2>4. \A k \in 1..n : LineOf(O[k], W[k]) = s[k]
    BY <1>1, <1>2, <1>6, ZenonT(60)
  <2> DEFINE a == Append(s, x)
  <2>5. x \in LogLine
    BY LineType DEF x
  <2>6. /\ a \in Seq(LogLine) /\ Len(a) = n + 1 /\ a[n + 1] = x /\ DOMAIN a = 1..(n + 1)
        /\ \A k \in 1..n : a[k] = s[k]
    BY <1>6, <2>5, OneMore
  <2> HIDE DEF a
  <2>7. \A k \in 1..(n + 1) : LineOf(O[k], W[k]) = a[k]
    BY <2>2, <2>3, <2>4, <2>6, ZenonT(60)
  <2>8. a = [i \in 1..(n + 1) |-> a[i]]
    BY <2>6
  <2> QED BY <2>1, <2>7, <2>8, ZenonT(60) DEF a
<1> QED BY <1>6, <1>7, <1>8, ZenonT(60) DEF s, O, W, x

ReadFailedIn(out) == \E i \in DOMAIN out : out[i].event = "READ_FAILED"

\* A failure that is logged stays in the output.
LEMMA ReadFailedAppend ==
  ASSUME NEW out \in Seq(Entry), NEW e \in Entry
  PROVE  ReadFailedIn(Append(out, e)) <=> ReadFailedIn(out) \/ e.event = "READ_FAILED"
<1> DEFINE O == Append(out, e)
<1> DEFINE n == Len(out)
<1>1. /\ n \in Nat /\ O[n + 1] = e /\ DOMAIN out = 1..n /\ DOMAIN O = 1..(n + 1)
      /\ \A k \in 1..n : O[k] = out[k]
  BY OneMore
<1> HIDE DEF O, n
<1>2. \A k \in 1..(n + 1) : k \in 1..n \/ k = n + 1
  BY <1>1
<1>3. n + 1 \in 1..(n + 1) /\ \A k \in 1..n : k \in 1..(n + 1)
  BY <1>1
<1>4. ReadFailedIn(O) <=> ReadFailedIn(out) \/ e.event = "READ_FAILED"
  BY <1>1, <1>2, <1>3, ZenonT(60) DEF ReadFailedIn
<1> QED BY <1>4 DEF O

\* AnalysisInv by its parts.
LEMMA AnalysisParts ==
  AnalysisInv <=> /\ RetryInv /\ Stamps /\ EndsWith(reads, streak)
                  /\ Parsed(Text)
                  /\ Agrees(calculate_recovery_metrics(Text), Text, reads, streak, Lost)
                  /\ ReadFailedIn(stdout) <=> result \in {"eio", "eintr"}
BY ZenonT(60) DEF AnalysisInv, Parsed, ReadFailedIn

\* The types that the steps need.
LEMMA AnalysisTypes ==
  ASSUME AnalysisInv
  PROVE  /\ stdout \in Seq(Entry) /\ streak \in Nat /\ retries = streak /\ now \in Nat
         /\ stamps \in Seq(Nat) /\ Len(stamps) = Len(stdout) /\ reads \in Seq(ReadResult)
         /\ \A i \in DOMAIN stamps : stamps[i] <= now
BY ZenonT(60) DEF AnalysisInv, RetryInv, TypeOK, Counted, Stamps

\* What a step of the monitor adds to stamps and reads.
Records ==
  /\ stamps' = IF stdout' = stdout THEN stamps ELSE Append(stamps, now)
  /\ reads' = IF streak' > streak THEN Append(reads, [ok |-> FALSE, ms |-> now])
              ELSE IF at # "consume" /\ at' = "consume"
              THEN Append(reads, [ok |-> TRUE, ms |-> now]) ELSE reads
  /\ now' = now

\* An entry that is logged gets its time.
LEMMA LoggedStep ==
  ASSUME Loops, AnalysisInv, Records, NEW e \in Entry, stdout' = Append(stdout, e)
  PROVE  /\ Text \in Seq(LogLine) /\ LineOf(e, now) \in LogLine
         /\ Text' = Append(Text, LineOf(e, now)) /\ Parsed(Text')
         /\ stamps' \in Seq(Nat) /\ Len(stamps') = Len(stdout') /\ now' \in Nat
         /\ \A i \in DOMAIN stamps' : stamps'[i] <= now'
<1> DEFINE x == LineOf(e, now)
<1>1. /\ stdout \in Seq(Entry) /\ now \in Nat /\ stamps \in Seq(Nat) /\ Len(stamps) = Len(stdout)
      /\ \A i \in DOMAIN stamps : stamps[i] <= now
  BY AnalysisTypes
<1>2. Append(stdout, e) # stdout
  BY <1>1
<1>3. stamps' = Append(stamps, now) /\ now' = now
  BY <1>2 DEF Records
<1>4. /\ Text \in Seq(LogLine) /\ (Text # <<>> => Text[Len(Text)].timestamp_ms <= now)
      /\ TextOf(stdout', stamps') = Append(Text, x)
  BY <1>1, <1>3, TextIs, TextAppend, ZenonT(60)
<1>5. Text' = TextOf(stdout', stamps')
  BY ZenonT(60) DEF Text, TextOf, LineOf
<1>6. x \in LogLine /\ x.timestamp_ms = now
  BY <1>1, LineType, ZenonT(60) DEF LineOf
<1>7. Parsed(Text)
  BY AnalysisParts
<1> HIDE DEF x
<1>8. Parsed(Append(Text, x))
  BY <1>4, <1>6, <1>7, ParseAppend
<1>9. /\ stamps' \in Seq(Nat) /\ Len(stamps') = Len(stdout') /\ now' \in Nat
      /\ \A i \in DOMAIN stamps' : stamps'[i] <= now'
  BY <1>1, <1>3
<1> QED BY <1>4, <1>5, <1>6, <1>8, <1>9 DEF x

\* AnalysisInv after a step, from its parts.
LEMMA AnalysisAfter ==
  ASSUME RetryInv', now' \in Nat, stamps' \in Seq(Nat), Len(stamps') = Len(stdout'),
         reads' \in Seq(ReadResult), \A i \in DOMAIN stamps' : stamps'[i] <= now',
         EndsWith(reads', streak'), Parsed(Text'),
         Agrees(calculate_recovery_metrics(Text'), Text', reads', streak', Lost'),
         ReadFailedIn(stdout') <=> result' \in {"eio", "eintr"}
  PROVE  AnalysisInv'
BY ZenonT(60) DEF AnalysisInv, Stamps, Parsed, ReadFailedIn

\* A step that logs nothing and reads nothing.
LEMMA QuietStep ==
  ASSUME AnalysisInv, RetryInv', Quiet, stamps' = stamps, reads' = reads, now' \in {now, now + 1}
  PROVE  AnalysisInv'
<1>1. /\ stdout \in Seq(Entry) /\ streak \in Nat /\ now \in Nat
      /\ stamps \in Seq(Nat) /\ Len(stamps) = Len(stdout) /\ reads \in Seq(ReadResult)
      /\ \A i \in DOMAIN stamps : stamps[i] <= now
  BY AnalysisTypes
<1>2. stdout' = stdout /\ streak' = streak
  BY DEF Quiet, NoRead
<1>3. Text' = Text
  BY <1>2, ZenonT(60) DEF Text
<1>4. Lost' = Lost /\ (result' \in {"eio", "eintr"} <=> result \in {"eio", "eintr"})
  BY DEF Quiet, Lost
<1>5. now' \in Nat /\ \A i \in DOMAIN stamps : stamps[i] <= now'
  <2>1. \A i \in DOMAIN stamps : stamps[i] \in Nat
    BY <1>1
  <2> QED BY <1>1, <2>1
<1>6. /\ EndsWith(reads, streak) /\ Parsed(Text)
      /\ Agrees(calculate_recovery_metrics(Text), Text, reads, streak, Lost)
      /\ ReadFailedIn(stdout) <=> result \in {"eio", "eintr"}
  BY AnalysisParts
<1>7. /\ EndsWith(reads', streak') /\ Parsed(Text')
      /\ Agrees(calculate_recovery_metrics(Text'), Text', reads', streak', Lost')
  BY <1>2, <1>3, <1>4, <1>6, ZenonT(60)
<1>8. ReadFailedIn(stdout') <=> result' \in {"eio", "eintr"}
  BY <1>2, <1>4, <1>6, ZenonT(60)
<1> QED BY <1>1, <1>2, <1>5, <1>7, <1>8, AnalysisAfter

\* A step that logs something else than a retry or a recovery.
LEMMA PrintStep ==
  ASSUME Counting, Loops, AnalysisInv, RetryInv', Records, NEW e \in Entry, Prints(e) PROVE AnalysisInv'
<1> DEFINE x == LineOf(e, now)
<1>1. stdout \in Seq(Entry) /\ streak \in Nat /\ reads \in Seq(ReadResult)
  BY AnalysisTypes
<1>2. /\ stdout' = Append(stdout, e) /\ streak' = streak /\ (at' = "consume" => at = "consume")
      /\ result = "running" /\ e.event \notin {"READ_RETRY", "RECOVERY_SUCCESS"}
      /\ result' # "eio" /\ (result' = "eintr" <=> e.event = "READ_FAILED")
  BY DEF Prints, NoRead
<1>3. /\ Text \in Seq(LogLine) /\ x \in LogLine
      /\ Text' = Append(Text, x) /\ Parsed(Text')
      /\ stamps' \in Seq(Nat) /\ Len(stamps') = Len(stdout') /\ now' \in Nat
      /\ \A i \in DOMAIN stamps' : stamps'[i] <= now'
  BY <1>2, LoggedStep, ZenonT(60)
<1>4. ~(streak' > streak)
  BY <1>1, <1>2
<1>5. reads' = reads
  BY <1>2, <1>4, ZenonT(60) DEF Records
<1>6. Lost = 0 /\ Lost' = 0
  BY <1>2 DEF Lost
<1>7. /\ EndsWith(reads, streak)
      /\ Agrees(calculate_recovery_metrics(Text), Text, reads, streak, Lost)
      /\ ReadFailedIn(stdout) <=> result \in {"eio", "eintr"}
  BY AnalysisParts
<1>8. x.event = e.event
  BY DEF LineOf
<1> HIDE DEF x
<1>9. Agrees(calculate_recovery_metrics(Append(Text, x)), Append(Text, x), reads, streak, Lost)
  BY <1>2, <1>3, <1>7, <1>8, AgreesOther, ZenonT(60)
<1>10. ReadFailedIn(stdout') <=> result' \in {"eio", "eintr"}
  <2>1. ~ReadFailedIn(stdout)
    BY <1>2, <1>7
  <2>2. ReadFailedIn(stdout') <=> e.event = "READ_FAILED"
    BY <1>1, <1>2, <2>1, ReadFailedAppend
  <2> QED BY <1>2, <2>2
<1>11. /\ EndsWith(reads', streak')
       /\ Agrees(calculate_recovery_metrics(Text'), Text', reads', streak', Lost')
  BY <1>2, <1>3, <1>5, <1>6, <1>7, <1>9, ZenonT(60)
<1> QED BY <1>1, <1>3, <1>5, <1>10, <1>11, AnalysisAfter, ZenonT(60)

\* A read that fails with EIO.
LEMMA EioStep ==
  ASSUME Counting, Loops, AnalysisInv, RetryInv', Records, Retries \/ Fails PROVE AnalysisInv'
<1> DEFINE e == IF Retries THEN Event("READ_RETRY", retries + 1) ELSE Event("READ_FAILED", 0)
<1> DEFINE x == LineOf(e, now)
<1> DEFINE r == [ok |-> FALSE, ms |-> now]
<1>1. stdout \in Seq(Entry) /\ streak \in Nat /\ reads \in Seq(ReadResult) /\ retries \in Nat /\ now \in Nat
  BY AnalysisTypes
<1>2. /\ stdout' = Append(stdout, e) /\ streak' = streak + 1 /\ result = "running"
      /\ \/ e = Event("READ_RETRY", retries + 1) /\ result' = "running"
         \/ e = Event("READ_FAILED", 0) /\ result' = "eio"
  BY DEF Retries, Fails
<1>3. e \in Entry /\ e.event \in {"READ_RETRY", "READ_FAILED"}
      /\ (result' = "running" => e.event = "READ_RETRY") /\ (result' = "eio" => e.event = "READ_FAILED")
      /\ result' \in {"running", "eio"}
  <2>1. retries + 1 \in Nat /\ 0 \in Nat
    BY <1>1
  <2>2. Event("READ_RETRY", retries + 1) \in Entry /\ Event("READ_RETRY", retries + 1).event = "READ_RETRY"
    BY <2>1, ZenonT(60) DEF Event, Entry
  <2>3. Event("READ_FAILED", 0) \in Entry /\ Event("READ_FAILED", 0).event = "READ_FAILED"
    BY <2>1, ZenonT(60) DEF Event, Entry
  <2> HIDE DEF e
  <2>4. CASE e = Event("READ_RETRY", retries + 1) /\ result' = "running"
    BY <2>2, <2>4
  <2>5. CASE e = Event("READ_FAILED", 0) /\ result' = "eio"
    BY <2>3, <2>5
  <2> QED BY <1>2, <2>4, <2>5
<1> HIDE DEF e
<1>4. /\ Text \in Seq(LogLine) /\ x \in LogLine
      /\ Text' = Append(Text, x) /\ Parsed(Text')
      /\ stamps' \in Seq(Nat) /\ Len(stamps') = Len(stdout') /\ now' \in Nat
      /\ \A i \in DOMAIN stamps' : stamps'[i] <= now'
  BY <1>2, <1>3, LoggedStep, ZenonT(60)
<1>5. streak' > streak
  BY <1>1, <1>2
<1>6. reads' = Append(reads, r)
  BY <1>5, ZenonT(60) DEF Records
<1>7. r \in ReadResult /\ ~r.ok /\ r.ms = now
  BY <1>1 DEF ReadResult
<1>8. x.event = e.event /\ x.timestamp_ms = now /\ (e.event = "READ_RETRY" => x.errno = EIO)
  BY ZenonT(60) DEF LineOf
<1>9. Lost = 0
  BY <1>2 DEF Lost
<1>10. /\ EndsWith(reads, streak)
       /\ Agrees(calculate_recovery_metrics(Text), Text, reads, streak, 0)
       /\ ReadFailedIn(stdout) <=> result \in {"eio", "eintr"}
  BY <1>9, AnalysisParts
<1> HIDE DEF x, r
<1>11. EndsWith(reads', streak') /\ reads' \in Seq(ReadResult)
  <2>1. EndsWith(Append(reads, r), streak + 1)
    BY <1>1, <1>7, <1>10, ReadsFailure, ZenonT(60)
  <2>2. Append(reads, r) \in Seq(ReadResult)
    BY <1>1, <1>7
  <2> QED BY <1>2, <1>6, <2>1, <2>2, ZenonT(60)
<1>12. Agrees(calculate_recovery_metrics(Text'), Text', reads', streak', Lost')
  <2>1. CASE result' = "running"
    <3>1. Agrees(calculate_recovery_metrics(Append(Text, x)), Append(Text, x), Append(reads, r), streak + 1, 0)
      BY <1>1, <1>3, <1>4, <1>7, <1>8, <1>10, <2>1, AgreesRetry, ZenonT(60)
    <3>2. Lost' = 0
      BY <2>1 DEF Lost
    <3> QED BY <1>2, <1>4, <1>6, <3>1, <3>2, ZenonT(60)
  <2>2. CASE result' = "eio"
    <3>1. Agrees(calculate_recovery_metrics(Append(Text, x)), Append(Text, x), Append(reads, r), streak + 1, 1)
      BY <1>1, <1>3, <1>4, <1>7, <1>8, <1>10, <2>2, AgreesFailed, ZenonT(60)
    <3>2. Lost' = 1
      BY <2>2 DEF Lost
    <3> QED BY <1>2, <1>4, <1>6, <3>1, <3>2, ZenonT(60)
  <2> QED BY <1>3, <2>1, <2>2
<1>13. ReadFailedIn(stdout') <=> result' \in {"eio", "eintr"}
  <2>1. ~ReadFailedIn(stdout)
    BY <1>2, <1>10
  <2>2. ReadFailedIn(stdout') <=> e.event = "READ_FAILED"
    BY <1>1, <1>2, <1>3, <2>1, ReadFailedAppend
  <2> QED BY <1>3, <2>2
<1> QED BY <1>4, <1>11, <1>12, <1>13, AnalysisAfter

\* A read that works.
LEMMA ReceiveStep ==
  ASSUME Counting, Loops, AnalysisInv, RetryInv', Records, Receives PROVE AnalysisInv'
<1> DEFINE r == [ok |-> TRUE, ms |-> now]
<1>1. /\ stdout \in Seq(Entry) /\ streak \in Nat /\ reads \in Seq(ReadResult) /\ retries = streak
      /\ now \in Nat /\ stamps \in Seq(Nat) /\ Len(stamps) = Len(stdout)
      /\ \A i \in DOMAIN stamps : stamps[i] <= now
  BY AnalysisTypes
<1>2. ~(streak' > streak) /\ streak' = 0
  BY <1>1 DEF Receives
<1>3. reads' = Append(reads, r) /\ now' = now
  BY <1>2, ZenonT(60) DEF Records, Receives
<1>4. r \in ReadResult /\ r.ok /\ r.ms = now
  BY <1>1 DEF ReadResult
<1>5. result = "running" /\ result' = "running" /\ Lost = 0 /\ Lost' = 0
  BY DEF Receives, Lost
<1>6. /\ EndsWith(reads, streak) /\ Parsed(Text)
      /\ Agrees(calculate_recovery_metrics(Text), Text, reads, streak, 0)
      /\ ~ReadFailedIn(stdout)
  BY <1>5, AnalysisParts
<1> HIDE DEF r
<1>7. EndsWith(reads', streak') /\ reads' \in Seq(ReadResult)
  <2>1. EndsWith(Append(reads, r), 0)
    BY <1>1, <1>4, <1>6, ReadsSuccess, ZenonT(60)
  <2>2. Append(reads, r) \in Seq(ReadResult)
    BY <1>1, <1>4
  <2> QED BY <1>2, <1>3, <2>1, <2>2, ZenonT(60)
<1>8. CASE streak > 0
  <2> DEFINE e == Event("RECOVERY_SUCCESS", streak)
  <2> DEFINE x == LineOf(e, now)
  <2>1. stdout' = Append(stdout, e)
    BY <1>1, <1>8 DEF Receives
  <2>2. e \in Entry /\ e.event = "RECOVERY_SUCCESS" /\ e.n = streak
    BY <1>1, ZenonT(60) DEF Event, Entry
  <2> HIDE DEF e
  <2>3. /\ Text \in Seq(LogLine) /\ x \in LogLine
        /\ Text' = Append(Text, x) /\ Parsed(Text')
        /\ stamps' \in Seq(Nat) /\ Len(stamps') = Len(stdout') /\ now' \in Nat
        /\ \A i \in DOMAIN stamps' : stamps'[i] <= now'
    BY <2>1, <2>2, LoggedStep
  <2>4. x.event = "RECOVERY_SUCCESS" /\ x.timestamp_ms = now /\ x.n = streak
    BY <2>2, ZenonT(60) DEF LineOf
  <2> HIDE DEF x
  <2>5. Agrees(calculate_recovery_metrics(Append(Text, x)), Append(Text, x), Append(reads, r), 0, 0)
    BY <1>1, <1>4, <1>6, <1>8, <2>3, <2>4, AgreesRecovered, ZenonT(60)
  <2>6. Agrees(calculate_recovery_metrics(Text'), Text', reads', streak', Lost')
    BY <1>2, <1>3, <1>5, <2>3, <2>5, ZenonT(60)
  <2>7. ~ReadFailedIn(stdout')
    BY <1>1, <1>6, <2>1, <2>2, ReadFailedAppend
  <2>8. ReadFailedIn(stdout') <=> result' \in {"eio", "eintr"}
    BY <1>5, <2>7
  <2> QED BY <1>7, <2>3, <2>6, <2>8, AnalysisAfter
<1>9. CASE ~(streak > 0)
  <2>1. stdout' = stdout /\ streak = 0
    BY <1>1, <1>9 DEF Receives
  <2>2. stamps' = stamps
    BY <2>1 DEF Records
  <2>3. Text' = Text
    BY <2>1, <2>2, ZenonT(60) DEF Text
  <2>4. Agrees(calculate_recovery_metrics(Text), Text, Append(reads, r), 0, 0)
    BY <1>1, <1>4, <1>6, <2>1, AgreesSuccess
  <2>5. Parsed(Text') /\ Agrees(calculate_recovery_metrics(Text'), Text', reads', streak', Lost')
    BY <1>2, <1>3, <1>5, <1>6, <2>3, <2>4, ZenonT(60)
  <2>6. ReadFailedIn(stdout') <=> result' \in {"eio", "eintr"}
    <3>1. result' \notin {"eio", "eintr"}
      BY <1>5
    <3> QED BY <1>6, <2>1, <3>1, ZenonT(60)
  <2> QED BY <1>1, <1>3, <1>7, <2>1, <2>2, <2>5, <2>6, AnalysisAfter
<1> QED BY <1>8, <1>9

\* Every step of the monitor, of the device and of the clock keeps AnalysisInv.
LEMMA AnalysisStep ==
  ASSUME Counting, Loops, AnalysisInv, [MNext]_mvars PROVE AnalysisInv'
<1>1. [Next]_vars
  <2>1. "newline" \in Chars
    BY DEF Chars
  <2> QED BY <2>1, ZenonT(60) DEF MNext, mvars, Tick, Stamped, Next
<1>2. RetryInv /\ TypeOK
  BY ZenonT(60) DEF AnalysisInv, RetryInv
<1>3. RetryInv'
  BY <1>1, <1>2, RetryStep
<1>4. CASE UNCHANGED vars /\ stamps' = stamps /\ reads' = reads /\ now' \in {now, now + 1}
  <2>1. Quiet
    BY <1>4 DEF vars, Quiet, NoRead
  <2> QED BY <1>3, <1>4, <2>1, QuietStep
<1>5. CASE Records
  <2>1. CASE Quiet
    <3>1. streak \in Nat /\ streak' = streak /\ stdout' = stdout /\ (at' = "consume" => at = "consume")
      BY <2>1, AnalysisTypes DEF Quiet, NoRead
    <3>2. ~(streak' > streak)
      BY <3>1
    <3>3. stamps' = stamps /\ reads' = reads /\ now' = now
      BY <1>5, <3>1, <3>2, ZenonT(60) DEF Records
    <3> QED BY <1>3, <2>1, <3>3, QuietStep
  <2>2. CASE \E e \in Entry : Prints(e)
    BY <1>3, <1>5, <2>2, PrintStep
  <2>3. CASE Retries \/ Fails
    BY <1>3, <1>5, <2>3, EioStep
  <2>4. CASE Receives
    BY <1>3, <1>5, <2>4, ReceiveStep
  <2> QED BY <1>1, <1>2, <2>1, <2>2, <2>3, <2>4, Kinds
<1> QED BY <1>4, <1>5, ZenonT(60) DEF MNext, mvars, Tick, Stamped, Records

\* The metrics of no lines.
LEMMA NoLines ==
  ASSUME Counting, Loops
  PROVE  /\ Parsed(<<>>) /\ Agrees(calculate_recovery_metrics(<<>>), <<>>, <<>>, 0, 0)
         /\ EndsWith(<<>>, 0)
<1>1. parse_application_log(<<>>) = [error |-> FALSE, events |-> <<>>]
  BY ZenonT(60) DEF Loops
<1>2. calculate_recovery_metrics(<<>>) = NoMetrics
  BY ZenonT(60) DEF Loops
<1>3. NoMetrics \in Metrics /\ NoMetrics.eio = 0 /\ NoMetrics.active = 0 /\ NoMetrics.first = None
      /\ NoMetrics.recoveries = <<>>
  BY SMTT(30) DEF NoMetrics, Metrics, None
<1>4. FailedIn(<<>>) = {} /\ OutagesIn(<<>>) = {} /\ WindowsIn(<<>>) = {} /\ Range(<<>>) = {}
  BY DEF FailedIn, OutagesIn, WindowsIn, Range
<1>5. \A name : {i \in DOMAIN <<>> : <<>>[i].event = name} = {}
  OBVIOUS
<1>6. Cardinality({}) = 0
  BY DEF Counting
<1>7. \A name : CountOf(<<>>, name) = 0
  BY <1>5, <1>6 DEF CountOf
<1>8. Agrees(NoMetrics, <<>>, <<>>, 0, 0)
  <2>1. 0 = 0 - 0 /\ Len(<<>>) = 0
    OBVIOUS
  <2> QED BY <1>3, <1>4, <1>6, <1>7, <2>1, ZenonT(60) DEF Agrees
<1>9. EndsWith(<<>>, 0)
  BY DEF EndsWith
<1> QED BY <1>1, <1>2, <1>8, <1>9 DEF Parsed

\* main() has logged its start when the loop begins.
LEMMA AnalysisInit == ASSUME Counting, Loops, MInit PROVE AnalysisInv
<1> DEFINE e == Event("MONITOR_STARTED", 0)
<1> DEFINE x == LineOf(e, 0)
<1>1. /\ Init /\ now = 0 /\ stamps = <<0>> /\ reads = <<>> /\ stdout = <<e>> /\ streak = 0
      /\ result = "running"
  BY DEF MInit, Init
<1>2. RetryInv
  <2>1. TypeOK
    BY <1>1, TypeInit
  <2>2. retries = 0 /\ 0 <= MaxEioRetries
    BY <1>1, MonitorAssumption DEF Init
  <2> HIDE DEF e
  <2> QED BY <1>1, <2>1, <2>2 DEF RetryInv, Counted, RetryBudget
<1>3. e \in Entry /\ e.event = "MONITOR_STARTED"
  BY DEF Event, Entry
<1> HIDE DEF e
<1>4. x \in LogLine /\ x.event = "MONITOR_STARTED"
  BY <1>3, LineType, ZenonT(60) DEF LineOf
<1>5. Text = Append(<<>>, x)
  <2>1. TextOf(<<e>>, <<0>>) = <<x>>
    BY DEF TextOf
  <2>2. Append(<<>>, x) = <<x>>
    OBVIOUS
  <2> QED BY <1>1, <2>1, <2>2, TextIs
<1> HIDE DEF x
<1>6. <<>> \in Seq(LogLine) /\ <<>> \in Seq(ReadResult)
  OBVIOUS
<1>7. Parsed(Text)
  BY <1>4, <1>5, <1>6, NoLines, ParseAppend, ZenonT(60)
<1>8. Agrees(calculate_recovery_metrics(Text), Text, <<>>, 0, 0)
  BY <1>4, <1>5, <1>6, NoLines, AgreesOther, ZenonT(60)
<1>9. Lost = 0
  BY <1>1 DEF Lost
<1>10. Stamps
  BY <1>1, <1>6 DEF Stamps
<1>11. ~ReadFailedIn(stdout) /\ result \notin {"eio", "eintr"}
  BY <1>1, <1>3 DEF ReadFailedIn
<1>12. EndsWith(reads, streak) /\ Agrees(calculate_recovery_metrics(Text), Text, reads, streak, Lost)
  BY <1>1, <1>8, <1>9, NoLines, ZenonT(60)
<1> QED BY <1>2, <1>7, <1>10, <1>11, <1>12, AnalysisParts, ZenonT(60)

-----------------------------------------------------------------------------
(* What the report says.                                                   *)

\* What AnalysisInv says of the metrics.
LEMMA MetricsAre ==
  ASSUME Counting, AnalysisInv
  PROVE  LET m == calculate_recovery_metrics(Text)
         IN  /\ parse_application_log(Text) = [error |-> FALSE, events |-> Text]
             /\ ~m.error /\ m.recoveries \in Seq(Recovery)
             /\ m.eio = Cardinality(Failed) - Lost
             /\ Len(m.recoveries) = Cardinality(Outages)
             /\ Range(m.recoveries) = {WindowOf(reads, o) : o \in Outages}
             /\ CountOf(Text, "READ_RETRY") = m.eio
             /\ CountOf(Text, "RECOVERY_SUCCESS") = Cardinality(Outages)
             /\ Cardinality(Failed) \in Nat
<1> DEFINE m == calculate_recovery_metrics(Text)
<1>1. Outages = OutagesIn(reads) /\ Failed = FailedIn(reads)
  BY ZenonT(60) DEF Outages, OutagesIn, Failed, FailedIn
<1>2. reads \in Seq(ReadResult)
  BY AnalysisTypes
<1>3. Agrees(m, Text, reads, streak, Lost) /\ Parsed(Text)
  BY AnalysisParts
<1>4. /\ m \in Metrics /\ m.recoveries \in Seq(Recovery)
      /\ m.eio = Cardinality(FailedIn(reads)) - Lost
      /\ Len(m.recoveries) = Cardinality(OutagesIn(reads))
      /\ Range(m.recoveries) = WindowsIn(reads)
      /\ CountOf(Text, "READ_RETRY") = m.eio
      /\ CountOf(Text, "RECOVERY_SUCCESS") = Len(m.recoveries)
  <2>1. m \in Metrics
    BY <1>3, ZenonT(60) DEF Agrees
  <2>2. m.eio \in Int /\ m.active \in Int /\ m.first \in Int /\ m.recoveries \in Seq(Recovery)
    BY <2>1, MetricsTypes
  <2> QED BY <1>3, <2>1, <2>2, ZenonT(60) DEF Agrees
<1>5. Cardinality(FailedIn(reads)) \in Nat
  <2>1. [ok |-> TRUE, ms |-> 0] \in ReadResult
    BY DEF ReadResult
  <2> QED BY <1>2, <2>1, FailedAppend
<1> HIDE DEF m
<1>6. ~m.error
  BY <1>4, ZenonT(60) DEF Metrics
<1> QED BY <1>1, <1>3, <1>4, <1>5, <1>6, ZenonT(60) DEF Parsed, WindowsIn, m

\* An assertion on the number of events of a name.
LEMMA CountAssertion ==
  ASSUME NEW d, NEW events_, d.type = "event_count", "within_ms" \notin DOMAIN d
  PROVE  evaluate_event_assertion(events_, d) <=> CountOf(events_, d.event) = d.count
BY ZenonT(60) DEF evaluate_event_assertion, CountOf

\* The three assertions.
LEMMA AssertionsHold ==
  ASSUME NEW text, NEW m, NEW res
  PROVE  (\A i \in DOMAIN Assertions : Holds(Assertions[i], text, text, m, res)) <=>
           /\ CountOf(text, "READ_RETRY") = Expected
           /\ CountOf(text, "RECOVERY_SUCCESS") = 1 /\ evaluate_recovery_latency(m, MaxLatency)
           /\ Mentions(text, "RECOVERY_SUCCESS") /\ ~Mentions(text, "READ_FAILED")
<1> DEFINE a == [type |-> "event_count", event |-> "READ_RETRY", count |-> Expected]
<1> DEFINE b == [type |-> "event_count", event |-> "RECOVERY_SUCCESS", count |-> 1,
                 max_latency_ms |-> MaxLatency]
<1> DEFINE c == [type |-> "stdout", contains |-> "RECOVERY_SUCCESS", not_contains |-> "READ_FAILED"]
<1>1. Assertions = <<a, b, c>>
  BY DEF Assertions
<1>2. /\ a.type = "event_count" /\ a.event = "READ_RETRY" /\ a.count = Expected
      /\ DOMAIN a = {"type", "event", "count"}
  BY ZenonT(60)
<1>3. /\ b.type = "event_count" /\ b.event = "RECOVERY_SUCCESS" /\ b.count = 1
      /\ b.max_latency_ms = MaxLatency /\ DOMAIN b = {"type", "event", "count", "max_latency_ms"}
  BY ZenonT(60)
<1>4. /\ c.type = "stdout" /\ c.contains = "RECOVERY_SUCCESS" /\ c.not_contains = "READ_FAILED"
      /\ DOMAIN c = {"type", "contains", "not_contains"}
  BY ZenonT(60)
<1> HIDE DEF a, b, c
<1>5. Holds(a, text, text, m, res) <=> CountOf(text, "READ_RETRY") = Expected
  <2>1. "within_ms" \notin DOMAIN a /\ "max_latency_ms" \notin DOMAIN a
    BY <1>2
  <2>2. evaluate_event_assertion(text, a) <=> CountOf(text, "READ_RETRY") = Expected
    BY <1>2, <2>1, CountAssertion
  <2> QED BY <1>2, <2>1, <2>2, ZenonT(60) DEF Holds
<1>6. Holds(b, text, text, m, res) <=>
        CountOf(text, "RECOVERY_SUCCESS") = 1 /\ evaluate_recovery_latency(m, MaxLatency)
  <2>1. "within_ms" \notin DOMAIN b /\ "max_latency_ms" \in DOMAIN b
    BY <1>3
  <2>2. evaluate_event_assertion(text, b) <=> CountOf(text, "RECOVERY_SUCCESS") = 1
    BY <1>3, <2>1, CountAssertion
  <2> QED BY <1>3, <2>1, <2>2, ZenonT(60) DEF Holds
<1>7. Holds(c, text, text, m, res) <=>
        Mentions(text, "RECOVERY_SUCCESS") /\ ~Mentions(text, "READ_FAILED")
  <2>1. "max_latency_ms" \notin DOMAIN c /\ "contains" \in DOMAIN c /\ "not_contains" \in DOMAIN c
    BY <1>4
  <2>2. evaluate_stdout_assertion(text, c) <=>
          Mentions(text, "RECOVERY_SUCCESS") /\ ~Mentions(text, "READ_FAILED")
    BY <1>4, <2>1, ZenonT(60) DEF evaluate_stdout_assertion
  <2> QED BY <1>4, <2>1, <2>2, ZenonT(60) DEF Holds
<1>8. /\ DOMAIN Assertions = {1, 2, 3} /\ Assertions[1] = a /\ Assertions[2] = b
      /\ Assertions[3] = c
  BY <1>1
<1> QED BY <1>5, <1>6, <1>7, <1>8, ZenonT(60)

\* No assertion needs the kernel log.
LEMMA NoKernelLog == \A i \in DOMAIN Assertions : Assertions[i].type # "kernel_warnings"
BY SMTT(30) DEF Assertions

\* The verdict, with what does not apply left out.
LEMMA StatusIs ==
  ASSUME Counting, AnalysisInv
  PROVE  report_status(Assertions, Text, Result) = "PASS" <=>
           /\ \A i \in DOMAIN Assertions :
                Holds(Assertions[i], Text, Text, calculate_recovery_metrics(Text), Result)
           /\ result \notin {"eio", "eintr"}
<1>1. parse_application_log(Text) = [error |-> FALSE, events |-> Text]
      /\ ~calculate_recovery_metrics(Text).error
  BY MetricsAre, ZenonT(60)
<1>2. parse_application_log(Text).error = FALSE /\ parse_application_log(Text).events = Text
  BY <1>1
<1>3. ~Result.timed_out /\ (Result.exit_code = 0 <=> result \notin {"eio", "eintr"})
  BY DEF Result
<1>4. ~ \E i \in DOMAIN Assertions : Assertions[i].type = "kernel_warnings"
  BY NoKernelLog
<1> QED BY <1>1, <1>2, <1>3, <1>4, ZenonT(60) DEF report_status

\* The metrics of the report are what the device did.
LEMMA MetricsFollow == ASSUME Counting, AnalysisInv PROVE MetricsTruthful
<1> DEFINE m == calculate_recovery_metrics(Text)
<1>1. /\ parse_application_log(Text) = [error |-> FALSE, events |-> Text]
      /\ ~m.error
      /\ m.eio = Cardinality(Failed) - Lost
      /\ Len(m.recoveries) = Cardinality(Outages)
      /\ Range(m.recoveries) = {WindowOf(reads, o) : o \in Outages}
  BY MetricsAre, ZenonT(60)
<1>2. /\ ~parse_application_log(Text).error /\ parse_application_log(Text).events = Text
  BY <1>1
<1> QED BY <1>1, <1>2, ZenonT(60) DEF MetricsTruthful, WindowOf, Lost

\* The report passes exactly the runs it should.
LEMMA VerdictFollows == ASSUME Counting, AnalysisInv PROVE VerdictSound
<1> DEFINE m == calculate_recovery_metrics(Text)
<1> DEFINE n == Cardinality(Outages)
<1>1. /\ m.recoveries \in Seq(Recovery) /\ m.eio = Cardinality(Failed) - Lost
      /\ Len(m.recoveries) = n
      /\ Range(m.recoveries) = {WindowOf(reads, o) : o \in Outages}
      /\ CountOf(Text, "READ_RETRY") = m.eio /\ CountOf(Text, "RECOVERY_SUCCESS") = n
      /\ Cardinality(Failed) \in Nat
  BY MetricsAre, ZenonT(60)
<1>2. report_status(Assertions, Text, Result) = "PASS" <=>
        /\ CountOf(Text, "READ_RETRY") = Expected
        /\ CountOf(Text, "RECOVERY_SUCCESS") = 1 /\ evaluate_recovery_latency(m, MaxLatency)
        /\ Mentions(Text, "RECOVERY_SUCCESS") /\ ~Mentions(Text, "READ_FAILED")
        /\ result \notin {"eio", "eintr"}
  <2>1. (\A i \in DOMAIN Assertions : Holds(Assertions[i], Text, Text, m, Result)) <=>
          /\ CountOf(Text, "READ_RETRY") = Expected
          /\ CountOf(Text, "RECOVERY_SUCCESS") = 1 /\ evaluate_recovery_latency(m, MaxLatency)
          /\ Mentions(Text, "RECOVERY_SUCCESS") /\ ~Mentions(Text, "READ_FAILED")
    BY AssertionsHold
  <2>2. report_status(Assertions, Text, Result) = "PASS" <=>
          /\ \A i \in DOMAIN Assertions : Holds(Assertions[i], Text, Text, m, Result)
          /\ result \notin {"eio", "eintr"}
    BY StatusIs
  <2> HIDE DEF m
  <2> QED BY <2>1, <2>2, ZenonT(60)
<1> HIDE DEF m
<1>3. result \notin {"eio", "eintr"} => CountOf(Text, "READ_RETRY") = Cardinality(Failed)
  <2>1. result \notin {"eio", "eintr"} => Lost = 0
    BY DEF Lost
  <2> QED BY <1>1, <2>1
<1>4. Mentions(Text, "READ_FAILED") <=> result \in {"eio", "eintr"}
  <2>1. DOMAIN Text = DOMAIN stdout /\ \A i \in DOMAIN stdout : Text[i].event = stdout[i].event
    BY ZenonT(60) DEF Text
  <2>2. ReadFailedIn(stdout) <=> result \in {"eio", "eintr"}
    BY AnalysisParts
  <2> QED BY <2>1, <2>2, ZenonT(60) DEF Mentions, ReadFailedIn
<1>5. n = 1 => Mentions(Text, "RECOVERY_SUCCESS")
  <2>1. Cardinality({}) = 0
    BY DEF Counting
  <2>2. n = 1 => {i \in DOMAIN Text : Text[i].event = "RECOVERY_SUCCESS"} # {}
    <3> HIDE DEF n
    <3>1. ASSUME {i \in DOMAIN Text : Text[i].event = "RECOVERY_SUCCESS"} = {} PROVE n = 0
      BY <1>1, <2>1, <3>1, ZenonT(60) DEF CountOf
    <3> QED BY <3>1
  <2> QED BY <2>2, ZenonT(60) DEF Mentions
<1>6. n = 1 => m.recoveries # <<>>
  <2>1. Len(<<>>) = 0 /\ 0 # 1
    OBVIOUS
  <2> QED BY <1>1, <2>1, ZenonT(60)
<1>7. (\A i \in DOMAIN m.recoveries : m.recoveries[i].latency <= MaxLatency) <=>
        \A o \in Outages : reads[o[2]].ms - reads[o[1]].ms <= MaxLatency
  <2>1. (\A i \in DOMAIN m.recoveries : m.recoveries[i].latency <= MaxLatency) <=>
          \A w \in Range(m.recoveries) : w.latency <= MaxLatency
    BY ZenonT(60) DEF Range
  <2>2. \A o \in Outages : WindowOf(reads, o).latency = reads[o[2]].ms - reads[o[1]].ms
    BY ZenonT(60) DEF WindowOf
  <2> QED BY <1>1, <2>1, <2>2, ZenonT(60)
<1> HIDE DEF n
<1>8. n = 1 => (evaluate_recovery_latency(m, MaxLatency) <=>
                  \A o \in Outages : reads[o[2]].ms - reads[o[1]].ms <= MaxLatency)
  BY <1>6, <1>7, ZenonT(60) DEF evaluate_recovery_latency
<1>9. report_status(Assertions, Text, Result) = "PASS" <=>
        /\ Cardinality(Failed) = Expected /\ n = 1
        /\ \A o \in Outages : reads[o[2]].ms - reads[o[1]].ms <= MaxLatency
        /\ result \notin {"eio", "eintr"}
  BY <1>1, <1>2, <1>3, <1>4, <1>5, <1>8, ZenonT(60)
<1> QED BY <1>9, ZenonT(60) DEF VerdictSound, n

-----------------------------------------------------------------------------
(* The loops of analysis.py, and the theorems.                             *)

Parse == INSTANCE FoldProofs WITH Op <- ParseLine, Base <- [error |-> FALSE, events |-> <<>>]

\* The loop of parse_application_log, as FoldProofs has it.
LEMMA ParseLoop ==
  ASSUME NEW s
  PROVE  parse_application_log(s) = Parse!Fold(s)
BY ZenonT(60) DEF parse_application_log, Parse!Fold

Metric == INSTANCE FoldProofs WITH Op <- Measure, Base <- NoMetrics

\* The loop of calculate_recovery_metrics, as FoldProofs has it.
LEMMA MeasureLoop ==
  ASSUME NEW s PROVE calculate_recovery_metrics(s) = Metric!Fold(s)
BY ZenonT(60) DEF calculate_recovery_metrics, Metric!Fold

\* The loops take the lines one by one: FoldProofs, for their bodies.
LEMMA LoopsHold == Loops
<1>1. parse_application_log(<<>>) = [error |-> FALSE, events |-> <<>>]
  BY Parse!FoldEmpty, ParseLoop, ZenonT(60)
<1>2. calculate_recovery_metrics(<<>>) = NoMetrics
  BY Metric!FoldEmpty, MeasureLoop
<1>3. ASSUME NEW s \in Seq(LogLine), NEW x \in LogLine
      PROVE  parse_application_log(Append(s, x)) = ParseLine(parse_application_log(s), x)
  BY Parse!FoldAppend, ParseLoop, ZenonT(60)
<1>4. ASSUME NEW s \in Seq(LogLine), NEW x \in LogLine
      PROVE  calculate_recovery_metrics(Append(s, x)) = Measure(calculate_recovery_metrics(s), x)
  BY Metric!FoldAppend, MeasureLoop, ZenonT(60)
<1> QED BY <1>1, <1>2, <1>3, <1>4, ZenonT(60) DEF Loops

INSTANCE FiniteSetTheorems

\* The library's theorems on finite sets.
LEMMA CountingHolds == Counting
<1>1. Cardinality({}) = 0 /\ \A n \in Nat : IsFiniteSet(1..n)
  BY FS_EmptySet, FS_Interval, SMTT(30)
<1>2. \A S : IsFiniteSet(S) => Cardinality(S) \in Nat /\ \A T \in SUBSET S : IsFiniteSet(T)
  BY FS_CardinalityType, FS_Subset, ZenonT(60)
<1>3. \A S, x : IsFiniteSet(S) /\ x \notin S => Cardinality(S \cup {x}) = Cardinality(S) + 1
  BY FS_AddElement, ZenonT(60)
<1>4. \A S, T : IsFiniteSet(S) /\ IsFiniteSet(T) => IsFiniteSet(S \X T)
  BY FS_Product, ZenonT(60)
<1> QED BY <1>1, <1>2, <1>3, <1>4, ZenonT(60) DEF Counting

\* However the reads cut the stream, every line that fits the buffer gets the
\* verdict of the whole line, in order.
THEOREM LinesReassembled == Spec => []LinesFaithful
<1>1. LinesInv => LinesFaithful
  BY ZenonT(60) DEF LinesInv
<1>2. ASSUME Init PROVE LinesInv
  BY <1>2, CountingHolds, LinesInit, ZenonT(60)
<1>3. ASSUME LinesInv, [Next]_vars PROVE LinesInv'
  BY <1>3, CountingHolds, LinesStep, ZenonT(60)
<1> QED BY <1>1, <1>2, <1>3, PTL DEF Spec

\* The event limit is exact.
THEOREM LimitKept == Spec => []LimitExact
<1>1. LinesInv => LimitExact
  BY ZenonT(60) DEF LinesInv
<1>2. ASSUME Init PROVE LinesInv
  BY <1>2, CountingHolds, LinesInit, ZenonT(60)
<1>3. ASSUME LinesInv, [Next]_vars PROVE LinesInv'
  BY <1>3, CountingHolds, LinesStep, ZenonT(60)
<1> QED BY <1>1, <1>2, <1>3, PTL DEF Spec

\* The output tells what the device did, at every moment: its lines parse, and
\* the metrics agree with the results of read() up to the failure that ends it.
THEOREM AnalysisInvariant == MSpec => []AnalysisInv
<1>1. ASSUME MInit PROVE AnalysisInv
  BY <1>1, CountingHolds, LoopsHold, AnalysisInit
<1>2. ASSUME AnalysisInv, [MNext]_mvars PROVE AnalysisInv'
  BY <1>2, CountingHolds, LoopsHold, AnalysisStep, ZenonT(60)
<1> QED BY <1>1, <1>2, PTL DEF MSpec

\* The analysis of the output never fails, and the metrics of the report are what
\* the device did.
THEOREM MetricsCorrect == MSpec => []MetricsTruthful
<1>1. ASSUME AnalysisInv PROVE MetricsTruthful
  BY <1>1, CountingHolds, MetricsFollow
<1> QED BY <1>1, AnalysisInvariant, PTL

\* The report passes exactly the runs in which the device failed as expected, one
\* outage ended in time and the monitor did not end as a failure.
THEOREM VerdictsCorrect == MSpec => []VerdictSound
<1>1. ASSUME AnalysisInv PROVE VerdictSound
  BY <1>1, CountingHolds, VerdictFollows, ZenonT(60)
<1> QED BY <1>1, AnalysisInvariant, PTL
=============================================================================

---------------------------- MODULE VTempMonitor ----------------------------
(***************************************************************************)
(* The sample client src/examples/vtemp_monitor.c on a device it polls and *)
(* reads without blocking.  The device is the atomic one of VDevSpec, cut  *)
(* down to what one reader can tell: a queue of characters and a fault.    *)
(* A line is a number when it holds digits and nothing else.               *)
(***************************************************************************)
EXTENDS Integers, Sequences, FiniteSets

CONSTANTS
  PendingBytes,   \* MAX_PENDING_BYTES, the size of the line buffer
  ReadBytes,      \* the size of read_buffer
  MaxEioRetries,  \* MAX_EIO_RETRIES
  MaxEvents,      \* --max-events; 0 is no limit
  PartialBytes,   \* the limit of a partial-read fault
  MaxRepeat,      \* bound: the repeat count of an injected EIO fault
  MaxChars        \* bound: how many characters are ever written

ASSUME MonitorAssumption ==
  /\ PendingBytes \in Nat \ {0} /\ ReadBytes \in Nat \ {0}
  /\ PartialBytes \in Nat \ {0}
  /\ MaxEioRetries \in Nat /\ MaxEvents \in Nat
  /\ MaxRepeat \in Nat /\ MaxChars \in Nat

Chars == {"digit", "other", "newline"}

VARIABLES
  queue, fault,   \* the device
  at,             \* where main() is
  stop,           \* stop_requested
  batch,          \* what is left to parse of the characters the last read returned
  input,          \* the pending line
  retries,        \* eio_retries
  events,         \* event_count
  result,         \* what main() returned, and why
  stdout,         \* the events logged; n is the retry, or the number of retries
  log,            \* history: what was logged at the end of each line
  lines, line,    \* history: the lines the parser went through, and the one it is in
  streak,         \* history: EIO results since the last read that succeeded
  written         \* how many characters were written

device == <<queue, fault>>
parser == <<input, events, log, lines, line>>
vars == <<queue, fault, at, stop, batch, input, retries, events, result, stdout,
          log, lines, line, streak, written>>

NoFault == [type |-> "NONE", left |-> 0]

Event(name, n) == [event |-> name, n |-> n]

\* main() up to its loop.
Init ==
  /\ queue = <<>> /\ fault = NoFault /\ written = 0
  /\ at = "loop" /\ stop = FALSE /\ result = "running"
  /\ batch = <<>> /\ input = <<>> /\ retries = 0 /\ events = 0
  /\ stdout = <<Event("MONITOR_STARTED", 0)>>
  /\ log = <<>> /\ lines = <<>> /\ line = <<>> /\ streak = 0

Exit(why) == at' = "exited" /\ result' = why

Logged(event) == stdout' = Append(stdout, event)

-----------------------------------------------------------------------------
(* process_line and consume_input.                                         *)

process_line(text) ==
  IF text # <<>> /\ \A i \in DOMAIN text : text[i] = "digit"
  THEN "TEMPERATURE" ELSE "INVALID_INPUT"

\* The loop goes on with the next character, or back to main().
NextChar ==
  /\ batch' = Tail(batch)
  /\ at' = IF Tail(batch) = <<>> THEN "loop" ELSE "consume"
  /\ UNCHANGED result

\* Deviation of LimitReached: one event too many.
LimitPassed(count) == MaxEvents # 0 /\ count > MaxEvents

LimitReached(count) == MaxEvents # 0 /\ count >= MaxEvents

\* Deviation of Emptied: the length is not reset.
NotEmptied == input

\* What input->length = 0 leaves.
Emptied == <<>>

\* A line is complete: its verdict is logged, and max_events may be reached.
EndLine ==
  LET verdict == process_line(input)
      count   == events + IF verdict = "TEMPERATURE" THEN 1 ELSE 0
  IN  /\ Logged(Event(verdict, 0))
      /\ log' = Append(log, verdict)
      /\ events' = count
      /\ input' = Emptied
      /\ lines' = Append(lines, line) /\ line' = <<>>
      /\ IF LimitReached(count) THEN Exit("limit") /\ UNCHANGED batch ELSE NextChar

\* Deviation of NoRoom: no room is kept for the final NUL.
NoRoomForChar == Len(input) >= PendingBytes

NoRoom == Len(input) + 1 >= PendingBytes

\* A character that does not fit empties the buffer and is dropped with it.
AddChar(c) ==
  /\ IF NoRoom
     THEN input' = Emptied /\ Logged(Event("INPUT_TOO_LONG", 0))
     ELSE input' = Append(input, c) /\ UNCHANGED stdout
  /\ line' = Append(line, c)
  /\ NextChar
  /\ UNCHANGED <<events, log, lines>>

consume_input ==
  /\ at = "consume"
  /\ IF Head(batch) = "newline" THEN EndLine ELSE AddChar(Head(batch))
  /\ UNCHANGED <<device, stop, retries, streak, written>>

-----------------------------------------------------------------------------
(* main().                                                                 *)

\* The head of the loop.
Check ==
  /\ at = "loop"
  /\ IF stop THEN Exit("stopped") ELSE at' = "enter" /\ UNCHANGED result
  /\ UNCHANGED <<device, stop, batch, parser, retries, stdout, streak, written>>

Ready == queue # <<>> \/ fault.type \in {"EIO", "DISCONNECT"}

\* poll() finds an event at once or goes to sleep.
Poll ==
  /\ at = "enter"
  /\ at' = IF Ready THEN "read" ELSE "poll"
  /\ UNCHANGED <<device, stop, batch, parser, retries, result, stdout, streak, written>>

\* Deviation of PollOver: poll() has no timeout.
PollForEver ==
  /\ at = "poll" /\ Ready /\ at' = "read"
  /\ UNCHANGED <<device, stop, batch, parser, retries, result, stdout, streak, written>>

\* It wakes up for an event, or after poll_timeout_ms without one.
PollOver ==
  /\ at = "poll"
  /\ at' = IF Ready THEN "read" ELSE "loop"
  /\ UNCHANGED <<device, stop, batch, parser, retries, result, stdout, streak, written>>

\* read() fails with EIO: retry until the limit is passed.
ReadEio ==
  /\ fault.type = "EIO"
  /\ fault' = IF fault.left = 1 THEN NoFault ELSE [fault EXCEPT !.left = @ - 1]
  /\ streak' = streak + 1
  /\ retries' = retries + 1
  /\ IF retries + 1 > MaxEioRetries
     THEN Exit("eio") /\ Logged(Event("READ_FAILED", 0))
     ELSE at' = "loop" /\ UNCHANGED result /\ Logged(Event("READ_RETRY", retries + 1))
  /\ UNCHANGED <<queue, batch, parser>>

\* Deviation of ReadGone: ENODEV is taken for a condition that passes.
ReadGoneRetried ==
  /\ fault.type = "DISCONNECT" /\ at' = "loop"
  /\ UNCHANGED <<device, batch, parser, retries, result, stdout, streak>>

ReadGone ==
  /\ fault.type = "DISCONNECT"
  /\ Exit("disconnected") /\ Logged(Event("DEVICE_DISCONNECTED", 0))
  /\ UNCHANGED <<device, batch, parser, retries, streak>>

ReadDelay ==
  /\ fault.type = "DELAY"
  /\ at' = "delay"
  /\ UNCHANGED <<device, batch, parser, retries, result, stdout, streak>>

\* Deviation of RetriesOver: a successful read does not reset the count.
RetriesKept == retries

\* eio_retries = 0.
RetriesOver == 0

\* read() returns n characters: an outage is over, and the parser runs.
Received(n) ==
  /\ queue' = SubSeq(queue, n + 1, Len(queue))
  /\ batch' = SubSeq(queue, 1, n)
  /\ at' = "consume"
  /\ IF retries > 0 THEN Logged(Event("RECOVERY_SUCCESS", retries)) ELSE UNCHANGED stdout
  /\ retries' = RetriesOver
  /\ streak' = 0
  /\ UNCHANGED <<parser, result>>

min(a, b) == IF a <= b THEN a ELSE b

\* read() gets to the FIFO: data, or EAGAIN when there is none (after a RESET).
\* A read of the device never returns zero, so DEVICE_EOF is never logged.
ReadFifo(limit) ==
  /\ IF queue = <<>>
     THEN /\ at' = "loop"
          /\ UNCHANGED <<queue, batch, parser, retries, result, stdout, streak>>
     ELSE Received(min(limit, Len(queue)))
  /\ UNCHANGED fault

Read ==
  /\ at = "read"
  /\ \/ ReadEio \/ ReadGone \/ ReadDelay
     \/ fault.type = "NONE" /\ ReadFifo(ReadBytes)
     \/ fault.type = "PARTIAL_READ" /\ ReadFifo(min(ReadBytes, PartialBytes))
  /\ UNCHANGED <<stop, written>>

ReadDelayed ==
  /\ at = "delay"
  /\ ReadFifo(ReadBytes)
  /\ UNCHANGED <<stop, written>>

\* SIGINT or SIGTERM: the flag, and EINTR from the call that sleeps.  poll()
\* then starts over; a read in a delay fault ends the program as a failure.
Signal ==
  /\ at # "exited"
  /\ stop' = TRUE
  /\ \/ at = "poll" /\ at' = "loop" /\ UNCHANGED <<result, stdout>>
     \/ at = "delay" /\ Exit("eintr") /\ Logged(Event("READ_FAILED", 0))
     \/ at \notin {"poll", "delay"} /\ UNCHANGED <<at, result, stdout>>
  /\ UNCHANGED <<device, batch, parser, retries, streak, written>>

-----------------------------------------------------------------------------
(* The other users of the device.                                          *)

monitor == <<at, stop, batch, parser, retries, result, stdout, streak>>

Write(c) ==
  /\ written < MaxChars /\ fault.type # "DISCONNECT"
  /\ queue' = Append(queue, c)
  /\ written' = written + 1
  /\ UNCHANGED <<fault, monitor>>

Inject ==
  /\ fault' \in {NoFault} \cup [type : {"EIO"}, left : 1..MaxRepeat]
                  \cup [type : {"DELAY", "PARTIAL_READ", "DISCONNECT"}, left : {0}]
  /\ UNCHANGED <<queue, monitor, written>>

Reset ==
  /\ queue' = <<>> /\ fault' = NoFault
  /\ UNCHANGED <<monitor, written>>

Step == Check \/ Poll \/ PollOver \/ Read \/ ReadDelayed \/ consume_input

Next == Step \/ Signal \/ (\E c \in Chars : Write(c)) \/ Inject \/ Reset

Spec == Init /\ [][Next]_vars

\* The process is scheduled, and poll() has a finite timeout.
FairSpec == Spec /\ WF_vars(Step)

-----------------------------------------------------------------------------
Plain == {"digit", "other"}

Fault == [type : {"EIO"}, left : Nat \ {0}]
           \cup [type : {"NONE", "DELAY", "PARTIAL_READ", "DISCONNECT"}, left : {0}]

Entry ==
  [event : {"MONITOR_STARTED", "TEMPERATURE", "INVALID_INPUT", "INPUT_TOO_LONG", "READ_RETRY",
            "RECOVERY_SUCCESS", "READ_FAILED", "DEVICE_DISCONNECTED"}, n : Nat]

\* Types; the pending line always fits the buffer with its final NUL.
TypeOK ==
  /\ queue \in Seq(Chars) /\ batch \in Seq(Chars)
  /\ fault \in Fault
  /\ at \in {"loop", "enter", "poll", "read", "delay", "consume", "exited"}
  /\ at = "consume" => batch # <<>>
  /\ stop \in BOOLEAN /\ retries \in Nat /\ events \in Nat /\ streak \in Nat
  /\ result \in {"running", "stopped", "eio", "disconnected", "eintr", "limit"}
  /\ result = "running" <=> at # "exited"
  /\ stdout \in Seq(Entry)
  /\ log \in Seq({"TEMPERATURE", "INVALID_INPUT"})
  /\ lines \in Seq(Seq(Plain)) /\ line \in Seq(Plain)
  /\ input \in Seq(Plain) /\ Len(input) < PendingBytes
  /\ written \in Nat

Oversized(text) == Len(text) >= PendingBytes

\* However the reads cut the stream (partial, delayed, interrupted by errors),
\* each line that fits the buffer gets the verdict of the whole line, in order,
\* and a line that does not fit disturbs no other line.
LinesFaithful ==
  /\ Len(log) = Len(lines)
  /\ \A i \in DOMAIN log : ~Oversized(lines[i]) => log[i] = process_line(lines[i])

\* Oversized lines are skipped: none of them is reported as a temperature.
OversizedSkipped ==
  \A i \in DOMAIN log : Oversized(lines[i]) => log[i] # "TEMPERATURE"

\* With --max-events the monitor logs no temperature past the limit, even if
\* one read returns more lines, and it exits in the step that reaches it.
LimitExact ==
  /\ events = Cardinality({i \in DOMAIN log : log[i] = "TEMPERATURE"})
  /\ MaxEvents # 0 => events <= MaxEvents /\ (events = MaxEvents <=> result = "limit")

\* The monitor survives MaxEioRetries failures in a row and fails on the next
\* one, counting from the last read that succeeded.
RetryBudget ==
  /\ result # "eio" => streak <= MaxEioRetries
  /\ result = "eio" => streak = MaxEioRetries + 1

-----------------------------------------------------------------------------
\* A signal ends the monitor, also one that comes between the test of the
\* flag and poll(): the poll timeout brings it back to the test.
StopHonoured == stop ~> at = "exited"

\* A disconnect ends the monitor unless the device is connected again.
DisconnectEnds ==
  fault.type = "DISCONNECT" ~> (at = "exited" \/ fault.type # "DISCONNECT")
=============================================================================

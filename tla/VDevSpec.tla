------------------------------ MODULE VDevSpec ------------------------------
(***************************************************************************)
(* What the device promises: every call takes effect in one step between   *)
(* the call and its return.  There are no locks, wait queues or indices    *)
(* here; the FIFO is a sequence of byte numbers and the fault record is    *)
(* read and changed atomically with the call's effect.                     *)
(***************************************************************************)
EXTENDS Integers, Sequences

CONSTANTS Readers, Writers, Pollers, Controllers, FifoSize, FaultRecords

VARIABLES
  fault,     \* the active fault
  fifo,      \* the bytes that were written and neither read nor reset away
  written,   \* how many bytes were written; they are numbered in that order
  last,      \* the last byte a read returned
  phase,     \* of each thread: no call, called, or served and not returned
  result     \* what a served call will return

vars == <<fault, fifo, written, last, phase, result>>

Threads == Readers \cup Writers \cup Pollers \cup Controllers

NoFault == [type |-> "NONE", repeat |-> 0, delay_ms |-> 0,
            partial_read_bytes |-> 0]
NoResult == [code |-> "OK", n |-> 0, mask |-> {}]
Failed(code) == [NoResult EXCEPT !.code = code]
Bytes(n) == [NoResult EXCEPT !.n = n]
Events(mask) == [NoResult EXCEPT !.mask = mask]

Init ==
  /\ fault = NoFault
  /\ fifo = <<>> /\ written = 0 /\ last = 0
  /\ phase = [t \in Threads |-> "idle"]
  /\ result = [t \in Threads |-> NoResult]

\* An ioctl takes effect at some instant of its own; nothing tells its call
\* from its effect.
Call(t) ==
  /\ phase[t] = "idle"
  /\ phase' = [phase EXCEPT ![t] = "called"]
  /\ UNCHANGED <<fault, fifo, written, last, result>>

Serve(t, res) ==
  /\ phase[t] = IF t \in Controllers THEN "idle" ELSE "called"
  /\ phase' = [phase EXCEPT ![t] = "served"]
  /\ result' = [result EXCEPT ![t] = res]

Return(t) ==
  /\ phase[t] = "served"
  /\ phase' = [phase EXCEPT ![t] = "idle"]
  /\ result' = [result EXCEPT ![t] = NoResult]
  /\ UNCHANGED <<fault, fifo, written, last>>

\* A read takes bytes from the front of the FIFO, and never none.
ReadBytes(r) ==
  /\ \E n \in 1..Len(fifo) :
       /\ Serve(r, Bytes(n))
       /\ fifo' = SubSeq(fifo, n + 1, Len(fifo))
       /\ last' = fifo[n]
  /\ UNCHANGED <<fault, written>>

\* A read that fails with EIO uses up one of the configured failures; the
\* last one ends the fault.
ReadEio(r) ==
  /\ fault.type = "EIO"
  /\ Serve(r, Failed("EIO"))
  /\ fault' = IF fault.repeat > 1 THEN [fault EXCEPT !.repeat = @ - 1] ELSE NoFault
  /\ UNCHANGED <<fifo, written, last>>

\* A write appends bytes, never none and never more than there is room for.
WriteBytes(w) ==
  /\ \E n \in 1..(FifoSize - Len(fifo)) :
       /\ Serve(w, Bytes(n))
       /\ fifo' = fifo \o [i \in 1..n |-> written + i]
       /\ written' = written + n
  /\ UNCHANGED <<fault, last>>

\* The other outcomes change nothing.  ENODEV needs a disconnected device, a
\* read's EAGAIN an empty FIFO; a write may give up on a full FIFO that has
\* room again by the time it returns.
FailRead(r) ==
  /\ \/ fault.type = "DISCONNECT" /\ Serve(r, Failed("ENODEV"))
     \/ fifo = <<>> /\ Serve(r, Failed("EAGAIN"))
     \/ \E code \in {"EINTR", "EFAULT"} : Serve(r, Failed(code))
  /\ UNCHANGED <<fault, fifo, written, last>>

FailWrite(w) ==
  /\ \/ fault.type = "DISCONNECT" /\ Serve(w, Failed("ENODEV"))
     \/ \E code \in {"EAGAIN", "EINTR", "EFAULT"} : Serve(w, Failed(code))
  /\ UNCHANGED <<fault, fifo, written, last>>

\* poll(2) reports the device as it is at one instant.
Poll(p) ==
  /\ \/ fault.type = "DISCONNECT" /\ Serve(p, Events({"ERR", "HUP"}))
     \/ fault.type = "EIO" /\ Serve(p, Events({"ERR"}))
     \/ \E want \in {{"IN"}, {"OUT"}} :
          Serve(p, Events({e \in want : IF e = "IN" THEN fifo # <<>>
                                        ELSE Len(fifo) < FifoSize}))
     \/ Serve(p, Failed("EINTR"))
  /\ UNCHANGED <<fault, fifo, written, last>>

SetFault(c) ==
  /\ Serve(c, NoResult)
  /\ fault' \in FaultRecords
  /\ UNCHANGED <<fifo, written, last>>

\* RESET clears the fault and empties the FIFO in one step.
Reset(c) ==
  /\ Serve(c, NoResult)
  /\ fault' = NoFault
  /\ fifo' = <<>>
  /\ UNCHANGED <<written, last>>

FailIoctl(c) ==
  /\ \E code \in {"OK", "EINVAL", "EFAULT", "ENOTTY"} : Serve(c, Failed(code))
  /\ UNCHANGED <<fault, fifo, written, last>>

Next ==
  \/ \E t \in Threads \ Controllers : Call(t)
  \/ \E t \in Threads : Return(t)
  \/ \E r \in Readers : ReadBytes(r) \/ ReadEio(r) \/ FailRead(r)
  \/ \E w \in Writers : WriteBytes(w) \/ FailWrite(w)
  \/ \E p \in Pollers : Poll(p)
  \/ \E c \in Controllers : SetFault(c) \/ Reset(c) \/ FailIoctl(c)

Spec == Init /\ [][Next]_vars
=============================================================================

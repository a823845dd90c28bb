------------------------- MODULE VDevHistoryProofs -------------------------
(***************************************************************************)
(* Outcomes of reads and writes and the faults active during them, for     *)
(* every number of threads, every FIFO size and every set of fault records.*)
(***************************************************************************)
EXTENDS VDevHistory, VDevWakeProofs

\* OutcomeExplained for one call.
Explained(t) ==
  pc[t] = "done" =>
    /\ err[t] = "EIO" => t \in Readers /\ "EIO" \in during[t]
    /\ err[t] = "ENODEV" => "DISCONNECT" \in during[t]
    /\ during[t] = {"DISCONNECT"} => err[t] = "ENODEV"
    /\ t \in Readers /\ during[t] = {"EIO"} => err[t] = "EIO"
    /\ t \in Readers /\ during[t] = {"PARTIAL_READ"} => me[t].n <= MaxPartialRead

\* A call on its way: the record has the fault of now; once the call passed the
\* test of the fault, one that lets it pass; and if it met nothing but partial
\* reads, it has adopted a limit.
OnItsWay(t) ==
  /\ pc[t] \notin {"idle", "done"} => fault.type \in during[t]
  /\ t \in Readers /\ pc[t] \notin {"idle", "apply", "done"} =>
       /\ \E f \in during[t] : f \notin {"EIO", "DISCONNECT"}
       /\ during[t] = {"PARTIAL_READ"} =>
            /\ me[t].partial \in 1..MaxPartialRead
            /\ pc[t] \in {"copy", "wake"} => me[t].n <= MaxPartialRead
  /\ t \in Writers /\ pc[t] \notin {"idle", "connected", "done"} =>
       \E f \in during[t] : f # "DISCONNECT"

HistoryInv == \A t \in Observed : OnItsWay(t) /\ Explained(t)

-----------------------------------------------------------------------------
(* What one step of a call does to what the record is about.               *)

\* A read that goes on after the fault was tested.
ReadGoesOn(r) ==
  /\ pc[r] \notin {"idle", "apply", "done"} /\ pc'[r] \notin {"idle", "done"}
  /\ me'[r].partial = me[r].partial
  /\ pc'[r] = "copy" /\ me[r].partial \in 1..MaxPartialRead => me'[r].n <= MaxPartialRead
  /\ pc'[r] = "wake" =>
       pc[r] = "copy" /\ (me[r].n <= MaxPartialRead => me'[r].n <= MaxPartialRead)

\* It returns without a fault of the device.
EndsPlainly(t) ==
  /\ pc'[t] = "done" /\ err'[t] \notin {"EIO", "ENODEV"}
  /\ me'[t].n = 0 \/ (pc[t] = "wake" /\ me'[t].n = me[t].n)

ReadMoves(r) ==
  \/ pc[r] = "idle" /\ pc'[r] = "apply"
  \/ /\ pc[r] = "apply" /\ pc'[r] = "done" /\ me'[r].n = 0
     /\ \/ fault.type = "EIO" /\ err'[r] = "EIO"
        \/ fault.type = "DISCONNECT" /\ err'[r] = "ENODEV"
  \/ /\ pc[r] = "apply" /\ pc'[r] \in {"lock", "delay"}
     /\ fault' = fault /\ fault.type \notin {"EIO", "DISCONNECT"}
     /\ fault.type = "PARTIAL_READ" => me'[r].partial \in 1..MaxPartialRead
  \/ ReadGoesOn(r)
  \/ pc[r] \notin {"idle", "apply", "done"} /\ EndsPlainly(r)
  \/ pc'[r] = "idle"

WriteMoves(w) ==
  \/ pc[w] = "idle" /\ pc'[w] = "connected"
  \/ pc[w] = "connected" /\ pc'[w] = "done" /\ fault.type = "DISCONNECT" /\ err'[w] = "ENODEV"
  \/ /\ pc[w] = "connected" /\ pc'[w] \notin {"idle", "done"}
     /\ fault' = fault /\ fault.type # "DISCONNECT"
  \/ pc[w] \notin {"idle", "connected", "done"} /\ pc'[w] \notin {"idle", "done"}
  \/ pc[w] \notin {"idle", "connected", "done"} /\ EndsPlainly(w)
  \/ pc'[w] = "idle"

\* A call that returns has the result and the error it was given.
LEMMA Returned ==
  ASSUME TypeOK, NEW t \in Readers \cup Writers, NEW code, NEW k, ReturnBytes(t, code, k)
  PROVE  pc'[t] = "done" /\ err'[t] = code /\ me'[t].n = k
<1>1. t \in Threads /\ t \in DOMAIN me /\ t \in DOMAIN pc /\ t \in DOMAIN err
  BY DEF TypeOK, PcOK, LocalsOK, MeOK, Threads
<1> QED BY <1>1 DEF ReturnBytes, Return, NoCall

\* A thread that goes to a label is there.
LEMMA WentTo ==
  ASSUME TypeOK, NEW t \in Threads, NEW label, Goto(t, label) PROVE pc'[t] = label
BY DEF TypeOK, PcOK, Goto

\* The test of the fault at the head of a read.
LEMMA ApplyMoves ==
  ASSUME TypeOK, FaultWellFormed, NEW r \in Readers, ReadApplyFault(r) PROVE ReadMoves(r)
<1>1. r \in Threads /\ pc[r] = "apply"
  BY DEF ReadApplyFault, Threads
<1>2. CASE ApplyEio(r)
  <2>1. fault.repeat # 0
    BY <1>2 DEF ApplyEio, FaultWellFormed, Valid
  <2> QED BY <1>1, <1>2, <2>1, Returned DEF ApplyEio, ReadMoves
<1>3. CASE ApplyDelay(r)
  BY <1>1, <1>3, WentTo DEF ApplyDelay, ReadMoves
<1>4. CASE ApplyPartial(r)
  <2>1. fault.partial_read_bytes \in 1..MaxPartialRead
    BY <1>4 DEF ApplyPartial, FaultWellFormed, Valid
  <2>2. me'[r].partial = fault.partial_read_bytes
    BY <1>4 DEF ApplyPartial, TypeOK, LocalsOK, MeOK, Local
  <2> QED BY <1>1, <1>4, <2>1, <2>2, WentTo DEF ApplyPartial, ReadMoves
<1>5. CASE ApplyOther(r)
  BY <1>1, <1>5, WentTo, Returned DEF ApplyOther, ReadMoves
<1> QED BY <1>2, <1>3, <1>4, <1>5 DEF ReadApplyFault

\* What a read copies is within the limit it adopted.
LEMMA CopyWithinLimit ==
  ASSUME TypeOK, NEW r \in Readers, me[r].partial \in 1..MaxPartialRead
  PROVE  ToCopy(r) <= MaxPartialRead
<1>1. me[r] \in Local /\ kfifo_len \in Int /\ MaxPartialRead \in Nat
  BY BoundsAssumption DEF TypeOK, DeviceOK, LocalsOK, MeOK, kfifo_len
<1>2. me[r].count \in Nat /\ me[r].partial \in Nat
  BY <1>1 DEF Local
<1> QED BY <1>1, <1>2 DEF ToCopy, min

\* Every step of a read is one of the moves.
LEMMA ReaderMoves ==
  ASSUME TypeOK, FaultWellFormed, NEW r \in Readers,
         ReadCall(r) \/ ReaderStep(r) \/ Interrupt(r)
  PROVE  ReadMoves(r)
<1>1. r \in Threads /\ r \in Readers \cup Writers /\ r \notin Pollers
  BY RolesAssumption DEF Threads
<1>2. me \in [Readers \cup Writers -> Local] /\ me[r] \in Local
  BY <1>1 DEF TypeOK, LocalsOK, MeOK
<1>3. CASE ReadCall(r)
  BY <1>1, <1>3, WentTo DEF ReadCall, ReadMoves
<1>4. CASE ReadApplyFault(r)
  BY <1>4, ApplyMoves
<1>5. CASE ReadDelayOver(r)
  BY <1>1, <1>5, WentTo DEF ReadDelayOver, ReadMoves, ReadGoesOn
<1>6. CASE ReadLock(r)
  <2>1. CASE kfifo_len # 0
    <3>1. pc[r] = "lock" /\ pc'[r] = "copy"
      BY <1>1, <1>6, <2>1, WentTo DEF ReadLock
    <3>2. me' = [me EXCEPT ![r].from = kout, ![r].n = ToCopy(r)]
      BY <1>6, <2>1 DEF ReadLock
    <3>3. me'[r].partial = me[r].partial /\ me'[r].n = ToCopy(r)
      BY <1>1, <1>2, <3>2 DEF Local
    <3> QED BY <3>1, <3>3, CopyWithinLimit DEF ReadMoves, ReadGoesOn
  <2>2. CASE kfifo_len = 0
    BY <1>1, <1>6, <2>2, WentTo, Returned DEF ReadLock, ReadMoves, ReadGoesOn, EndsPlainly
  <2> QED BY <2>1, <2>2
<1>7. CASE ReadCopy(r)
  <2>1. PICK k \in 0..me[r].n : CopyResult(r, k)
    BY <1>7 DEF ReadCopy
  <2>2. CASE k > 0
    <3>1. pc[r] = "copy" /\ pc'[r] = "wake" /\ me' = [me EXCEPT ![r].n = k]
      BY <1>1, <1>7, <2>1, <2>2, WentTo DEF ReadCopy, CopyResult
    <3>2. me'[r].partial = me[r].partial /\ me'[r].n = k
      BY <1>1, <1>2, <3>1 DEF Local
    <3>3. me[r].n <= MaxPartialRead => k <= MaxPartialRead
      BY <1>2, <2>1, BoundsAssumption DEF Local
    <3> QED BY <3>1, <3>2, <3>3 DEF ReadMoves, ReadGoesOn
  <2>3. CASE ~(k > 0)
    BY <1>1, <1>7, <2>1, <2>3, Returned DEF ReadCopy, CopyResult, ReadMoves, EndsPlainly
  <2> QED BY <2>2, <2>3
<1>8. CASE ReadWake(r)
  BY <1>1, <1>8, Returned DEF ReadWake, ReadMoves, EndsPlainly
<1>9. CASE WaitPrepare(r)
  <2>1. pc[r] = "prepare" /\ pc'[r] = "compare"
    BY <1>1, <1>9, WentTo DEF WaitPrepare
  <2>2. me'[r].partial = me[r].partial
    BY <1>1, <1>2, <1>9 DEF WaitPrepare, Local
  <2> QED BY <2>1, <2>2 DEF ReadMoves, ReadGoesOn
<1>10. CASE ReadCompare(r) \/ ReadType(r)
  <2>1. pc[r] \in {"compare", "type"} /\ pc'[r] \in {"type", "apply", "schedule"}
    BY <1>1, <1>10, WentTo DEF ReadCompare, ReadType, WaitOver
  <2>2. me'[r].partial = me[r].partial
    BY <1>1, <1>2, <1>10 DEF ReadCompare, ReadType, WaitOver, Local
  <2> QED BY <2>1, <2>2 DEF ReadMoves, ReadGoesOn
<1>11. CASE WaitSchedule(r)
  BY <1>1, <1>11, WentTo DEF WaitSchedule, ReadMoves, ReadGoesOn
<1>12. CASE Leave(r)
  BY <1>1, <1>12, WentTo DEF Leave, ReadMoves
<1>13. CASE Interrupt(r)
  BY <1>1, <1>13, Returned DEF Interrupt, ReadMoves, EndsPlainly
<1> QED BY <1>3, <1>4, <1>5, <1>6, <1>7, <1>8, <1>9, <1>10, <1>11, <1>12, <1>13 DEF ReaderStep

\* Every step of a write is one of the moves.
LEMMA WriterMoves ==
  ASSUME TypeOK, NEW w \in Writers, WriteCall(w) \/ WriterStep(w) \/ Interrupt(w)
  PROVE  WriteMoves(w)
<1>1. w \in Threads /\ w \in Readers \cup Writers /\ w \notin Pollers
  BY RolesAssumption DEF Threads
<1>2. CASE WriteCall(w)
  BY <1>1, <1>2, WentTo DEF WriteCall, WriteMoves
<1>3. CASE WriteConnected(w)
  BY <1>1, <1>3, WentTo, Returned DEF WriteConnected, is_disconnected, WriteMoves, device
<1>4. CASE WaitPrepare(w) \/ WriteType(w) \/ WaitSchedule(w) \/ WriteRecheck(w)
  BY <1>1, <1>4, WentTo DEF WaitPrepare, WriteType, WaitOver, WaitSchedule, WriteRecheck, WriteMoves
<1>5. CASE WriteCompare(w)
  BY <1>1, <1>5, WentTo, Returned DEF WriteCompare, WaitOver, WriteMoves, EndsPlainly
<1>6. CASE WriteLock(w)
  BY <1>1, <1>6, WentTo, Returned DEF WriteLock, WriteMoves, EndsPlainly
<1>7. CASE WriteCopy(w)
  BY <1>1, <1>7, WentTo, Returned DEF WriteCopy, CopyResult, WriteMoves, EndsPlainly
<1>8. CASE WriteWake(w)
  BY <1>1, <1>8, Returned DEF WriteWake, WriteMoves, EndsPlainly
<1>9. CASE Leave(w)
  BY <1>1, <1>9, WentTo DEF Leave, WriteMoves
<1>10. CASE Interrupt(w)
  BY <1>1, <1>10, Returned DEF Interrupt, WriteMoves, EndsPlainly
<1> QED BY <1>2, <1>3, <1>4, <1>5, <1>6, <1>7, <1>8, <1>9, <1>10 DEF WriterStep

-----------------------------------------------------------------------------
(* The record keeps the invariant.                                         *)

\* A step of another thread leaves the results of a call alone.
LEMMA StepErr ==
  ASSUME TypeOK, NEW t \in Threads, NEW u \in Threads, u # t, Step(u) PROVE err'[t] = err[t]
<1> USE DEF device, history
<1>1. err \in [Threads -> Codes]
  BY DEF TypeOK, LocalsOK
<1>2. CASE u \in Readers /\ (ReadCall(u) \/ ReaderStep(u))
  BY <1>1, <1>2, ZenonT(60)
  DEF ReadCall, ReaderStep, ReadApplyFault, ApplyEio, ApplyDelay, ApplyPartial, ApplyOther,
      ReadDelayOver, ReadLock, ReadCopy, CopyResult, ReadWake, WaitPrepare, ReadCompare, ReadType,
      WaitSchedule, Leave, ReturnBytes, Return
<1>3. CASE u \in Writers /\ (WriteCall(u) \/ WriterStep(u))
  BY <1>1, <1>3, ZenonT(60)
  DEF WriteCall, WriterStep, WriteConnected, WaitPrepare, WriteCompare, WriteType, WaitSchedule,
      WriteRecheck, WriteLock, WriteCopy, CopyResult, WriteWake, Leave, ReturnBytes, Return
<1>4. CASE u \in Pollers /\ (PollCall(u) \/ PollTimeout(u) \/ PollerStep(u))
  BY <1>1, <1>4
  DEF PollCall, PollTimeout, PollerStep, PollType, PollLock, PollSchedule, PollReport, Leave, Return
<1>5. CASE u \in Controllers /\ (\/ SetFault(u) \/ ReadOnlyIoctl(u) \/ ClearFault(u)
                                 \/ ResetLock(u) \/ ControllerStep(u))
  BY <1>1, <1>5, ZenonT(60)
  DEF SetFault, ReadOnlyIoctl, ClearFault, ResetLock, ControllerStep, ResetFault, ResetIndex,
      ResetDone, IoctlWakeRead, IoctlWakeWrite, Leave, Return
<1>6. CASE Interrupt(u)
  BY <1>1, <1>6 DEF Interrupt, ReturnBytes, Return
<1> QED BY <1>2, <1>3, <1>4, <1>5, <1>6 DEF Step

\* The record of one call after a step.
LEMMA Witnessed ==
  ASSUME NEW t \in Observed, Witness
  PROVE  /\ pc'[t] = "done" => during'[t] = during[t]
         /\ pc'[t] \notin {"idle", "done"} =>
              /\ fault'.type \in during'[t]
              /\ \A f \in during[t] : f \in during'[t]
              /\ during'[t] = during[t] \cup {fault'.type}
BY DEF Witness

\* A step of a read.
LEMMA ReaderHistory ==
  ASSUME NEW r \in Readers, r \in Observed, OnItsWay(r), Explained(r), Witness, ReadMoves(r)
  PROVE  OnItsWay(r)' /\ Explained(r)'
<1>1. r \notin Writers /\ MaxPartialRead \in Nat
  BY RolesAssumption, BoundsAssumption
<1>2. CASE pc[r] = "idle" /\ pc'[r] = "apply"
  BY <1>1, <1>2, Witnessed DEF OnItsWay, Explained
<1>3. CASE pc[r] = "apply" /\ pc'[r] = "done" /\ me'[r].n = 0
  BY <1>1, <1>3, Witnessed DEF OnItsWay, Explained, ReadMoves, ReadGoesOn, EndsPlainly
<1>4. CASE /\ pc[r] = "apply" /\ pc'[r] \in {"lock", "delay"}
           /\ fault' = fault /\ fault.type \notin {"EIO", "DISCONNECT"}
           /\ fault.type = "PARTIAL_READ" => me'[r].partial \in 1..MaxPartialRead
  BY <1>1, <1>4, Witnessed DEF OnItsWay, Explained
<1>5. CASE ReadGoesOn(r)
  <2>1. during'[r] = {"PARTIAL_READ"} => during[r] = {"PARTIAL_READ"}
    BY <1>5, Witnessed DEF ReadGoesOn, OnItsWay
  <2>2. Explained(r)'
    BY <1>5 DEF ReadGoesOn, Explained
  <2>3. /\ pc[r] \notin {"idle", "apply", "done"} /\ pc'[r] \notin {"idle", "done"}
        /\ fault'.type \in during'[r]
        /\ \E f \in during'[r] : f \notin {"EIO", "DISCONNECT"}
    BY <1>5, Witnessed DEF ReadGoesOn, OnItsWay
  <2>4. during'[r] = {"PARTIAL_READ"} => me'[r].partial \in 1..MaxPartialRead
    BY <1>5, <2>1, <2>3 DEF ReadGoesOn, OnItsWay
  <2> QED BY <1>1, <1>5, <2>1, <2>2, <2>3, <2>4 DEF ReadGoesOn, OnItsWay
<1>6. CASE pc[r] \notin {"idle", "apply", "done"} /\ EndsPlainly(r)
  <2>1. /\ pc'[r] = "done" /\ err'[r] \notin {"EIO", "ENODEV"} /\ during'[r] = during[r]
        /\ during[r] # {"EIO"} /\ during[r] # {"DISCONNECT"}
    BY <1>6, Witnessed DEF EndsPlainly, OnItsWay
  <2>2. during[r] = {"PARTIAL_READ"} => me'[r].n <= MaxPartialRead
    BY <1>1, <1>6 DEF EndsPlainly, OnItsWay
  <2> QED BY <2>1, <2>2 DEF OnItsWay, Explained
<1>7. CASE pc'[r] = "idle"
  BY <1>1, <1>7 DEF OnItsWay, Explained
<1> QED BY <1>2, <1>3, <1>4, <1>5, <1>6, <1>7 DEF ReadMoves

\* A step of a write.
LEMMA WriterHistory ==
  ASSUME NEW w \in Writers, w \in Observed, OnItsWay(w), Explained(w), Witness, WriteMoves(w)
  PROVE  OnItsWay(w)' /\ Explained(w)'
<1>1. w \notin Readers
  BY RolesAssumption
<1> QED BY <1>1, Witnessed DEF OnItsWay, Explained, WriteMoves, EndsPlainly

\* A step of another thread may change the fault under the call.
LEMMA OtherHistory ==
  ASSUME NEW t \in Observed, OnItsWay(t), Explained(t), Witness,
         pc'[t] = pc[t], me'[t] = me[t], err'[t] = err[t]
  PROVE  OnItsWay(t)' /\ Explained(t)'
<1>1. Explained(t)'
  BY Witnessed DEF Explained
<1>2. CASE pc[t] \in {"idle", "done"}
  BY <1>1, <1>2 DEF OnItsWay
<1>3. CASE pc[t] \notin {"idle", "done"}
  <2>1. during'[t] = {"PARTIAL_READ"} => during[t] = {"PARTIAL_READ"}
    BY <1>3, Witnessed DEF OnItsWay
  <2>2. fault'.type \in during'[t] /\ \A f \in during[t] : f \in during'[t]
    BY <1>3, Witnessed
  <2> QED BY <1>1, <2>1, <2>2 DEF OnItsWay
<1> QED BY <1>2, <1>3

\* The record is about a run of the device.
LEMMA HistoryRuns == HSpec => Spec
<1>1. HInit => Init
  BY DEF HInit
<1>2. [HNext]_<<vars, during>> => [Next]_vars
  BY DEF HNext
<1> QED BY <1>1, <1>2, PTL DEF HSpec, Spec

\* The inductive invariant of the record.
THEOREM HistoryInvariant == HSpec => []HistoryInv
<1>1. HInit => HistoryInv
  BY ObservedAssumption DEF HInit, Init, HistoryInv, OnItsWay, Explained, Threads
<1>2. TypeOK /\ FaultWellFormed /\ HistoryInv /\ [HNext]_<<vars, during>> => HistoryInv'
  <2> SUFFICES ASSUME TypeOK, FaultWellFormed, HistoryInv, [HNext]_<<vars, during>>,
                      NEW t \in Observed
               PROVE  OnItsWay(t)' /\ Explained(t)'
    BY DEF HistoryInv
  <2>1. OnItsWay(t) /\ Explained(t) /\ t \in Readers \cup Writers /\ t \in Threads
    BY ObservedAssumption DEF HistoryInv, Threads
  <2>2. CASE UNCHANGED <<vars, during>>
    BY <2>1, <2>2 DEF vars, OnItsWay, Explained
  <2>3. CASE HNext
    <3>1. PICK u \in Threads : Step(u)
      BY <2>3, NextIsStep DEF HNext
    <3>2. Witness
      BY <2>3 DEF HNext
    <3>3. CASE u # t
      <4>1. pc'[t] = pc[t] /\ me'[t] = me[t] /\ err'[t] = err[t]
        BY <2>1, <3>1, <3>3, StepLocal, StepErr
      <4> QED BY <2>1, <3>2, <4>1, OtherHistory
    <3>4. CASE u = t /\ t \in Readers
      <4>1. ReadCall(t) \/ ReaderStep(t) \/ Interrupt(t)
        BY <3>1, <3>4, RolesAssumption DEF Step
      <4> QED BY <2>1, <3>2, <3>4, <4>1, ReaderMoves, ReaderHistory
    <3>5. CASE u = t /\ t \in Writers
      <4>1. WriteCall(t) \/ WriterStep(t) \/ Interrupt(t)
        BY <3>1, <3>5, RolesAssumption DEF Step
      <4> QED BY <2>1, <3>2, <3>5, <4>1, WriterMoves, WriterHistory
    <3> QED BY <2>1, <3>3, <3>4, <3>5
  <2> QED BY <2>2, <2>3
<1> QED BY <1>1, <1>2, HistoryRuns, TypeCorrect, FaultRecordValid, PTL DEF HSpec

\* A read or a write fails with the error of a fault only if that fault was
\* active during it, and a call that met one fault only is ruled by it.
THEOREM Outcomes == HSpec => []OutcomeExplained
<1>1. HistoryInv => OutcomeExplained
  BY DEF HistoryInv, Explained, OutcomeExplained
<1> QED BY <1>1, HistoryInvariant, PTL
=============================================================================

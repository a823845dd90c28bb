--------------------------- MODULE VDevWakeProofs ---------------------------
(***************************************************************************)
(* No lost wake-up in VDevCore.  A thread that sleeps on a queue is seen   *)
(* from the steps of the others: each of them wakes it, or owes the queue  *)
(* a wake-up afterwards, or changes nothing that it waits for.             *)
(***************************************************************************)
EXTENDS VDevSafetyProofs

\* While no reset is under way the out index is not ahead of the in index; a
\* reset under way owes both queues a wake-up.
LEMMA OutNotAhead ==
  ASSUME TypeOK, CopiesValid, ~ReadqPending \/ ~WriteqPending
  PROVE  kout <= kin
<1>1. ~Resetting
  BY DEF ReadqPending, WriteqPending, Resetting
<1>2. kfifo_len \in 0..FifoSize
  BY ZenonT(60), <1>1 DEF CopiesValid, FifoBounded
<1>3. kin \in Int /\ kout \in Int /\ FifoSize \in Int
  BY BoundsAssumption DEF TypeOK, DeviceOK
<1> QED BY <1>2, <1>3 DEF kfifo_len

-----------------------------------------------------------------------------
(* The read queue, seen from t while another thread takes a step.          *)

\* The step makes none of the conditions true that readq waiters wait for.
ReadqQuiet ==
  /\ kin' = kin
  /\ kout' \in kout..kin
  /\ fault_interrupts_read' => fault_interrupts_read
  /\ ~ReadqPending

\* What t relies on: it is woken, or a wake-up is pending, or nothing happened.
ReadqStep(t) ==
  \/ t \in OnReadq => task'[t] = "running"
  \/ ReadqPending'
  \/ task'[t] = task[t] /\ ReadqQuiet

\* A step of u that is neither the end of a wake-up of readq nor a change of
\* what readq waiters wait for.
LEMMA QuietReadq ==
  ASSUME TypeOK, CopiesValid, NEW t \in Threads, NEW u \in Threads, NEW label,
         pc' = [pc EXCEPT ![u] = label],
         u \in Readers \/ pc[u] \notin {"wake", "reset", "reset2", "wakeread"},
         kin' = kin, kout' = kout \/ (~Resetting /\ kout' \in kout..kin),
         fault_interrupts_read' => fault_interrupts_read,
         task'[t] \in {task[t], "running"}
  PROVE  ReadqStep(t)
  <1>1. CASE ReadqPending
    <2>1. ReadqPending'
      BY <1>1, RolesAssumption DEF ReadqPending, TypeOK, PcOK, Threads
    <2> QED BY <2>1 DEF ReadqStep
  <1>2. CASE ~ReadqPending
    <2>1. ~Resetting
      BY <1>2 DEF ReadqPending, Resetting
    <2>2. kout' \in kout..kin
      BY <2>1 DEF CopiesValid, FifoBounded, kfifo_len, TypeOK, DeviceOK
    <2> QED BY <1>2, <2>2 DEF ReadqStep, ReadqQuiet
  <1> QED BY <1>1, <1>2

\* A step of another reader takes no wake-up from the read queue.
LEMMA ReaderReadq ==
  ASSUME TypeOK, LocksHeld, CopiesValid, NEW t \in Threads,
         NEW u \in Readers, u # t, ReadCall(u) \/ ReaderStep(u)
  PROVE  ReadqStep(t)
  <1> USE DEF device, history
  <1>0. u \in Threads /\ task \in [Threads -> {"running", "interruptible"}]
    BY DEF Threads, TypeOK, LocalsOK
  <1>1. PICK label \in ReaderPc : pc' = [pc EXCEPT ![u] = label]
    BY ZenonT(60)
    DEF ReadCall, ReaderStep, ReadApplyFault, ApplyEio, Spend, ApplyDelay, ApplyPartial,
       ApplyOther, ReadDelayOver, ReadLock, ReadCopy, CopyResult, ReadWake, WaitPrepare,
       ReadCompare, ReadType, WaitSchedule, Leave, WaitOver, Goto, ReturnBytes, Return,
       ReaderPc
  <1>2. kin' = kin /\ (fault_interrupts_read' => fault_interrupts_read)
    BY ZenonT(60) DEF ReadCall, ReaderStep, ReadApplyFault, ApplyEio, Spend, ApplyDelay, ApplyPartial,
       ApplyOther, ReadDelayOver, ReadLock, ReadCopy, ReadWake, WaitPrepare,
       ReadCompare, ReadType, WaitSchedule, Leave, fault_interrupts_read, NoFault,
       TypeOK, DeviceOK, FaultConfig
  <1>3. task'[t] \in {task[t], "running"}
    BY <1>0, ZenonT(60) DEF ReadCall, ReaderStep, ReadApplyFault, ReadDelayOver, ReadLock, ReadCopy,
       ReadWake, WakeUp, WaitPrepare, ReadCompare, ReadType, WaitSchedule, Leave, WaitOver
  <1>4. kout' = kout \/ (~Resetting /\ kout' \in kout..kin)
    <2>1. CASE ReadCopy(u)
      <3>1. PICK k \in 0..me[u].n : kout' = kout + k
        BY ZenonT(60), <2>1 DEF ReadCopy
      <3>2. ~Resetting /\ me[u].n \in 1..kfifo_len /\ kfifo_len \in 0..FifoSize
        BY ZenonT(60), <2>1, CopyAlone DEF ReadCopy, CopiesValid, FifoBounded
      <3> QED BY <3>1, <3>2, BoundsAssumption DEF kfifo_len, TypeOK, DeviceOK
    <2>2. CASE ~ReadCopy(u)
      BY <2>2 DEF ReadCall, ReaderStep, ReadApplyFault, ReadDelayOver, ReadLock,
         ReadWake, WaitPrepare, ReadCompare, ReadType, WaitSchedule, Leave
    <2> QED BY <2>1, <2>2
  <1> QED BY <1>0, <1>1, <1>2, <1>3, <1>4, QuietReadq, ZenonT(60)

\* A step of a writer that adds data has the wake-up of readq before it.
LEMMA WriterReadq ==
  ASSUME TypeOK, CopiesValid, NEW t \in Threads,
         NEW u \in Writers, u # t, WriteCall(u) \/ WriterStep(u)
  PROVE  ReadqStep(t)
  <1> USE DEF device, history
  <1>0. u \in Threads /\ task \in [Threads -> {"running", "interruptible"}]
    BY DEF Threads, TypeOK, LocalsOK
  <1>1. CASE WriteWake(u)
    BY <1>0, <1>1 DEF WriteWake, WakeUp, ReadqStep
  <1>2. CASE WriteCopy(u)
    <2>1. PICK k \in 0..me[u].n : kin' = kin + k /\ CopyResult(u, k)
      BY <1>2 DEF WriteCopy
    <2>2. CASE k > 0
      <3>1. pc'[u] = "wake"
        BY <1>0, <2>1, <2>2 DEF CopyResult, Goto, TypeOK, PcOK
      <3>2. ReadqPending'
        BY <3>1 DEF ReadqPending
      <3> QED BY <3>2 DEF ReadqStep
    <2>3. CASE ~(k > 0)
      <3>1. kin' = kin /\ pc' = [pc EXCEPT ![u] = "done"]
        BY <2>1, <2>3 DEF CopyResult, ReturnBytes, Return, TypeOK, DeviceOK, LocalsOK, MeOK, Local
      <3>2. /\ kout' = kout /\ task'[t] = task[t] /\ pc[u] = "copy"
            /\ fault_interrupts_read' <=> fault_interrupts_read
        BY <1>2 DEF WriteCopy, fault_interrupts_read
      <3> QED BY <1>0, <3>1, <3>2, QuietReadq, ZenonT(60)
    <2> QED BY <2>2, <2>3
  <1>3. CASE ~WriteWake(u) /\ ~WriteCopy(u)
    <2>1. PICK label \in WriterPc : pc' = [pc EXCEPT ![u] = label] /\ pc[u] # "wake"
      BY <1>3 DEF WriteCall, WriterStep, WriteConnected, WaitPrepare, WriteCompare,
         WriteType, WaitSchedule, WriteRecheck, WriteLock, Leave, WaitOver, Goto,
         ReturnBytes, Return, WriterPc
    <2>2. kin' = kin /\ kout' = kout /\ fault' = fault
      BY ZenonT(60), <1>3 DEF WriteCall, WriterStep, WriteConnected, WaitPrepare, WriteCompare,
         WriteType, WaitSchedule, WriteRecheck, WriteLock, Leave
    <2>3. task'[t] = task[t]
      BY <1>0, <1>3 DEF WriteCall, WriterStep, WriteConnected, WaitPrepare, WriteCompare,
         WriteType, WaitSchedule, WriteRecheck, WriteLock, Leave, WaitOver
    <2>4. pc[u] \notin {"reset", "reset2", "wakeread"}
      BY DEF TypeOK, PcOK, WriterPc
    <2> QED BY ZenonT(60), <1>0, <2>1, <2>2, <2>3, <2>4, QuietReadq DEF fault_interrupts_read
  <1> QED BY <1>1, <1>2, <1>3

\* An ioctl that changes the fault or the FIFO has its wake-up before it.
LEMMA OtherReadq ==
  ASSUME TypeOK, CopiesValid, NEW t \in Threads, NEW u \in Threads, u # t,
         \/ u \in Pollers /\ (PollCall(u) \/ PollTimeout(u) \/ PollerStep(u))
         \/ u \in Controllers /\ (\/ SetFault(u) \/ ReadOnlyIoctl(u) \/ ClearFault(u)
                                  \/ ResetLock(u) \/ ControllerStep(u))
         \/ Interrupt(u)
  PROVE  ReadqStep(t)
  <1> USE DEF device, history
  <1>0. task \in [Threads -> {"running", "interruptible"}]
    BY DEF TypeOK, LocalsOK
  <1>1. CASE u \in Pollers /\ (PollCall(u) \/ PollTimeout(u) \/ PollerStep(u))
    <2>1. PICK label \in PollerPc : pc' = [pc EXCEPT ![u] = label]
      BY ZenonT(60), <1>1 DEF PollCall, PollTimeout, PollerStep, PollType, PollLock, PollSchedule,
         PollReport, Leave, Goto, Return, PollerPc
    <2>2. kin' = kin /\ kout' = kout /\ fault' = fault /\ task'[t] = task[t]
      BY <1>0, <1>1, ZenonT(60) DEF PollCall, PollTimeout, PollerStep, PollType, PollLock,
         PollSchedule, PollReport, Leave
    <2>3. pc[u] \notin {"wake", "reset", "reset2", "wakeread"}
      BY <1>1 DEF TypeOK, PcOK, PollerPc
    <2> QED BY ZenonT(60), <2>1, <2>2, <2>3, QuietReadq DEF fault_interrupts_read
  <1>2. CASE u \in Controllers /\ (ClearFault(u) \/ ResetFault(u) \/ ResetIndex(u) \/ ResetDone(u))
    <2>1. pc'[u] \in {"reset", "reset2", "wakeread"}
      BY <1>2 DEF ClearFault, ResetFault, ResetIndex, ResetDone, Goto, TypeOK, PcOK
    <2>2. ReadqPending'
      BY <1>2, <2>1 DEF ReadqPending
    <2> QED BY <2>2 DEF ReadqStep
  <1>3. CASE u \in Controllers /\ SetFault(u)
    <2>1. CASE pc'[u] = "wakeread"
      BY <1>3, <2>1 DEF ReadqPending, ReadqStep
    <2>2. CASE pc'[u] # "wakeread"
      <3>1. /\ Return(u, "EINVAL") /\ UNCHANGED <<fault, kin, kout, task>>
            /\ pc[u] = "idle"
        BY <1>3, <2>2 DEF SetFault, Goto, TypeOK, PcOK
      <3> QED BY <3>1, QuietReadq, ZenonT(60) DEF Return, fault_interrupts_read
    <2> QED BY <2>1, <2>2
  <1>4. CASE u \in Controllers /\ IoctlWakeRead(u)
    BY <1>0, <1>4 DEF IoctlWakeRead, WakeUp, ReadqStep
  <1>5. CASE u \in Controllers /\ (ReadOnlyIoctl(u) \/ ResetLock(u) \/ IoctlWakeWrite(u) \/ Leave(u))
    <2>1. PICK label \in {"done", "fifolock", "idle"} : pc' = [pc EXCEPT ![u] = label]
      BY <1>5 DEF ReadOnlyIoctl, ResetLock, IoctlWakeWrite, Leave, Goto, Return
    <2>2. /\ kin' = kin /\ kout' = kout /\ fault' = fault
          /\ pc[u] \notin {"wake", "reset", "reset2", "wakeread"}
      BY <1>5 DEF ReadOnlyIoctl, ResetLock, IoctlWakeWrite, Leave
    <2>3. task'[t] \in {task[t], "running"}
      BY <1>0, <1>5 DEF ReadOnlyIoctl, ResetLock, IoctlWakeWrite, Leave, WakeUp
    <2> QED BY <2>1, <2>2, <2>3, QuietReadq, ZenonT(60) DEF fault_interrupts_read
  <1>6. CASE Interrupt(u)
    <2>1. /\ pc' = [pc EXCEPT ![u] = "done"]
          /\ kin' = kin /\ kout' = kout /\ fault' = fault
          /\ pc[u] \notin {"wake", "reset", "reset2", "wakeread"}
      BY <1>6 DEF Interrupt, ReturnBytes, Return
    <2>2. task'[t] = task[t]
      BY <1>0, <1>6 DEF Interrupt
    <2> QED BY <2>1, <2>2, QuietReadq, ZenonT(60) DEF fault_interrupts_read
  <1> QED BY <1>1, <1>2, <1>3, <1>4, <1>5, <1>6 DEF ControllerStep

-----------------------------------------------------------------------------
(* Steps by thread.                                                        *)

Step(u) ==
  \/ u \in Readers /\ (ReadCall(u) \/ ReaderStep(u))
  \/ u \in Writers /\ (WriteCall(u) \/ WriterStep(u))
  \/ u \in Pollers /\ (PollCall(u) \/ PollTimeout(u) \/ PollerStep(u))
  \/ u \in Controllers /\ (\/ SetFault(u) \/ ReadOnlyIoctl(u) \/ ClearFault(u)
                           \/ ResetLock(u) \/ ControllerStep(u))
  \/ Interrupt(u)

\* Every step of the device is a step of one thread.
LEMMA NextIsStep == Next => \E u \in Threads : Step(u)
  BY DEF Next, Step, Threads

\* A step of u changes neither where another thread is nor its locals.
LEMMA StepLocal ==
  ASSUME TypeOK, NEW t \in Threads, NEW u \in Threads, u # t, Step(u)
  PROVE  /\ pc'[t] = pc[t]
         /\ t \in Readers \cup Writers => me'[t] = me[t]
         /\ t \in Pollers => poll'[t] = poll[t]
  <1> USE DEF device, history
  <1>0. MeOK /\ poll \in [Pollers -> PollState]
          /\ pc \in [Threads -> ReaderPc \cup WriterPc \cup PollerPc \cup ControllerPc]
    BY ZenonT(60) DEF TypeOK, LocalsOK, PcOK
  <1>1. CASE u \in Readers /\ (ReadCall(u) \/ ReaderStep(u))
    BY <1>0, <1>1, ZenonT(60)
    DEF ReadCall, ReaderStep, ReadApplyFault, ApplyEio, Spend, ApplyDelay, ApplyPartial,
        ApplyOther, ReadDelayOver, ReadLock, ReadCopy, CopyResult, ReadWake, WaitPrepare,
        ReadCompare, ReadType, WaitSchedule, Leave, WaitOver, Goto, ReturnBytes, Return,
        MeOK
  <1>2. CASE u \in Writers /\ (WriteCall(u) \/ WriterStep(u))
    BY <1>0, <1>2, ZenonT(60)
    DEF WriteCall, WriterStep, WriteConnected, WaitPrepare, WriteCompare, WriteType,
        WaitSchedule, WriteRecheck, WriteLock, WriteCopy, CopyResult, WriteWake, Leave,
        WaitOver, Goto, ReturnBytes, Return, MeOK
  <1>3. CASE u \in Pollers /\ (PollCall(u) \/ PollTimeout(u) \/ PollerStep(u))
    BY <1>0, <1>3
    DEF PollCall, PollTimeout, PollerStep, PollType, PollLock, PollSchedule,
        PollReport, Leave, Goto, Return, MeOK
  <1>4. CASE u \in Controllers /\ (\/ SetFault(u) \/ ReadOnlyIoctl(u) \/ ClearFault(u)
                                   \/ ResetLock(u) \/ ControllerStep(u))
    BY <1>0, <1>4, ZenonT(60)
    DEF SetFault, ReadOnlyIoctl, ClearFault, ResetLock, ControllerStep, ResetFault,
        ResetIndex, ResetDone, IoctlWakeRead, IoctlWakeWrite, Leave, Goto, Return, MeOK
  <1>5. CASE Interrupt(u)
    BY <1>0, <1>5 DEF Interrupt, ReturnBytes, Return, MeOK
  <1> QED BY <1>1, <1>2, <1>3, <1>4, <1>5 DEF Step

\* What holds of the read queue for each kind of thread holds for a step.
LEMMA StepReadq ==
  ASSUME TypeOK, LocksHeld, CopiesValid, NEW t \in Threads, NEW u \in Threads,
         u # t, Step(u)
  PROVE  ReadqStep(t)
  BY ReaderReadq, WriterReadq, OtherReadq DEF Step

-----------------------------------------------------------------------------
(* Readers.                                                                *)

ReaderWaits(r) ==
  /\ Queued(r, "compare") =>
       \/ ReadqPending
       \/ me[r].seen.word = "in" /\ me[r].seen.val = kin
       \/ me[r].seen.word = "out" /\ me[r].seen.val <= kout
  /\ Queued(r, "type") /\ kin # kout => ReadqPending
  /\ Asleep(r) /\ (kin # kout \/ fault_interrupts_read) => ReadqPending

\* The two invariants about waiting readers, one reader at a time.
LEMMA ReaderWaitsAll ==
  ReadersWait /\ ReaderWoken <=> \A r \in Readers : ReaderWaits(r)
  BY DEF ReadersWait, ReaderWoken, ReaderWaits

\* A step of another thread.
LEMMA ReaderWaitsOther ==
  ASSUME TypeOK, NEW r \in Readers, ReaderWaits(r), ReadqStep(r),
         pc'[r] = pc[r], me'[r] = me[r]
  PROVE  ReaderWaits(r)'
  <1>1. CASE r \in OnReadq => task'[r] = "running"
    BY <1>1 DEF OnReadq, Waiting, ReaderWaits, Queued, Asleep
  <1>2. CASE ReadqPending'
    BY <1>2 DEF ReaderWaits
  <1>3. CASE task'[r] = task[r] /\ ReadqQuiet
    <2>1. me[r].seen.val \in Nat /\ kin \in Nat /\ kout \in Nat
      BY DEF TypeOK, LocalsOK, MeOK, Local, DeviceOK
    <2>2. (Queued(r, "compare") <=> Queued(r, "compare")')
            /\ (Queued(r, "type") <=> Queued(r, "type")') /\ (Asleep(r) <=> Asleep(r)')
      BY <1>3 DEF Queued, Asleep
    <2>3. /\ kin' = kin /\ kout' \in kout..kin /\ ~ReadqPending
          /\ fault_interrupts_read' => fault_interrupts_read
      BY <1>3 DEF ReadqQuiet
    <2>4. kin' # kout' => kin # kout
      BY <2>1, <2>3
    <2> QED BY <2>1, <2>2, <2>3, <2>4 DEF ReaderWaits
  <1> QED BY <1>1, <1>2, <1>3 DEF ReadqStep

\* The reader's own steps: only the three of wait_event leave it queued.
LEMMA ReaderWaitsOwn ==
  ASSUME TypeOK, CopiesValid, NEW r \in Readers, ReaderWaits(r), Step(r)
  PROVE  ReaderWaits(r)'
  <1> USE DEF device, history
  <1>0. /\ r \notin Writers \cup Pollers \cup Controllers
        /\ MeOK /\ r \in Readers \cup Writers /\ r \in Threads
        /\ pc \in [Threads -> ReaderPc \cup WriterPc \cup PollerPc \cup ControllerPc]
        /\ task \in [Threads -> {"running", "interruptible"}]
    BY ZenonT(60), RolesAssumption DEF TypeOK, LocalsOK, PcOK, Threads
  <1>1. CASE WaitPrepare(r)
    <2>1. PICK s \in FirstLoad : me' = [me EXCEPT ![r] = [me[r] EXCEPT !.seen = s]]
      BY <1>1, ZenonT(60) DEF WaitPrepare
    <2>2. me'[r].seen = s /\ pc'[r] = "compare" /\ UNCHANGED <<kin, kout>>
      BY <1>0, <1>1, <2>1 DEF WaitPrepare, Goto, MeOK, Local
    <2>3. \/ me'[r].seen.word = "in" /\ me'[r].seen.val = kin'
          \/ me'[r].seen.word = "out" /\ me'[r].seen.val <= kout'
      BY <2>2 DEF FirstLoad, TypeOK, DeviceOK
    <2> QED BY <2>2, <2>3 DEF ReaderWaits, Queued, Asleep
  <1>2. CASE (ReadCompare(r) \/ ReadType(r)) /\ pc'[r] \in Waiting
    <2>1. /\ UNCHANGED <<fault, kin, kout>>
          /\ task' = task
          /\ \/ pc[r] = "compare" /\ SeenEmpty(r) /\ pc'[r] = "type"
             \/ pc[r] = "type" /\ ~fault_interrupts_read /\ pc'[r] = "schedule"
      BY <1>0, <1>2 DEF ReadCompare, ReadType, WaitOver, Goto, Waiting
    <2>2. ReadqPending' <=> ReadqPending
      BY <1>0, <1>2 DEF ReadqPending, ReadCompare, ReadType, WaitOver, Goto, Threads
    <2>3. CASE pc[r] = "compare" /\ SeenEmpty(r) /\ pc'[r] = "type"
      <3>1. Queued(r, "compare") /\ ~ReadqPending => kin = kout
        <4> SUFFICES ASSUME Queued(r, "compare"), ~ReadqPending PROVE kin = kout
          OBVIOUS
        <4>1. kout <= kin
          BY ZenonT(60), OutNotAhead
        <4>2. \/ me[r].seen.word = "in" /\ me[r].seen.val = kin
              \/ me[r].seen.word = "out" /\ me[r].seen.val <= kout
          BY DEF ReaderWaits
        <4>3. me[r].seen.val \in Nat
          BY <1>0 DEF MeOK, Local
        <4> QED BY <2>3, <4>1, <4>2, <4>3 DEF SeenEmpty, SeenLen, TypeOK, DeviceOK
      <3> QED BY ZenonT(60), <2>1, <2>2, <2>3, <3>1 DEF ReaderWaits, Queued, Asleep
    <2>4. CASE pc[r] = "type" /\ ~fault_interrupts_read /\ pc'[r] = "schedule"
      BY ZenonT(60), <2>1, <2>2, <2>4 DEF ReaderWaits, Queued, Asleep, fault_interrupts_read
    <2> QED BY <2>1, <2>3, <2>4
  <1>3. CASE pc'[r] \notin Waiting
    BY ZenonT(60), <1>3 DEF Waiting, ReaderWaits, Queued, Asleep
  <1>4. WaitPrepare(r) \/ ReadCompare(r) \/ ReadType(r) \/ pc'[r] \notin Waiting
    BY ZenonT(60), <1>0
    DEF Step, ReadCall, ReaderStep, ReadApplyFault, ApplyEio, Spend, ApplyDelay,
       ApplyPartial, ApplyOther, ReadDelayOver, ReadLock, ReadCopy, CopyResult, ReadWake,
       WaitSchedule, Leave, Goto, ReturnBytes, Return, Interrupt, Waiting
  <1> QED BY <1>1, <1>2, <1>3, <1>4

\* No reader sleeps past a write or a fault that should end its wait, although
\* the predicate of its wait_event is evaluated without any lock.
THEOREM ReadersNotLost == Spec => []ReaderWoken
  <1>1. Init => ReadersWait /\ ReaderWoken
    BY DEF Init, ReadersWait, ReaderWoken, Queued, Asleep, Threads
  <1>2. TypeOK /\ LocksHeld /\ CopiesValid /\ (ReadersWait /\ ReaderWoken) /\ [Next]_vars
          => (ReadersWait /\ ReaderWoken)'
    <2> SUFFICES ASSUME TypeOK, LocksHeld, CopiesValid, ReadersWait /\ ReaderWoken,
                        [Next]_vars, NEW r \in Readers
                 PROVE  ReaderWaits(r)'
      BY ReaderWaitsAll DEF ReadersWait, ReaderWoken, ReaderWaits
    <2>1. ReaderWaits(r) /\ r \in Threads /\ r \in Readers \cup Writers
      BY ZenonT(60), ReaderWaitsAll DEF Threads
    <2>2. CASE UNCHANGED vars
      BY ZenonT(60), <2>1, <2>2 DEF vars, ReaderWaits, Queued, Asleep, ReadqPending,
         fault_interrupts_read
    <2>3. ASSUME NEW u \in Threads, Step(u)
          PROVE  ReaderWaits(r)'
      BY <2>1, <2>3, StepLocal, StepReadq, ReaderWaitsOther, ReaderWaitsOwn
    <2> QED BY <2>2, <2>3, NextIsStep
  <1> QED BY <1>1, <1>2, TypeCorrect, LocksCorrect, CopiesCorrect, PTL DEF Spec

-----------------------------------------------------------------------------
(* The write queue, seen from t while another thread takes a step.         *)

\* The step makes none of the conditions true that writeq waiters wait for.
WriteqQuiet ==
  /\ kout' = kout
  /\ kin' \in Nat /\ kin <= kin'
  /\ is_disconnected' => is_disconnected
  /\ ~WriteqPending

WriteqStep(t) ==
  \/ t \in OnWriteq => task'[t] = "running"
  \/ WriteqPending'
  \/ task'[t] = task[t] /\ WriteqQuiet

\* A quiet step makes no room.
LEMMA RoomShrinks ==
  ASSUME TypeOK, WriteqQuiet
  PROVE  kfifo_avail' > 0 => kfifo_avail > 0
  <1>1. kin \in Int /\ kout \in Int /\ FifoSize \in Int
    BY BoundsAssumption DEF TypeOK, DeviceOK
  <1>2. kout' = kout /\ kin' \in Int /\ kin <= kin'
    BY DEF WriteqQuiet
  <1>3. \A size, i, j, o \in Int : i <= j /\ size - (j - o) > 0 => size - (i - o) > 0
    OBVIOUS
  <1>4. kfifo_avail' = FifoSize - (kin' - kout) /\ kfifo_avail = FifoSize - (kin - kout)
    BY <1>2 DEF kfifo_avail, kfifo_len
  <1> QED BY <1>1, <1>2, <1>3, <1>4, ZenonT(60)

\* A step that neither frees room nor ends a wake-up of the write queue.
LEMMA QuietWriteq ==
  ASSUME TypeOK, NEW t \in Threads, NEW u \in Threads, NEW label,
         pc' = [pc EXCEPT ![u] = label],
         u \in Writers \/ pc[u] \notin {"wake", "reset", "reset2", "wakeread", "wakewrite"},
         kout' = kout, kin' = kin \/ (kin' \in Nat /\ kin <= kin'),
         is_disconnected' => is_disconnected,
         task'[t] \in {task[t], "running"}
  PROVE  WriteqStep(t)
  <1>1. CASE WriteqPending
    <2>1. WriteqPending'
      BY <1>1, RolesAssumption DEF WriteqPending, TypeOK, PcOK, Threads
    <2> QED BY <2>1 DEF WriteqStep
  <1>2. CASE ~WriteqPending
    <2>1. kin' \in Nat /\ kin <= kin'
      BY DEF TypeOK, DeviceOK
    <2> QED BY <1>2, <2>1 DEF WriteqStep, WriteqQuiet
  <1> QED BY <1>1, <1>2

\* A step of another writer takes no wake-up from the write queue.
LEMMA WriterWriteq ==
  ASSUME TypeOK, NEW t \in Threads, NEW u \in Writers, u # t,
         WriteCall(u) \/ WriterStep(u)
  PROVE  WriteqStep(t)
  <1> USE DEF device, history
  <1>0. u \in Threads /\ task \in [Threads -> {"running", "interruptible"}]
          /\ kin \in Nat /\ kout \in Nat
    BY ZenonT(60) DEF Threads, TypeOK, LocalsOK, DeviceOK
  <1>1. PICK label \in WriterPc : pc' = [pc EXCEPT ![u] = label]
    BY ZenonT(60) DEF WriteCall, WriterStep, WriteConnected, WaitPrepare, WriteCompare, WriteType,
       WaitSchedule, WriteRecheck, WriteLock, WriteCopy, CopyResult, WriteWake, Leave,
       WaitOver, Goto, ReturnBytes, Return, WriterPc
  <1>2. kout' = kout /\ fault' = fault
    BY ZenonT(60) DEF WriteCall, WriterStep, WriteConnected, WaitPrepare, WriteCompare, WriteType,
       WaitSchedule, WriteRecheck, WriteLock, WriteCopy, WriteWake, Leave
  <1>3. task'[t] \in {task[t], "running"}
    BY <1>0, ZenonT(60) DEF WriteCall, WriterStep, WriteConnected, WaitPrepare, WriteCompare,
       WriteType, WaitSchedule, WriteRecheck, WriteLock, WriteCopy, WriteWake, WakeUp,
       Leave, WaitOver
  <1>4. kin' \in Nat /\ kin <= kin'
    <2>1. CASE WriteCopy(u)
      <3>1. PICK k \in 0..me[u].n : kin' = kin + k
        BY ZenonT(60), <2>1 DEF WriteCopy
      <3> QED BY <1>0, <3>1 DEF TypeOK, LocalsOK, MeOK, Local
    <2>2. CASE ~WriteCopy(u)
      BY <1>0, <2>2 DEF WriteCall, WriterStep, WriteConnected, WaitPrepare, WriteCompare,
         WriteType, WaitSchedule, WriteRecheck, WriteLock, WriteWake, Leave
    <2> QED BY <2>1, <2>2
  <1> QED BY ZenonT(60), <1>0, <1>1, <1>2, <1>3, <1>4, QuietWriteq DEF is_disconnected

\* A step of a reader that frees room has the wake-up of writeq before it.
LEMMA ReaderWriteq ==
  ASSUME TypeOK, NEW t \in Threads, NEW u \in Readers, u # t,
         ReadCall(u) \/ ReaderStep(u)
  PROVE  WriteqStep(t)
  <1> USE DEF device, history
  <1>0. u \in Threads /\ task \in [Threads -> {"running", "interruptible"}]
          /\ kin \in Nat /\ kout \in Nat
    BY DEF Threads, TypeOK, LocalsOK, DeviceOK
  <1>1. CASE ReadWake(u)
    BY <1>0, <1>1 DEF ReadWake, WakeUp, WriteqStep
  <1>2. CASE ReadCopy(u)
    <2>1. PICK k \in 0..me[u].n : kout' = kout + k /\ CopyResult(u, k)
      BY <1>2 DEF ReadCopy
    <2>2. CASE k > 0
      <3>1. pc'[u] = "wake"
        BY <1>0, <2>1, <2>2 DEF CopyResult, Goto, TypeOK, PcOK
      <3>2. WriteqPending'
        BY <3>1 DEF WriteqPending
      <3> QED BY <3>2 DEF WriteqStep
    <2>3. CASE ~(k > 0)
      <3>1. kout' = kout /\ pc' = [pc EXCEPT ![u] = "done"]
        BY <1>0, <2>1, <2>3 DEF CopyResult, ReturnBytes, Return, TypeOK, LocalsOK, MeOK, Local
      <3>2. kin' = kin /\ task'[t] = task[t] /\ pc[u] = "copy" /\ fault' = fault
        BY <1>2 DEF ReadCopy
      <3> QED BY ZenonT(60), <1>0, <3>1, <3>2, QuietWriteq DEF is_disconnected
    <2> QED BY <2>2, <2>3
  <1>3. CASE ~ReadWake(u) /\ ~ReadCopy(u)
    <2>1. PICK label \in ReaderPc : pc' = [pc EXCEPT ![u] = label] /\ pc[u] # "wake"
      BY ZenonT(60), <1>3 DEF ReadCall, ReaderStep, ReadApplyFault, ApplyEio, Spend, ApplyDelay,
         ApplyPartial, ApplyOther, ReadDelayOver, ReadLock, WaitPrepare, ReadCompare,
         ReadType, WaitSchedule, Leave, WaitOver, Goto, ReturnBytes, Return, ReaderPc
    <2>2. kin' = kin /\ kout' = kout /\ (is_disconnected' => is_disconnected)
      <3>1. /\ kin' = kin /\ kout' = kout
            /\ fault' = fault \/ fault' = Spend(fault) \/ fault' = NoFault
        BY ZenonT(60), <1>3 DEF ReadCall, ReaderStep, ReadApplyFault, ApplyEio, ApplyDelay,
           ApplyPartial, ApplyOther, ReadDelayOver, ReadLock, WaitPrepare, ReadCompare,
           ReadType, WaitSchedule, Leave
      <3>2. is_disconnected' => is_disconnected
        BY <3>1 DEF is_disconnected, Spend, NoFault, TypeOK, DeviceOK, FaultConfig
      <3> QED BY ZenonT(60), <3>1, <3>2
    <2>3. task'[t] = task[t]
      BY <1>0, <1>3 DEF ReadCall, ReaderStep, ReadApplyFault, ReadDelayOver, ReadLock,
         WaitPrepare, ReadCompare, ReadType, WaitSchedule, Leave, WaitOver
    <2>4. pc[u] \notin {"reset", "reset2", "wakeread", "wakewrite"}
      BY DEF TypeOK, PcOK, ReaderPc
    <2> QED BY ZenonT(60), <1>0, <2>1, <2>2, <2>3, <2>4, QuietWriteq
  <1> QED BY <1>1, <1>2, <1>3

\* An ioctl that connects, disconnects or resets has its wake-up before it.
LEMMA OtherWriteq ==
  ASSUME TypeOK, NEW t \in Threads, NEW u \in Threads, u # t,
         \/ u \in Pollers /\ (PollCall(u) \/ PollTimeout(u) \/ PollerStep(u))
         \/ u \in Controllers /\ (\/ SetFault(u) \/ ReadOnlyIoctl(u) \/ ClearFault(u)
                                  \/ ResetLock(u) \/ ControllerStep(u))
         \/ Interrupt(u)
  PROVE  WriteqStep(t)
  <1> USE DEF device, history
  <1>0. task \in [Threads -> {"running", "interruptible"}] /\ kin \in Nat
    BY DEF TypeOK, LocalsOK, DeviceOK
  <1>1. CASE u \in Pollers /\ (PollCall(u) \/ PollTimeout(u) \/ PollerStep(u))
    <2>1. PICK label \in PollerPc : pc' = [pc EXCEPT ![u] = label]
      BY ZenonT(60), <1>1 DEF PollCall, PollTimeout, PollerStep, PollType, PollLock, PollSchedule,
         PollReport, Leave, Goto, Return, PollerPc
    <2>2. kin' = kin /\ kout' = kout /\ fault' = fault /\ task'[t] = task[t]
      BY <1>0, <1>1, ZenonT(60) DEF PollCall, PollTimeout, PollerStep, PollType, PollLock,
         PollSchedule, PollReport, Leave
    <2>3. pc[u] \notin {"wake", "reset", "reset2", "wakeread", "wakewrite"}
      BY ZenonT(60), <1>1 DEF TypeOK, PcOK, PollerPc
    <2> QED BY ZenonT(60), <1>0, <2>1, <2>2, <2>3, QuietWriteq DEF is_disconnected
  <1>2. CASE u \in Controllers /\ (\/ ClearFault(u) \/ ResetFault(u) \/ ResetIndex(u)
                                   \/ ResetDone(u) \/ IoctlWakeRead(u))
    <2>1. pc'[u] \in {"reset", "reset2", "wakeread", "wakewrite"}
      BY <1>2 DEF ClearFault, ResetFault, ResetIndex, ResetDone, IoctlWakeRead, Goto,
         TypeOK, PcOK
    <2>2. WriteqPending'
      BY <1>2, <2>1 DEF WriteqPending
    <2> QED BY ZenonT(60), <2>2 DEF WriteqStep
  <1>3. CASE u \in Controllers /\ SetFault(u)
    <2>1. CASE pc'[u] = "wakeread"
      BY <1>3, <2>1 DEF WriteqPending, WriteqStep
    <2>2. CASE pc'[u] # "wakeread"
      <3>1. /\ Return(u, "EINVAL") /\ UNCHANGED <<fault, kin, kout, task>>
            /\ pc[u] = "idle"
        BY <1>3, <2>2 DEF SetFault, Goto, TypeOK, PcOK
      <3> QED BY <1>0, <3>1, QuietWriteq, ZenonT(60) DEF Return, is_disconnected
    <2> QED BY <2>1, <2>2
  <1>4. CASE u \in Controllers /\ IoctlWakeWrite(u)
    BY <1>0, <1>4 DEF IoctlWakeWrite, WakeUp, WriteqStep
  <1>5. CASE u \in Controllers /\ (ReadOnlyIoctl(u) \/ ResetLock(u) \/ Leave(u))
    <2>1. PICK label \in {"done", "fifolock", "idle"} : pc' = [pc EXCEPT ![u] = label]
      BY <1>5 DEF ReadOnlyIoctl, ResetLock, Leave, Goto, Return
    <2>2. /\ kin' = kin /\ kout' = kout /\ fault' = fault /\ task' = task
          /\ pc[u] \notin {"wake", "reset", "reset2", "wakeread", "wakewrite"}
      BY <1>5 DEF ReadOnlyIoctl, ResetLock, Leave
    <2> QED BY <1>0, <2>1, <2>2, QuietWriteq, ZenonT(60) DEF is_disconnected
  <1>6. CASE Interrupt(u)
    <2>1. /\ pc' = [pc EXCEPT ![u] = "done"]
          /\ kin' = kin /\ kout' = kout /\ fault' = fault
          /\ pc[u] \notin {"wake", "reset", "reset2", "wakeread", "wakewrite"}
      BY <1>6 DEF Interrupt, ReturnBytes, Return
    <2>2. task'[t] = task[t]
      BY <1>0, <1>6 DEF Interrupt
    <2> QED BY ZenonT(60), <1>0, <2>1, <2>2, QuietWriteq DEF is_disconnected
  <1> QED BY <1>1, <1>2, <1>3, <1>4, <1>5, <1>6 DEF ControllerStep

\* What holds of the write queue for each kind of thread holds for a step.
LEMMA StepWriteq ==
  ASSUME TypeOK, NEW t \in Threads, NEW u \in Threads, u # t, Step(u)
  PROVE  WriteqStep(t)
  BY ReaderWriteq, WriterWriteq, OtherWriteq DEF Step

-----------------------------------------------------------------------------
(* Writers.                                                                *)

WriterWaits(w) ==
  /\ Queued(w, "compare") =>
       \/ WriteqPending
       \/ me[w].seen.word = "out" /\ me[w].seen.val = kout
       \/ me[w].seen.word = "in" /\ me[w].seen.val \in kout..kin
  /\ Queued(w, "type") /\ kfifo_avail > 0 => WriteqPending
  /\ Asleep(w) /\ (kfifo_avail > 0 \/ is_disconnected) => WriteqPending

\* The two invariants about waiting writers, one writer at a time.
LEMMA WriterWaitsAll ==
  WritersWait /\ WriterWoken <=> \A w \in Writers : WriterWaits(w)
  BY DEF WritersWait, WriterWoken, WriterWaits

\* A step of another thread.
LEMMA WriterWaitsOther ==
  ASSUME TypeOK, NEW w \in Writers, WriterWaits(w), WriteqStep(w),
         pc'[w] = pc[w], me'[w] = me[w]
  PROVE  WriterWaits(w)'
  <1>1. CASE w \in OnWriteq => task'[w] = "running"
    BY ZenonT(60), <1>1 DEF OnWriteq, Waiting, WriterWaits, Queued, Asleep
  <1>2. CASE WriteqPending'
    BY ZenonT(60), <1>2 DEF WriterWaits
  <1>3. CASE task'[w] = task[w] /\ WriteqQuiet
    <2>1. me[w].seen.val \in Nat /\ kin \in Nat /\ kout \in Nat
      BY DEF TypeOK, LocalsOK, MeOK, Local, DeviceOK
    <2>2. (Queued(w, "compare") <=> Queued(w, "compare")')
            /\ (Queued(w, "type") <=> Queued(w, "type")') /\ (Asleep(w) <=> Asleep(w)')
      BY <1>3 DEF Queued, Asleep
    <2>3. /\ kout' = kout /\ kin' \in Nat /\ kin <= kin' /\ ~WriteqPending
          /\ is_disconnected' => is_disconnected
      BY ZenonT(60), <1>3 DEF WriteqQuiet
    <2>4. kfifo_avail' > 0 => kfifo_avail > 0
      BY ZenonT(60), <1>3, RoomShrinks
    <2>5. me[w].seen.val \in kout..kin => me[w].seen.val \in kout'..kin'
      BY <2>1, <2>3
    <2> QED BY ZenonT(60), <2>2, <2>3, <2>4, <2>5 DEF WriterWaits
  <1> QED BY <1>1, <1>2, <1>3 DEF WriteqStep

\* A step of the writer itself.
LEMMA WriterWaitsOwn ==
  ASSUME TypeOK, CopiesValid, NEW w \in Writers, WriterWaits(w), Step(w)
  PROVE  WriterWaits(w)'
  <1> USE DEF device, history
  <1>0. /\ w \notin Readers \cup Pollers \cup Controllers
        /\ MeOK /\ w \in Readers \cup Writers /\ w \in Threads
        /\ pc \in [Threads -> ReaderPc \cup WriterPc \cup PollerPc \cup ControllerPc]
        /\ task \in [Threads -> {"running", "interruptible"}]
    BY ZenonT(60), RolesAssumption DEF TypeOK, LocalsOK, PcOK, Threads
  <1>1. CASE (WaitPrepare(w) \/ WriteConnected(w)) /\ pc'[w] = "compare"
    <2>1. PICK s \in FirstLoad : me' = [me EXCEPT ![w] = [me[w] EXCEPT !.seen = s]]
      BY <1>0, <1>1 DEF WaitPrepare, WriteConnected, Goto, ReturnBytes, Return
    <2>2. me'[w].seen = s /\ UNCHANGED <<kin, kout>>
      BY <1>0, <1>1, <2>1 DEF WaitPrepare, WriteConnected, MeOK, Local
    <2>3. WriteqPending' <=> WriteqPending
      BY <1>0, <1>1 DEF WriteqPending, WaitPrepare, WriteConnected, Goto, ReturnBytes,
         Return, Threads
    <2>4. \/ WriteqPending'
          \/ me'[w].seen.word = "out" /\ me'[w].seen.val = kout'
          \/ me'[w].seen.word = "in" /\ me'[w].seen.val \in kout'..kin'
      <3> SUFFICES ASSUME ~WriteqPending
                   PROVE  \/ s.word = "out" /\ s.val = kout
                          \/ s.word = "in" /\ s.val \in kout..kin
        BY ZenonT(60), <2>2, <2>3
      <3>1. kout <= kin
        BY ZenonT(60), OutNotAhead
      <3> QED BY <3>1 DEF FirstLoad, TypeOK, DeviceOK
    <2> QED BY <1>1, <2>4 DEF WriterWaits, Queued, Asleep
  <1>2. CASE (WriteCompare(w) \/ WriteType(w)) /\ pc'[w] \in Waiting
    <2>1. /\ UNCHANGED <<fault, kin, kout>>
          /\ task' = task
          /\ \/ pc[w] = "compare" /\ SeenFull(w) /\ pc'[w] = "type"
             \/ pc[w] = "type" /\ ~is_disconnected /\ pc'[w] = "schedule"
      BY <1>0, <1>2 DEF WriteCompare, WriteType, WaitOver, Goto, ReturnBytes, Return, Waiting
    <2>2. WriteqPending' <=> WriteqPending
      BY SMTT(60), <1>0, <1>2 DEF WriteqPending, WriteCompare, WriteType, WaitOver, Goto,
         ReturnBytes, Return, Threads
    <2>3. CASE pc[w] = "compare" /\ SeenFull(w) /\ pc'[w] = "type"
      <3>1. Queued(w, "compare") /\ ~WriteqPending => ~(kfifo_avail > 0)
        <4> SUFFICES ASSUME Queued(w, "compare"), ~WriteqPending PROVE ~(kfifo_avail > 0)
          BY ZenonT(60)
        <4>1. kout <= kin
          BY ZenonT(60), OutNotAhead
        <4>2. \/ me[w].seen.word = "out" /\ me[w].seen.val = kout
              \/ me[w].seen.word = "in" /\ me[w].seen.val \in kout..kin
          BY DEF WriterWaits
        <4> QED BY <2>3, <4>1, <4>2, BoundsAssumption
              DEF SeenFull, SeenLen, kfifo_avail, kfifo_len, TypeOK, DeviceOK
      <3>2. kfifo_avail' = kfifo_avail
        BY <2>1 DEF kfifo_avail, kfifo_len
      <3> QED BY ZenonT(60), <2>1, <2>2, <2>3, <3>1, <3>2 DEF WriterWaits, Queued, Asleep
    <2>4. CASE pc[w] = "type" /\ ~is_disconnected /\ pc'[w] = "schedule"
      BY ZenonT(60), <2>1, <2>2, <2>4 DEF WriterWaits, Queued, Asleep, is_disconnected,
         kfifo_avail, kfifo_len
    <2> QED BY <2>1, <2>3, <2>4
  <1>3. CASE pc'[w] \notin Waiting
    BY ZenonT(60), <1>3 DEF Waiting, WriterWaits, Queued, Asleep
  <1>4. \/ (WaitPrepare(w) \/ WriteConnected(w)) /\ pc'[w] = "compare"
        \/ WriteCompare(w) \/ WriteType(w) \/ pc'[w] \notin Waiting
    BY ZenonT(60), <1>0
    DEF Step, WriteCall, WriterStep, WriteConnected, WaitPrepare, WriteRecheck,
       WriteLock, WriteCopy, CopyResult, WriteWake, WaitSchedule, Leave, Goto,
       ReturnBytes, Return, Interrupt, Waiting
  <1> QED BY <1>1, <1>2, <1>3, <1>4

\* No writer sleeps past the room or the disconnect that should end its wait.
THEOREM WritersNotLost == Spec => []WriterWoken
  <1>1. Init => WritersWait /\ WriterWoken
    BY DEF Init, WritersWait, WriterWoken, Queued, Asleep, Threads
  <1>2. TypeOK /\ CopiesValid /\ (WritersWait /\ WriterWoken) /\ [Next]_vars
          => (WritersWait /\ WriterWoken)'
    <2> SUFFICES ASSUME TypeOK, CopiesValid, WritersWait /\ WriterWoken,
                        [Next]_vars, NEW w \in Writers
                 PROVE  WriterWaits(w)'
      BY WriterWaitsAll, ZenonT(60) DEF WritersWait, WriterWoken, WriterWaits
    <2>1. WriterWaits(w) /\ w \in Threads /\ w \in Readers \cup Writers
      BY ZenonT(60), WriterWaitsAll DEF Threads
    <2>2. CASE UNCHANGED vars
      BY ZenonT(60), <2>1, <2>2 DEF vars, WriterWaits, Queued, Asleep, WriteqPending,
         is_disconnected, kfifo_avail, kfifo_len
    <2>3. ASSUME NEW u \in Threads, Step(u)
          PROVE  WriterWaits(w)'
      BY ZenonT(60), <2>1, <2>3, StepLocal, StepWriteq, WriterWaitsOther, WriterWaitsOwn
    <2> QED BY ZenonT(60), <2>2, <2>3, NextIsStep
  <1> QED BY <1>1, <1>2, TypeCorrect, CopiesCorrect, PTL DEF Spec

-----------------------------------------------------------------------------
(* Pollers, which are on both queues.                                      *)

PollerWaitsRead(p) ==
  /\ Queued(p, "lock") /\ fault_interrupts_read => ReadqPending
  /\ Asleep(p) /\ (fault_interrupts_read \/ ("IN" \in poll[p].want /\ kin # kout))
       => ReadqPending

PollerWaitsWrite(p) ==
  Asleep(p) /\ "OUT" \in poll[p].want /\ kfifo_avail > 0 => WriteqPending

\* The two invariants about waiting polls, one poll and one queue at a time.
LEMMA PollerWaitsAll ==
  PollersWait /\ PollerWoken
    <=> \A p \in Pollers : PollerWaitsRead(p) /\ PollerWaitsWrite(p)
  BY DEF PollersWait, PollerWoken, PollerWaitsRead, PollerWaitsWrite

\* A step of another thread.
LEMMA PollerWaitsOther ==
  ASSUME TypeOK, NEW p \in Pollers, PollerWaitsRead(p), PollerWaitsWrite(p),
         ReadqStep(p), WriteqStep(p), pc'[p] = pc[p], poll'[p] = poll[p]
  PROVE  PollerWaitsRead(p)' /\ PollerWaitsWrite(p)'
  <1>0. kin \in Nat /\ kout \in Nat
    BY DEF TypeOK, DeviceOK
  <1>1. PollerWaitsRead(p)'
    <2>1. CASE p \in OnReadq => task'[p] = "running"
      BY ZenonT(60), <2>1 DEF OnReadq, PollQueued, PollerWaitsRead, Queued, Asleep
    <2>2. CASE ReadqPending'
      BY ZenonT(60), <2>2 DEF PollerWaitsRead
    <2>3. CASE task'[p] = task[p] /\ ReadqQuiet
      <3>1. (Queued(p, "lock") <=> Queued(p, "lock")') /\ (Asleep(p) <=> Asleep(p)')
        BY ZenonT(60), <2>3 DEF Queued, Asleep
      <3>2. ~ReadqPending /\ (fault_interrupts_read' => fault_interrupts_read)
        BY <2>3 DEF ReadqQuiet
      <3>3. kin' # kout' => kin # kout
        BY SMTT(60), <1>0, <2>3 DEF ReadqQuiet
      <3> QED BY <3>1, <3>2, <3>3, ZenonT(60) DEF PollerWaitsRead
    <2> QED BY ZenonT(60), <2>1, <2>2, <2>3 DEF ReadqStep
  <1>2. PollerWaitsWrite(p)'
    <2>1. CASE p \in OnWriteq => task'[p] = "running"
      BY ZenonT(60), <2>1 DEF OnWriteq, PollQueued, PollerWaitsWrite, Asleep
    <2>2. CASE WriteqPending'
      BY <2>2 DEF PollerWaitsWrite
    <2>3. CASE task'[p] = task[p] /\ WriteqQuiet
      <3>1. kfifo_avail' > 0 => kfifo_avail > 0
        BY <2>3, RoomShrinks
      <3> QED BY <2>3, <3>1 DEF WriteqQuiet, PollerWaitsWrite, Asleep
    <2> QED BY <2>1, <2>2, <2>3 DEF WriteqStep
  <1> QED BY <1>1, <1>2

\* A step of the poll itself.
LEMMA PollerWaitsOwn ==
  ASSUME TypeOK, NEW p \in Pollers, PollerWaitsRead(p), PollerWaitsWrite(p), Step(p)
  PROVE  PollerWaitsRead(p)' /\ PollerWaitsWrite(p)'
  <1> USE DEF device, history
  <1>0. /\ p \notin Readers \cup Writers \cup Controllers
        /\ p \in Threads
        /\ pc \in [Threads -> ReaderPc \cup WriterPc \cup PollerPc \cup ControllerPc]
        /\ task \in [Threads -> {"running", "interruptible"}]
        /\ kin \in Nat /\ kout \in Nat
    BY RolesAssumption DEF TypeOK, LocalsOK, PcOK, DeviceOK, Threads
  <1>1. CASE PollType(p) /\ pc'[p] = "lock"
    BY ZenonT(60), <1>0, <1>1 DEF PollType, PollReport, Return, Goto, fault_interrupts_read,
       PollerWaitsRead, PollerWaitsWrite, Queued, Asleep
  <1>2. CASE PollLock(p) /\ pc'[p] = "schedule"
    <2>1. /\ Ready \cap poll[p].want = {}
          /\ UNCHANGED <<fault, kin, kout, task, poll>> /\ pc[p] = "lock"
          /\ pc' = [pc EXCEPT ![p] = "schedule"]
      BY ZenonT(60), <1>0, <1>2 DEF PollLock, PollReport, Return, Goto
    <2>2. ReadqPending' <=> ReadqPending
      BY <1>0, <2>1, ZenonT(60) DEF ReadqPending, Threads
    <2>3. "IN" \in poll[p].want => kin = kout
      BY <1>0, <2>1 DEF Ready, kfifo_len
    <2>4. "OUT" \in poll[p].want => ~(kfifo_avail > 0)
      BY <2>1 DEF Ready
    <2>5. kfifo_avail' = kfifo_avail
      BY ZenonT(60), <2>1 DEF kfifo_avail, kfifo_len
    <2> QED BY <2>1, <2>2, <2>3, <2>4, <2>5, ZenonT(60)
          DEF PollerWaitsRead, PollerWaitsWrite, Queued, Asleep, fault_interrupts_read
  <1>3. CASE pc'[p] \notin {"lock", "schedule"}
    BY <1>3 DEF PollerWaitsRead, PollerWaitsWrite, Queued, Asleep
  <1>4. PollType(p) => pc'[p] \in {"lock", "done"}
    BY <1>0 DEF PollType, PollReport, Return, Goto
  <1>5. PollLock(p) => pc'[p] \in {"schedule", "done"}
    BY <1>0 DEF PollLock, PollReport, Return, Goto
  <1>6. PollType(p) \/ PollLock(p) \/ pc'[p] \in {"type", "idle", "done"}
    BY ZenonT(60), <1>0 DEF Step, PollCall, PollTimeout, PollerStep, PollSchedule, Leave, Goto,
       Return, Interrupt
  <1> QED BY <1>1, <1>2, <1>3, <1>4, <1>5, <1>6

\* No poll(2) sleeps past an event it asked for or a fault: data and faults
\* reach it through readq, room through writeq.
THEOREM PollersNotLost == Spec => []PollerWoken
  <1>1. Init => PollersWait /\ PollerWoken
    BY DEF Init, PollersWait, PollerWoken, Queued, Asleep, Threads
  <1>2. TypeOK /\ LocksHeld /\ CopiesValid /\ (PollersWait /\ PollerWoken) /\ [Next]_vars
          => (PollersWait /\ PollerWoken)'
    <2> SUFFICES ASSUME TypeOK, LocksHeld, CopiesValid, PollersWait /\ PollerWoken,
                        [Next]_vars, NEW p \in Pollers
                 PROVE  PollerWaitsRead(p)' /\ PollerWaitsWrite(p)'
      BY PollerWaitsAll DEF PollersWait, PollerWoken, PollerWaitsRead, PollerWaitsWrite
    <2>1. PollerWaitsRead(p) /\ PollerWaitsWrite(p) /\ p \in Threads
      BY ZenonT(60), PollerWaitsAll DEF Threads
    <2>2. CASE UNCHANGED vars
      BY ZenonT(60), <2>1, <2>2 DEF vars, PollerWaitsRead, PollerWaitsWrite, Queued, Asleep,
         ReadqPending, WriteqPending, fault_interrupts_read, kfifo_avail, kfifo_len
    <2>3. ASSUME NEW u \in Threads, Step(u)
          PROVE  PollerWaitsRead(p)' /\ PollerWaitsWrite(p)'
      BY <2>1, <2>3, StepLocal, StepReadq, StepWriteq, PollerWaitsOther, PollerWaitsOwn, ZenonT(60)
    <2> QED BY ZenonT(60), <2>2, <2>3, NextIsStep
  <1> QED BY <1>1, <1>2, TypeCorrect, LocksCorrect, CopiesCorrect, PTL DEF Spec
=============================================================================

-------------------------- MODULE VDevSafetyProofs --------------------------
(***************************************************************************)
(* The safety properties of VDevCore for every number of threads, every    *)
(* FIFO size and every set of fault records.                               *)
(***************************************************************************)
EXTENDS VDevCore, TLAPS

-----------------------------------------------------------------------------
(* Type correctness.                                                       *)

\* A thread that moves to a label of its own kind keeps PcOK.
LEMMA ReaderGoto ==
  ASSUME PcOK, NEW r \in Readers, NEW label \in ReaderPc,
         pc' = [pc EXCEPT ![r] = label]
  PROVE  PcOK'
  BY RolesAssumption DEF PcOK, Threads

\* The same for a writer that moves to a label of vdevlab_write.
LEMMA WriterGoto ==
  ASSUME PcOK, NEW w \in Writers, NEW label \in WriterPc,
         pc' = [pc EXCEPT ![w] = label]
  PROVE  PcOK'
  BY RolesAssumption DEF PcOK, Threads

\* The same for a poller and the labels of poll(2).
LEMMA PollerGoto ==
  ASSUME PcOK, NEW p \in Pollers, NEW label \in PollerPc,
         pc' = [pc EXCEPT ![p] = label]
  PROVE  PcOK'
  BY RolesAssumption DEF PcOK, Threads

\* The same for a controller and the labels of vdevlab_ioctl.
LEMMA ControllerGoto ==
  ASSUME PcOK, NEW c \in Controllers, NEW label \in ControllerPc,
         pc' = [pc EXCEPT ![c] = label]
  PROVE  PcOK'
  BY RolesAssumption DEF PcOK, Threads

\* The ways in which a call updates its locals keep their type.
LEMMA MeUpdate ==
  ASSUME MeOK, NEW t \in Readers \cup Writers, NEW l \in Local,
         me' = [me EXCEPT ![t] = l]
  PROVE  MeOK'
  BY DEF MeOK

\* The locals keep their type when a read or a write is called,
LEMMA MeCall ==
  ASSUME MeOK, NEW t \in Readers \cup Writers,
         \E c \in 1..MaxCount, nb \in Modes :
           me' = [me EXCEPT ![t].count = c, ![t].nonblock = nb]
  PROVE  MeOK'
  <1>1. PICK c \in 1..MaxCount, nb \in Modes :
          me' = [me EXCEPT ![t].count = c, ![t].nonblock = nb]
    BY ZenonT(60)
  <1>5. c \in Nat
    BY BoundsAssumption
  <1>6. nb \in BOOLEAN
    BY BoundsAssumption
  <1> DEFINE l == [me[t] EXCEPT !.count = c, !.nonblock = nb]
  <1>2. me[t] \in Local
    BY DEF MeOK
  <1>3. l \in Local
    BY <1>2, <1>5, <1>6, ZenonT(60) DEF Local
  <1>4. me' = [me EXCEPT ![t] = l]
    BY <1>1, ZenonT(60)
  <1> HIDE DEF l
  <1> QED BY <1>3, <1>4, MeUpdate, ZenonT(60)

\* when a read notes that it was delayed,
LEMMA MeDelayed ==
  ASSUME MeOK, NEW t \in Readers \cup Writers,
         me' = [me EXCEPT ![t].delayed = TRUE]
  PROVE  MeOK'
  <1> DEFINE l == [me[t] EXCEPT !.delayed = TRUE]
  <1>1. me[t] \in Local
    BY DEF MeOK
  <1>2. l \in Local
    BY <1>1, ZenonT(60) DEF Local
  <1>3. me' = [me EXCEPT ![t] = l]
    OBVIOUS
  <1> HIDE DEF l
  <1> QED BY <1>2, <1>3, MeUpdate, ZenonT(60)

\* when a read adopts a partial-read limit,
LEMMA MePartial ==
  ASSUME MeOK, NEW t \in Readers \cup Writers, NEW k \in Nat,
         me' = [me EXCEPT ![t].partial = k]
  PROVE  MeOK'
  <1> DEFINE l == [me[t] EXCEPT !.partial = k]
  <1>1. me[t] \in Local
    BY DEF MeOK
  <1>2. l \in Local
    BY <1>1 DEF Local
  <1>3. me' = [me EXCEPT ![t] = l]
    OBVIOUS
  <1> HIDE DEF l
  <1> QED BY <1>2, <1>3, MeUpdate, ZenonT(60)

\* when a waiter loads the first index of its predicate,
LEMMA MeSeen ==
  ASSUME MeOK, NEW t \in Readers \cup Writers, NEW s \in [word : {"in", "out"}, val : Nat],
         me' = [me EXCEPT ![t].seen = s]
  PROVE  MeOK'
  <1> DEFINE l == [me[t] EXCEPT !.seen = s]
  <1>1. me[t] \in Local
    BY DEF MeOK
  <1>2. l \in Local
    BY <1>1 DEF Local
  <1>3. me' = [me EXCEPT ![t] = l]
    OBVIOUS
  <1> HIDE DEF l
  <1> QED BY <1>2, <1>3, MeUpdate, ZenonT(60)

\* when a read computes what it copies,
LEMMA MeCopy ==
  ASSUME MeOK, NEW t \in Readers \cup Writers, NEW i \in Nat, NEW k \in Int,
         me' = [me EXCEPT ![t].from = i, ![t].n = k]
  PROVE  MeOK'
  <1> DEFINE l == [me[t] EXCEPT !.from = i, !.n = k]
  <1>1. me[t] \in Local
    BY DEF MeOK
  <1>2. l \in Local
    BY <1>1, ZenonT(60) DEF Local
  <1>3. me' = [me EXCEPT ![t] = l]
    BY ZenonT(60)
  <1> HIDE DEF l
  <1> QED BY <1>2, <1>3, MeUpdate, ZenonT(60)

\* when a write does, or a copy ends,
LEMMA MeCount ==
  ASSUME MeOK, NEW t \in Readers \cup Writers, NEW k \in Int,
         me' = [me EXCEPT ![t].n = k]
  PROVE  MeOK'
  <1> DEFINE l == [me[t] EXCEPT !.n = k]
  <1>1. me[t] \in Local
    BY DEF MeOK
  <1>2. l \in Local
    BY <1>1 DEF Local
  <1>3. me' = [me EXCEPT ![t] = l]
    OBVIOUS
  <1> HIDE DEF l
  <1> QED BY <1>2, <1>3, MeUpdate, ZenonT(60)

\* and when the call returns.
LEMMA MeReturn ==
  ASSUME MeOK, NEW t \in Readers \cup Writers, NEW code, NEW k \in Int,
         ReturnBytes(t, code, k)
  PROVE  MeOK'
  <1>1. [NoCall EXCEPT !.n = k] \in Local
    BY ZenonT(60) DEF NoCall, NoLoad, Local
  <1> QED BY <1>1, MeUpdate, ZenonT(60) DEF ReturnBytes

\* What reads and writes share.
LEMMA ReturnType ==
  ASSUME TypeOK, NEW t \in Readers \cup Writers, NEW code \in Codes, NEW k \in Int,
         ReturnBytes(t, code, k)
  PROVE  PcOK' /\ MeOK' /\ err' \in [Threads -> Codes]
  <1>1. MeOK'
    BY ZenonT(60), MeReturn DEF TypeOK, LocalsOK
  <1>2. PcOK'
    BY ReaderGoto, WriterGoto, ZenonT(60) DEF TypeOK, ReturnBytes, Return, ReaderPc, WriterPc
  <1> QED BY <1>1, <1>2 DEF TypeOK, LocalsOK, ReturnBytes, Return, Threads

\* The end of a copy (vdevlab_read, vdevlab_write) preserves the types.
LEMMA CopyType ==
  ASSUME TypeOK, NEW t \in Readers \cup Writers, NEW k \in Nat,
         CopyResult(t, k), DeviceOK', UNCHANGED <<task, poll>>
  PROVE  TypeOK'
  <1>1. CASE k > 0
    <2>1. PcOK'
      BY <1>1, ReaderGoto, WriterGoto
      DEF TypeOK, CopyResult, Goto, ReaderPc, WriterPc
    <2>2. MeOK'
      BY <1>1, MeCount DEF TypeOK, LocalsOK, CopyResult
    <2> QED BY <1>1, <2>1, <2>2 DEF TypeOK, LocalsOK, CopyResult
  <1>2. CASE ~(k > 0)
    <2>1. PICK code \in {"EFAULT", "OK"} : ReturnBytes(t, code, 0)
      BY <1>2 DEF CopyResult
    <2>2. code \in Codes
      BY DEF Codes
    <2> QED BY <2>1, <2>2, ReturnType DEF TypeOK, LocalsOK
  <1> QED BY <1>1, <1>2

\* wake_up_interruptible leaves every thread in a scheduler state.
LEMMA WakeType ==
  ASSUME LocalsOK, NEW queue, WakeUp(queue)
  PROVE  task' \in [Threads -> {"running", "interruptible"}]
  BY DEF LocalsOK, WakeUp

\* The wake-up that ends a read or a write preserves the types.
LEMMA WakeDoneType ==
  ASSUME TypeOK, NEW t \in Readers \cup Writers, NEW queue, WakeUp(queue),
         ReturnBytes(t, "OK", me[t].n), UNCHANGED <<device, history, poll>>
  PROVE  TypeOK'
  <1>1. "OK" \in Codes /\ me[t].n \in Int
    BY DEF Codes, TypeOK, LocalsOK, MeOK, Local
  <1>2. PcOK' /\ MeOK' /\ err' \in [Threads -> Codes]
    BY <1>1, ReturnType
  <1>3. task' \in [Threads -> {"running", "interruptible"}]
    BY WakeType DEF TypeOK
  <1> QED BY <1>2, <1>3 DEF TypeOK, DeviceOK, LocalsOK, device, history

\* So do the steps of wait_event_interruptible that readers and writers share,
LEMMA WaitType ==
  ASSUME TypeOK, NEW t \in Readers \cup Writers, WaitPrepare(t) \/ WaitSchedule(t)
  PROVE  TypeOK'
  <1> USE DEF TypeOK, device, history
  <1>1. CASE WaitPrepare(t)
    <2>1. PcOK'
      BY <1>1, ReaderGoto, WriterGoto, ZenonT(60) DEF WaitPrepare, Goto, ReaderPc, WriterPc
    <2>2. FirstLoad \subseteq [word : {"in", "out"}, val : Nat]
      BY DEF FirstLoad, DeviceOK
    <2>3. MeOK'
      BY <1>1, <2>2, MeSeen, ZenonT(60) DEF WaitPrepare, LocalsOK
    <2> QED BY ZenonT(60), <1>1, <2>1, <2>3 DEF WaitPrepare, LocalsOK, DeviceOK, Threads
  <1>2. CASE WaitSchedule(t)
    <2>1. PcOK'
      BY <1>2, ReaderGoto, WriterGoto, ZenonT(60) DEF WaitSchedule, Goto, ReaderPc, WriterPc
    <2> QED BY <1>2, <2>1 DEF WaitSchedule, LocalsOK, MeOK, DeviceOK
  <1> QED BY <1>1, <1>2

\* and the return to user space.
LEMMA LeaveType ==
  ASSUME TypeOK, NEW t \in Threads, Leave(t)
  PROVE  TypeOK'
  <1> USE DEF TypeOK, device, history, Leave
  <1>1. PcOK'
    BY ReaderGoto, WriterGoto, PollerGoto, ControllerGoto, ZenonT(60)
    DEF Goto, Threads, ReaderPc, WriterPc, PollerPc, ControllerPc
  <1>2. NoCall \in Local
    BY DEF NoCall, NoLoad, Local
  <1>3. MeOK'
    BY <1>2, MeUpdate DEF LocalsOK, MeOK
  <1>4. poll' \in [Pollers -> PollState]
    BY DEF LocalsOK, NoPoll, PollState
  <1>5. err' \in [Threads -> Codes]
    BY DEF LocalsOK, Codes
  <1> QED BY ZenonT(60), <1>1, <1>3, <1>4, <1>5 DEF LocalsOK, DeviceOK

\* The state after vdevlab_init has the types.
LEMMA InitType == Init => TypeOK
  <1> SUFFICES ASSUME Init PROVE TypeOK
    OBVIOUS
  <1>1. NoCall \in Local
    BY DEF NoCall, NoLoad, Local
  <1>2. LocalsOK
    BY <1>1 DEF Init, LocalsOK, MeOK, NoPoll, PollState, Codes
  <1>3. PcOK
    BY RolesAssumption DEF Init, PcOK, Threads, ReaderPc, WriterPc, PollerPc, ControllerPc
  <1>4. DeviceOK
    BY DEF Init, DeviceOK, NoFault, FaultConfig, FaultTypes
  <1> QED BY <1>2, <1>3, <1>4 DEF TypeOK

\* Every step of vdevlab_read preserves the types.
LEMMA ReaderType ==
  ASSUME TypeOK, NEW r \in Readers, ReadCall(r) \/ ReaderStep(r)
  PROVE  TypeOK'
  <1> USE DEF TypeOK, device, history
  <1>1. CASE ReadCall(r)
    <2>1. PcOK'
      BY <1>1, ReaderGoto, ZenonT(60) DEF ReadCall, Goto, ReaderPc
    <2>2. r \in Readers \cup Writers /\ MeOK
      BY DEF LocalsOK
    <2>3. MeOK'
      BY <1>1, <2>2, MeCall, Zenon DEF ReadCall
    <2> QED BY ZenonT(60), <1>1, <2>1, <2>3 DEF ReadCall, DeviceOK, LocalsOK
  <1>2. CASE ReadApplyFault(r)
    <2> USE DEF ReadApplyFault, ApplyEio, Spend, ApplyDelay, ApplyPartial, ApplyOther
    <2>1. PcOK'
      BY <1>2, ReaderGoto DEF ReaderPc, Goto, Return, ReturnBytes
    <2>2. DeviceOK'
      BY <1>2 DEF DeviceOK, NoFault, FaultConfig, FaultTypes
    <2>3. MeOK'
      <3>1. CASE ApplyEio(r) \/ ApplyOther(r)
        BY <3>1, MeReturn DEF LocalsOK, MeOK
      <3>2. CASE ApplyDelay(r)
        BY <3>2, MeDelayed, ZenonT(60) DEF LocalsOK
      <3>3. CASE ApplyPartial(r)
        <4>1. fault.partial_read_bytes \in Nat
          BY DEF DeviceOK, FaultConfig
        <4> QED BY <3>3, <4>1, MePartial, ZenonT(60) DEF LocalsOK
      <3> QED BY <1>2, <3>1, <3>2, <3>3
    <2>4. LocalsOK'
      BY <1>2, <2>3 DEF Return, ReturnBytes, LocalsOK, Codes, Threads
    <2> QED BY <2>1, <2>2, <2>4
  <1>3. CASE ReadDelayOver(r)
    <2>1. PcOK'
      BY <1>3, ReaderGoto, ZenonT(60) DEF ReadDelayOver, Goto, ReaderPc
    <2> QED BY ZenonT(60), <1>3, <2>1 DEF ReadDelayOver, DeviceOK, LocalsOK, MeOK
  <1>4. CASE ReadLock(r)
    <2>1. PcOK'
      BY <1>4, ReaderGoto DEF ReadLock, Goto, Return, ReturnBytes, ReaderPc
    <2>2. DeviceOK'
      BY <1>4 DEF ReadLock, DeviceOK, Threads
    <2>3. MeOK'
      <3>1. ToCopy(r) \in Int
        BY DEF ToCopy, min, kfifo_len, DeviceOK, LocalsOK, MeOK, Local
      <3>2. CASE kfifo_len # 0
        BY <1>4, <3>1, <3>2, MeCopy DEF ReadLock, LocalsOK, DeviceOK
      <3>3. CASE kfifo_len = 0
        BY <1>4, <3>3, MeReturn DEF ReadLock, LocalsOK, MeOK
      <3> QED BY <3>2, <3>3
    <2> QED BY <1>4, <2>1, <2>2, <2>3
          DEF ReadLock, LocalsOK, Return, ReturnBytes, Codes, Threads
  <1>5. CASE ReadCopy(r)
    <2>1. PICK k \in 0..me[r].n :
            /\ kout' = kout + k
            /\ last' = IF k = 0 THEN last ELSE ByteAt(me[r].from + k)
            /\ CopyResult(r, k)
      BY <1>5 DEF ReadCopy
    <2>2. k \in Nat /\ me[r].from \in Nat /\ me[r].n \in Int
      BY DEF LocalsOK, MeOK, Local
    <2>3. DeviceOK'
      BY <1>5, <2>1, <2>2 DEF ReadCopy, DeviceOK, ByteAt
    <2> QED BY <1>5, <2>1, <2>2, <2>3, CopyType DEF ReadCopy
  <1>6. CASE ReadWake(r)
    BY <1>6, WakeDoneType DEF ReadWake
  <1>7. CASE WaitPrepare(r) \/ WaitSchedule(r) \/ Leave(r)
    BY <1>7, WaitType, LeaveType DEF Threads
  <1>8. CASE ReadCompare(r) \/ ReadType(r)
    <2>1. PcOK'
      BY <1>8, ReaderGoto DEF ReadCompare, ReadType, WaitOver, Goto, ReaderPc
    <2>2. NoLoad \in [word : {"in", "out"}, val : Nat]
      BY DEF NoLoad
    <2>3. MeOK'
      BY <1>8, <2>2, MeSeen, ZenonT(60) DEF ReadCompare, ReadType, WaitOver, LocalsOK, MeOK
    <2> QED BY <1>8, <2>1, <2>3
          DEF ReadCompare, ReadType, WaitOver, DeviceOK, LocalsOK, Threads
  <1> QED BY <1>1, <1>2, <1>3, <1>4, <1>5, <1>6, <1>7, <1>8 DEF ReaderStep

\* Every step of vdevlab_write preserves the types.
LEMMA WriterType ==
  ASSUME TypeOK, NEW w \in Writers, WriteCall(w) \/ WriterStep(w)
  PROVE  TypeOK'
  <1> USE DEF TypeOK, device, history
  <1>0. w \in Readers \cup Writers /\ MeOK /\ "EAGAIN" \in Codes /\ "ENODEV" \in Codes
    BY DEF LocalsOK, Codes
  <1>1. CASE WriteCall(w)
    <2>1. PcOK'
      BY <1>1, WriterGoto, ZenonT(60) DEF WriteCall, Goto, WriterPc
    <2>2. MeOK'
      BY <1>0, <1>1, MeCall, Zenon DEF WriteCall
    <2> QED BY <1>1, <2>1, <2>2 DEF WriteCall, DeviceOK, LocalsOK
  <1>2. CASE WriteConnected(w)
    <2>1. CASE is_disconnected
      BY <1>0, <1>2, <2>1, ReturnType DEF WriteConnected, DeviceOK, LocalsOK
    <2>2. CASE ~is_disconnected
      <3>1. PcOK'
        BY <1>2, <2>2, WriterGoto DEF WriteConnected, Goto, WriterPc
      <3>2. FirstLoad \subseteq [word : {"in", "out"}, val : Nat]
        BY DEF FirstLoad, DeviceOK
      <3>3. MeOK'
        BY <1>2, <2>2, <3>2, MeSeen, ZenonT(60) DEF WriteConnected, LocalsOK, MeOK
      <3> QED BY <1>2, <2>2, <3>1, <3>3 DEF WriteConnected, DeviceOK, LocalsOK
    <2> QED BY <2>1, <2>2
  <1>3. CASE WriteCompare(w) \/ WriteType(w)
    <2>0. NoLoad \in [word : {"in", "out"}, val : Nat]
      BY DEF NoLoad
    <2>1. CASE WriteCompare(w) /\ SeenFull(w) /\ me[w].nonblock
      BY <1>0, <2>1, ReturnType DEF WriteCompare, DeviceOK, LocalsOK
    <2>2. CASE WriteCompare(w) /\ SeenFull(w) /\ ~me[w].nonblock
      <3>1. PcOK'
        BY <2>2, WriterGoto DEF WriteCompare, Goto, WriterPc
      <3>2. MeOK'
        BY <2>0, <2>2, MeSeen DEF WriteCompare, LocalsOK
      <3> QED BY <2>2, <3>1, <3>2 DEF WriteCompare, DeviceOK, LocalsOK
    <2>3. CASE (WriteCompare(w) /\ ~SeenFull(w)) \/ WriteType(w)
      <3>1. PcOK'
        BY <2>3, WriterGoto DEF WriteCompare, WriteType, WaitOver, Goto, WriterPc
      <3>2. MeOK'
        BY <2>0, <2>3, MeSeen, ZenonT(60) DEF WriteCompare, WriteType, WaitOver, LocalsOK, MeOK
      <3> QED BY <2>3, <3>1, <3>2
            DEF WriteCompare, WriteType, WaitOver, DeviceOK, LocalsOK, Threads
    <2> QED BY <1>3, <2>1, <2>2, <2>3
  <1>4. CASE WriteRecheck(w)
    <2>1. PcOK'
      BY <1>4, WriterGoto, ZenonT(60) DEF WriteRecheck, Goto, WriterPc
    <2> QED BY <1>4, <2>1 DEF WriteRecheck, DeviceOK, LocalsOK, MeOK
  <1>5. CASE WriteLock(w)
    <2>1. CASE kfifo_avail > 0
      <3>0. ~(kfifo_avail <= 0)
        BY <2>1, BoundsAssumption DEF kfifo_avail, kfifo_len, DeviceOK
      <3>1. PcOK'
        BY <1>5, <3>0, WriterGoto DEF WriteLock, Goto, WriterPc
      <3>2. min(me[w].count, kfifo_avail) \in Int
        BY BoundsAssumption DEF min, kfifo_avail, kfifo_len, DeviceOK, LocalsOK, MeOK, Local
      <3>3. MeOK'
        BY <1>5, <3>0, <3>2, MeCount DEF WriteLock, LocalsOK
      <3> QED BY <1>5, <3>0, <3>1, <3>3 DEF WriteLock, DeviceOK, LocalsOK, Threads
    <2>2. CASE ~(kfifo_avail > 0)
      <3>1. CASE me[w].nonblock
        BY <1>0, <1>5, <2>2, <3>1, ReturnType DEF WriteLock, DeviceOK, LocalsOK
      <3>2. CASE ~me[w].nonblock
        <4>1. PcOK'
          BY <1>5, <2>2, <3>2, WriterGoto DEF WriteLock, Goto, WriterPc
        <4> QED BY <1>5, <2>2, <3>2, <4>1 DEF WriteLock, DeviceOK, LocalsOK, MeOK
      <3> QED BY <3>1, <3>2
    <2> QED BY <2>1, <2>2
  <1>6. CASE WriteCopy(w)
    <2>1. PICK k \in 0..me[w].n :
            kin' = kin + k /\ written' = written + k /\ CopyResult(w, k)
      BY <1>6 DEF WriteCopy
    <2>2. k \in Nat
      BY DEF LocalsOK, MeOK, Local
    <2>3. DeviceOK'
      BY <1>6, <2>1, <2>2 DEF WriteCopy, DeviceOK
    <2> QED BY <1>6, <2>1, <2>2, <2>3, CopyType DEF WriteCopy
  <1>7. CASE WriteWake(w)
    BY <1>7, WakeDoneType DEF WriteWake
  <1>8. CASE WaitPrepare(w) \/ WaitSchedule(w) \/ Leave(w)
    BY <1>8, WaitType, LeaveType DEF Threads
  <1> QED BY <1>1, <1>2, <1>3, <1>4, <1>5, <1>6, <1>7, <1>8 DEF WriterStep

\* A signal that ends a wait preserves the types.
LEMMA InterruptType ==
  ASSUME TypeOK, NEW t \in Threads, Interrupt(t)
  PROVE  TypeOK'
  <1> USE DEF TypeOK, device, history
  <1>1. task' \in [Threads -> {"running", "interruptible"}]
    BY DEF Interrupt, LocalsOK
  <1>2. CASE t \in Pollers
    <2>1. PcOK'
      BY <1>2, PollerGoto DEF Interrupt, Return, PollerPc
    <2>2. err' \in [Threads -> Codes]
      BY <1>2 DEF Interrupt, Return, LocalsOK, Codes
    <2> QED BY <1>1, <1>2, <2>1, <2>2 DEF Interrupt, LocalsOK, MeOK, DeviceOK
  <1>3. CASE t \in Readers \cup Writers
    <2>1. t \notin Pollers /\ "EINTR" \in Codes
      BY <1>3, RolesAssumption DEF Codes
    <2>2. PcOK' /\ MeOK' /\ err' \in [Threads -> Codes]
      BY <1>3, <2>1, ReturnType DEF Interrupt
    <2> QED BY <1>1, <2>2 DEF Interrupt, LocalsOK, DeviceOK
  <1>4. CASE t \in Controllers
    BY <1>4, RolesAssumption DEF Interrupt, PcOK, ControllerPc
  <1> QED BY <1>2, <1>3, <1>4 DEF Threads

\* Every step of poll(2) preserves the types.
LEMMA PollerType ==
  ASSUME TypeOK, NEW p \in Pollers, PollCall(p) \/ PollTimeout(p) \/ PollerStep(p)
  PROVE  TypeOK'
  <1> USE DEF TypeOK, device, history
  <1>1. CASE PollCall(p) \/ PollTimeout(p) \/ PollSchedule(p)
    <2>1. PcOK'
      BY <1>1, PollerGoto DEF PollCall, PollTimeout, PollSchedule, Goto, PollerPc
    <2>2. poll' \in [Pollers -> PollState]
      <3>1. CASE PollCall(p)
        <4>1. PICK want \in {{"IN"}, {"OUT"}} : poll' = [poll EXCEPT ![p].want = want]
          BY <3>1, ZenonT(60) DEF PollCall
        <4>2. want \in SUBSET {"IN", "OUT"}
          OBVIOUS
        <4> QED BY <4>1, <4>2 DEF LocalsOK, PollState
      <3>2. CASE PollTimeout(p) \/ PollSchedule(p)
        <4>1. [poll[p] EXCEPT !.expired = TRUE] \in PollState
          BY ZenonT(60) DEF LocalsOK, PollState
        <4>2. poll' = [poll EXCEPT ![p] = [poll[p] EXCEPT !.expired = TRUE]]
                \/ UNCHANGED poll
          BY <3>2, Zenon DEF PollTimeout, PollSchedule
        <4> QED BY <4>1, <4>2, ZenonT(60) DEF LocalsOK
      <3> QED BY <1>1, <3>1, <3>2
    <2> QED BY <1>1, <2>1, <2>2
          DEF PollCall, PollTimeout, PollSchedule, LocalsOK, MeOK, DeviceOK, Threads
  <1>2. CASE PollType(p) \/ PollLock(p)
    <2>1. PcOK'
      BY <1>2, PollerGoto DEF PollType, PollLock, PollReport, Goto, Return, PollerPc
    <2>2. poll' \in [Pollers -> PollState]
      BY <1>2 DEF PollType, PollLock, PollReport, Ready, LocalsOK, PollState
    <2>3. err' \in [Threads -> Codes]
      BY <1>2 DEF PollType, PollLock, PollReport, Return, LocalsOK, Codes
    <2> QED BY <1>2, <2>1, <2>2, <2>3
          DEF PollType, PollLock, PollReport, LocalsOK, MeOK, DeviceOK, Threads
  <1> QED BY <1>1, <1>2, LeaveType DEF PollerStep, Threads

\* What SET_FAULT stores.
LEMMA NormalisedType ==
  ASSUME NEW config \in RawConfigs, Valid(config)
  PROVE  Normalised(config) \in FaultConfig
  BY ConfigsAssumption DEF Valid, Normalised, FaultConfig, FaultTypes

\* Every step of vdevlab_ioctl preserves the types.
LEMMA ControllerType ==
  ASSUME TypeOK, NEW c \in Controllers,
         \/ SetFault(c) \/ ReadOnlyIoctl(c) \/ ClearFault(c) \/ ResetLock(c)
         \/ ControllerStep(c)
  PROVE  TypeOK'
  <1> USE DEF TypeOK, device, history
  <1>1. CASE SetFault(c)
    <2>1. PcOK'
      BY <1>1, ControllerGoto DEF SetFault, Goto, Return, ControllerPc
    <2>2. fault' \in FaultConfig
      BY <1>1, NormalisedType DEF SetFault, DeviceOK
    <2>3. eio' \in [set : Nat, given : Nat]
      BY <1>1, <2>2 DEF SetFault, DeviceOK, FaultConfig
    <2>4. err' \in [Threads -> Codes]
      BY <1>1 DEF SetFault, Return, LocalsOK, Codes
    <2> QED BY <1>1, <2>1, <2>2, <2>3, <2>4 DEF SetFault, DeviceOK, LocalsOK, MeOK
  <1>2. CASE ReadOnlyIoctl(c)
    <2>1. PcOK'
      BY <1>2, ControllerGoto DEF ReadOnlyIoctl, Return, ControllerPc
    <2>2. err' \in [Threads -> Codes]
      BY <1>2 DEF ReadOnlyIoctl, Return, LocalsOK, Codes
    <2> QED BY <1>2, <2>1, <2>2 DEF ReadOnlyIoctl, DeviceOK, LocalsOK, MeOK
  <1>3. CASE ClearFault(c) \/ ResetLock(c) \/ ResetFault(c) \/ ResetIndex(c) \/ ResetDone(c)
    <2>1. PcOK'
      BY <1>3, ControllerGoto
      DEF ClearFault, ResetLock, ResetFault, ResetIndex, ResetDone, Goto, ControllerPc
    <2>2. DeviceOK'
      BY <1>3 DEF ClearFault, ResetLock, ResetFault, ResetIndex, ResetDone,
         DeviceOK, NoFault, FaultConfig, FaultTypes, Threads
    <2> QED BY <1>3, <2>1, <2>2
          DEF ClearFault, ResetLock, ResetFault, ResetIndex, ResetDone, LocalsOK, MeOK
  <1>4. CASE IoctlWakeRead(c) \/ IoctlWakeWrite(c)
    <2>1. PcOK'
      BY <1>4, ControllerGoto DEF IoctlWakeRead, IoctlWakeWrite, Goto, Return, ControllerPc
    <2>2. task' \in [Threads -> {"running", "interruptible"}]
      BY <1>4, WakeType DEF IoctlWakeRead, IoctlWakeWrite
    <2>3. err' \in [Threads -> Codes]
      BY <1>4 DEF IoctlWakeRead, IoctlWakeWrite, Return, LocalsOK, Codes
    <2> QED BY <1>4, <2>1, <2>2, <2>3
          DEF IoctlWakeRead, IoctlWakeWrite, DeviceOK, LocalsOK, MeOK
  <1> QED BY <1>1, <1>2, <1>3, <1>4, LeaveType DEF ControllerStep, Threads

\* Every step of the device keeps the types of its state, for any number of
\* threads and any FIFO size.
THEOREM TypeCorrect == Spec => []TypeOK
  <1>1. TypeOK /\ [Next]_vars => TypeOK'
    <2> SUFFICES ASSUME TypeOK, [Next]_vars PROVE TypeOK'
      OBVIOUS
    <2>1. CASE Next
      BY <2>1, ReaderType, WriterType, PollerType, ControllerType, InterruptType DEF Next
    <2>2. CASE UNCHANGED vars
      BY <2>2 DEF vars, TypeOK, DeviceOK, PcOK, LocalsOK, MeOK
    <2> QED BY <2>1, <2>2
  <1> QED BY <1>1, InitType, PTL DEF Spec

-----------------------------------------------------------------------------
(* The fault record.                                                       *)

\* The steps that change the fault record or the count of EIO results: an EIO
\* met by a read, SET_FAULT, and the ways to clear it.
LEMMA FaultStep ==
  ASSUME Next
  PROVE  \/ UNCHANGED <<fault, eio>>
         \/ \E r \in Readers : ApplyEio(r)
         \/ \E config \in RawConfigs :
              /\ Valid(config)
              /\ fault' = Normalised(config)
              /\ eio' = [set |-> fault'.repeat, given |-> 0]
         \/ fault' = NoFault /\ eio' = [set |-> 0, given |-> 0]
  <1> USE DEF device, history
  <1>1. ASSUME NEW r \in Readers, ReadCall(r) \/ ReaderStep(r)
        PROVE  UNCHANGED <<fault, eio>> \/ ApplyEio(r)
    BY <1>1 DEF ReadCall, ReaderStep, ReadApplyFault, ApplyDelay, ApplyPartial,
       ApplyOther, ReadDelayOver, ReadLock, ReadCopy, ReadWake, WaitPrepare,
       ReadCompare, ReadType, WaitSchedule, Leave
  <1>2. ASSUME NEW w \in Writers, WriteCall(w) \/ WriterStep(w)
        PROVE  UNCHANGED <<fault, eio>>
    BY <1>2 DEF WriteCall, WriterStep, WriteConnected, WaitPrepare, WriteCompare,
       WriteType, WaitSchedule, WriteRecheck, WriteLock, WriteCopy, WriteWake, Leave
  <1>3. ASSUME NEW p \in Pollers, PollCall(p) \/ PollTimeout(p) \/ PollerStep(p)
        PROVE  UNCHANGED <<fault, eio>>
    BY <1>3 DEF PollCall, PollTimeout, PollerStep, PollType, PollLock, PollSchedule, Leave
  <1>4. ASSUME NEW c \in Controllers, SetFault(c)
        PROVE  \/ UNCHANGED <<fault, eio>>
               \/ \E config \in RawConfigs :
                    /\ Valid(config)
                    /\ fault' = Normalised(config)
                    /\ eio' = [set |-> fault'.repeat, given |-> 0]
    BY <1>4 DEF SetFault
  <1>5. ASSUME NEW c \in Controllers,
               ReadOnlyIoctl(c) \/ ClearFault(c) \/ ResetLock(c) \/ ControllerStep(c)
        PROVE  \/ UNCHANGED <<fault, eio>>
               \/ fault' = NoFault /\ eio' = [set |-> 0, given |-> 0]
    BY <1>5 DEF ReadOnlyIoctl, ClearFault, ResetLock, ControllerStep, ResetFault,
       ResetIndex, ResetDone, IoctlWakeRead, IoctlWakeWrite, Leave
  <1>6. ASSUME NEW t \in Threads, Interrupt(t)
        PROVE  UNCHANGED <<fault, eio>>
    BY <1>6 DEF Interrupt
  <1> QED BY <1>1, <1>2, <1>3, <1>4, <1>5, <1>6 DEF Next

\* What SET_FAULT stores it would accept again, unchanged.
LEMMA NormalisedAgain ==
  ASSUME NEW config \in RawConfigs, Valid(config)
  PROVE  /\ Valid(Normalised(config))
         /\ Normalised(Normalised(config)) = Normalised(config)
  BY ConfigsAssumption, BoundsAssumption DEF Valid, Normalised

\* The fault record stays one SET_FAULT accepts with the other fields zero:
\* vdevlab_apply_read_fault never meets an EIO fault without repeats.
THEOREM FaultRecordValid == Spec => []FaultWellFormed
  <1>1. Init => FaultWellFormed
    BY DEF Init, FaultWellFormed, Valid, Normalised, NoFault
  <1>2. TypeOK /\ FaultWellFormed /\ [Next]_vars => FaultWellFormed'
    <2> SUFFICES ASSUME TypeOK, FaultWellFormed, [Next]_vars
                 PROVE  FaultWellFormed'
      OBVIOUS
    <2>1. CASE UNCHANGED fault
      BY <2>1 DEF FaultWellFormed, Valid, Normalised
    <2>2. CASE \E r \in Readers : ApplyEio(r)
      BY <2>2, BoundsAssumption
      DEF ApplyEio, Spend, FaultWellFormed, Valid, Normalised, NoFault, TypeOK,
          DeviceOK, FaultConfig
    <2>3. ASSUME NEW config \in RawConfigs, Valid(config), fault' = Normalised(config)
          PROVE  FaultWellFormed'
      <3>1. FaultWellFormed' <=> Valid(fault') /\ Normalised(fault') = fault'
        BY DEF FaultWellFormed, Valid, Normalised
      <3> QED BY <2>3, <3>1, NormalisedAgain
    <2>4. CASE fault' = NoFault
      BY <2>4 DEF FaultWellFormed, Valid, Normalised, NoFault
    <2> QED BY <2>1, <2>2, <2>3, <2>4, FaultStep DEF vars
  <1> QED BY <1>1, <1>2, TypeCorrect, PTL DEF Spec

\* Of the EIO results that SET_FAULT asked for, those returned and those left
\* always add up, however reads and other calls interleave.
THEOREM EioCounted == Spec => []EioExact
  <1>1. Init => EioExact
    BY DEF Init, EioExact, NoFault
  <1>2. TypeOK /\ EioExact /\ [Next]_vars => EioExact'
    <2> SUFFICES ASSUME TypeOK, EioExact, [Next]_vars PROVE EioExact'
      OBVIOUS
    <2> USE DEF EioExact, TypeOK, DeviceOK, FaultConfig
    <2>1. CASE UNCHANGED <<fault, eio>>
      BY <2>1
    <2>2. CASE \E r \in Readers : ApplyEio(r)
      BY <2>2 DEF ApplyEio, Spend, NoFault
    <2>3. ASSUME NEW config \in RawConfigs, Valid(config), fault' = Normalised(config),
                 eio' = [set |-> fault'.repeat, given |-> 0]
          PROVE  EioExact'
      BY <2>3, NormalisedType
    <2>4. CASE fault' = NoFault /\ eio' = [set |-> 0, given |-> 0]
      BY <2>4 DEF NoFault
    <2> QED BY <2>1, <2>2, <2>3, <2>4, FaultStep DEF vars
  <1> QED BY <1>1, <1>2, TypeCorrect, PTL DEF Spec

-----------------------------------------------------------------------------
(* The two mutexes.                                                        *)

\* A step of a thread that touches no lock and passes no critical section.
LEMMA LocksFrame ==
  ASSUME TypeOK, LocksHeld, NEW t \in Threads, NEW label,
         pc' = [pc EXCEPT ![t] = label], UNCHANGED <<fifoLock, faultLock>>,
         pc[t] \notin {"copy", "fifolock", "reset", "reset2"},
         label \notin {"copy", "fifolock", "reset", "reset2"}
  PROVE  LocksHeld'
  BY DEF TypeOK, PcOK, LocksHeld

\* vdevlab_read holds fifo_lock exactly over its copy.
LEMMA ReaderLocks ==
  ASSUME TypeOK, LocksHeld, NEW r \in Readers, ReadCall(r) \/ ReaderStep(r)
  PROVE  LocksHeld'
  <1> USE DEF device, history
  <1>0. r \in Threads /\ r # NoThread
    BY RolesAssumption DEF Threads
  <1>1. CASE ReadLock(r) /\ kfifo_len # 0
    BY <1>0, <1>1, RolesAssumption DEF ReadLock, Goto, LocksHeld, TypeOK, PcOK
  <1>2. CASE ReadLock(r) /\ kfifo_len = 0
    BY <1>0, <1>2, LocksFrame DEF ReadLock, Goto, ReturnBytes, Return
  <1>3. CASE ReadCopy(r)
    <2>1. PICK label \in {"wake", "done"} : Goto(r, label)
      BY <1>3 DEF ReadCopy, CopyResult, ReturnBytes, Return, Goto
    <2> QED BY <1>0, <1>3, <2>1, RolesAssumption
          DEF ReadCopy, Goto, LocksHeld, TypeOK, PcOK
  <1>4. CASE ReadApplyFault(r)
    BY <1>0, <1>4, LocksFrame
    DEF ReadApplyFault, ApplyEio, Spend, ApplyDelay, ApplyPartial, ApplyOther, Goto,
        ReturnBytes, Return
  <1>5. CASE ReadCall(r) \/ ReadDelayOver(r) \/ ReadWake(r) \/ WaitPrepare(r)
               \/ WaitSchedule(r) \/ Leave(r)
    BY <1>0, <1>5, LocksFrame
    DEF ReadCall, ReadDelayOver, ReadWake, WaitPrepare, WaitSchedule, Leave, Goto,
        ReturnBytes, Return
  <1>6. CASE ReadCompare(r) \/ ReadType(r)
    BY <1>0, <1>6, LocksFrame DEF ReadCompare, ReadType, WaitOver, Goto
  <1> QED BY <1>1, <1>2, <1>3, <1>4, <1>5, <1>6 DEF ReaderStep, ReadLock

\* vdevlab_write holds fifo_lock exactly over its copy.
LEMMA WriterLocks ==
  ASSUME TypeOK, LocksHeld, NEW w \in Writers, WriteCall(w) \/ WriterStep(w)
  PROVE  LocksHeld'
  <1> USE DEF device, history
  <1>0. w \in Threads /\ w # NoThread
    BY RolesAssumption DEF Threads
  <1>1. CASE WriteLock(w) /\ fifoLock' = w /\ Goto(w, "copy")
    BY <1>0, <1>1, RolesAssumption DEF WriteLock, Goto, LocksHeld, TypeOK, PcOK
  <1>2. CASE WriteLock(w) /\ UNCHANGED fifoLock /\ \E l \in {"done", "connected"} : Goto(w, l)
    BY <1>0, <1>2, LocksFrame, ZenonT(60) DEF WriteLock, Goto
  <1>3. CASE WriteCopy(w)
    <2>1. PICK label \in {"wake", "done"} : Goto(w, label)
      BY <1>3 DEF WriteCopy, CopyResult, ReturnBytes, Return, Goto
    <2> QED BY <1>0, <1>3, <2>1, RolesAssumption
          DEF WriteCopy, Goto, LocksHeld, TypeOK, PcOK
  <1>4. CASE WriteCall(w) \/ WriteConnected(w) \/ WaitPrepare(w) \/ WaitSchedule(w)
               \/ Leave(w)
    BY <1>0, <1>4, LocksFrame
    DEF WriteCall, WriteConnected, WaitPrepare, WaitSchedule, Leave, Goto,
        ReturnBytes, Return
  <1>5. CASE WriteType(w) \/ WriteRecheck(w) \/ WriteWake(w)
    BY <1>0, <1>5, LocksFrame
    DEF WriteType, WriteRecheck, WriteWake, WaitOver, Goto, ReturnBytes, Return
  <1>6. CASE WriteCompare(w)
    <2>1. PICK label \in {"done", "type", "lock", "recheck"} : Goto(w, label)
      BY <1>6 DEF WriteCompare, WaitOver, Goto, ReturnBytes, Return
    <2> QED BY <1>0, <1>6, <2>1, LocksFrame, ZenonT(60) DEF WriteCompare, Goto
  <1>7. WriteLock(w) => \/ fifoLock' = w /\ Goto(w, "copy")
                        \/ UNCHANGED fifoLock /\ \E l \in {"done", "connected"} : Goto(w, l)
    BY DEF WriteLock, Goto, ReturnBytes, Return
  <1> QED BY <1>1, <1>2, <1>3, <1>4, <1>5, <1>6, <1>7 DEF WriterStep

\* RESET holds both locks over kfifo_reset; poll and signals hold none.
LEMMA OtherLocks ==
  ASSUME TypeOK, LocksHeld,
         \/ \E p \in Pollers : PollCall(p) \/ PollTimeout(p) \/ PollerStep(p)
         \/ \E c \in Controllers :
              \/ SetFault(c) \/ ReadOnlyIoctl(c) \/ ClearFault(c) \/ ResetLock(c)
              \/ ControllerStep(c)
         \/ \E t \in Threads : Interrupt(t)
  PROVE  LocksHeld'
  <1> USE DEF device, history
  <1>1. ASSUME NEW p \in Pollers, PollCall(p) \/ PollTimeout(p) \/ PollerStep(p)
        PROVE  LocksHeld'
    <2>1. PICK label \in PollerPc : Goto(p, label)
      BY <1>1, ZenonT(60) DEF PollCall, PollTimeout, PollerStep, PollType, PollLock, PollSchedule,
         PollReport, Leave, Goto, Return, PollerPc
    <2>2. UNCHANGED <<fifoLock, faultLock>>
      BY <1>1, ZenonT(60) DEF PollCall, PollTimeout, PollerStep, PollType, PollLock, PollSchedule, Leave
    <2> QED BY ZenonT(60), <2>1, <2>2, LocksFrame DEF Goto, PollerPc, TypeOK, PcOK, Threads
  <1>2. ASSUME NEW c \in Controllers,
               \/ SetFault(c) \/ ReadOnlyIoctl(c) \/ ClearFault(c)
               \/ IoctlWakeRead(c) \/ IoctlWakeWrite(c) \/ Leave(c)
        PROVE  LocksHeld'
    <2>1. PICK label \in {"wakeread", "wakewrite", "done", "idle"} : Goto(c, label)
      BY <1>2, ZenonT(60) DEF SetFault, ReadOnlyIoctl, ClearFault, IoctlWakeRead, IoctlWakeWrite,
         Leave, Goto, Return
    <2>2. UNCHANGED <<fifoLock, faultLock>> /\ pc[c] \in {"idle", "wakeread", "wakewrite", "done"}
      BY <1>2, ZenonT(60) DEF SetFault, ReadOnlyIoctl, ClearFault, IoctlWakeRead, IoctlWakeWrite, Leave
    <2> QED BY ZenonT(60), <2>1, <2>2, LocksFrame DEF Goto, Threads
  <1>3. ASSUME NEW c \in Controllers, ResetLock(c) \/ ResetFault(c) \/ ResetIndex(c) \/ ResetDone(c)
        PROVE  LocksHeld'
    <2>1. c \in Threads /\ c # NoThread
      BY RolesAssumption DEF Threads
    <2> QED BY <1>3, <2>1, RolesAssumption
          DEF ResetLock, ResetFault, ResetIndex, ResetDone, Goto, LocksHeld, TypeOK, PcOK
  <1>4. ASSUME NEW t \in Threads, Interrupt(t)
        PROVE  LocksHeld'
    <2>1. Goto(t, "done") /\ UNCHANGED <<fifoLock, faultLock>>
      BY <1>4 DEF Interrupt, Goto, ReturnBytes, Return
    <2> QED BY <1>4, <2>1, LocksFrame, ZenonT(60) DEF Interrupt, Goto
  <1> QED BY <1>1, <1>2, <1>3, <1>4 DEF ControllerStep

\* Both mutexes are held exactly inside the critical sections of read, write
\* and RESET: no path of the code returns with one held or releases another's.
THEOREM LocksCorrect == Spec => []LocksHeld
  <1>1. Init => LocksHeld
    BY RolesAssumption DEF Init, LocksHeld
  <1>2. TypeOK /\ LocksHeld /\ [Next]_vars => LocksHeld'
    <2> SUFFICES ASSUME TypeOK, LocksHeld, [Next]_vars PROVE LocksHeld'
      OBVIOUS
    <2>1. CASE UNCHANGED vars
      BY <2>1 DEF vars, LocksHeld
    <2>2. CASE Next
      BY <2>2, ReaderLocks, WriterLocks, OtherLocks DEF Next
    <2> QED BY <2>1, <2>2
  <1> QED BY <1>1, <1>2, TypeCorrect, PTL DEF Spec

-----------------------------------------------------------------------------
(* The indices and the copies.                                             *)

\* While a read or a write is copying, no RESET changes the indices and no
\* other thread copies.
LEMMA CopyAlone ==
  ASSUME LocksHeld, NEW t \in Readers \cup Writers, pc[t] = "copy"
  PROVE  /\ ~Resetting
         /\ \A u \in Readers \cup Writers : pc[u] = "copy" => u = t
  <1>1. t \in Threads /\ fifoLock = t
    BY DEF Threads, LocksHeld
  <1> QED BY <1>1 DEF LocksHeld, Resetting, Threads

\* A free fifo_lock means that nobody copies or resets.
LEMMA LockFree ==
  ASSUME LocksHeld, fifoLock = NoThread
  PROVE  ~Resetting /\ \A u \in Readers \cup Writers : pc[u] # "copy"
  BY RolesAssumption DEF LocksHeld, Resetting, Threads

\* The FIFO after k of its bytes were handed out.
LEMMA AfterRead ==
  ASSUME NEW i \in Nat, NEW o \in Nat, NEW w \in Nat, NEW l \in Int, NEW N \in Nat,
         i - o \in 0..N, NEW k \in 0..(i - o), l <= w, l <= w - i + o
  PROVE  LET top == IF k = 0 THEN l ELSE w - i + (o + k)
         IN  i - (o + k) \in 0..N /\ top <= w /\ top <= w - i + (o + k)
OBVIOUS

\* The FIFO after k bytes were added.
LEMMA AfterWrite ==
  ASSUME NEW i \in Nat, NEW o \in Nat, NEW w \in Nat, NEW l \in Int, NEW N \in Nat,
         i - o \in 0..N, NEW k \in 0..(N - (i - o)), l <= w, l <= w - i + o
  PROVE  /\ (i + k) - o \in 0..N /\ l <= w + k
         /\ l <= (w + k) - (i + k) + o
OBVIOUS

\* A step of one thread that touches neither the indices nor a copy.
LEMMA CopiesFrame ==
  ASSUME TypeOK, CopiesValid, NEW t \in Threads, NEW label,
         pc' = [pc EXCEPT ![t] = label],
         UNCHANGED <<kin, kout, written, last>>,
         pc[t] \notin {"reset", "reset2"}, label \notin {"copy", "reset", "reset2"},
         \A u \in (Readers \cup Writers) \ {t} : me'[u] = me[u],
         t \in Readers \cup Writers =>
           /\ label \notin {"idle", "done"} => me'[t].count >= 1
           /\ label = "wake" => me'[t].n >= 1
  PROVE  CopiesValid'
  <1> USE DEF TypeOK, PcOK
  <1>1. Resetting' <=> Resetting
    BY DEF Resetting, Threads
  <1>2. FifoBounded' /\ (last <= written)' /\ (~Resetting => last <= ByteAt(kout))'
    BY <1>1 DEF CopiesValid, FifoBounded, kfifo_len, ByteAt
  <1>3. \A u \in Threads : pc'[u] = IF u = t THEN label ELSE pc[u]
    OBVIOUS
  <1>4. ASSUME NEW r \in Readers, pc'[r] = "copy"
        PROVE  (me[r].from = kout /\ me[r].n \in 1..kfifo_len)'
    <2>1. r # t /\ pc[r] = "copy" /\ me'[r] = me[r]
      BY <1>3, <1>4 DEF Threads
    <2> QED BY <2>1 DEF CopiesValid, kfifo_len
  <1>5. ASSUME NEW w \in Writers, pc'[w] = "copy"
        PROVE  (me[w].n \in 1..kfifo_avail)'
    <2>1. w # t /\ pc[w] = "copy" /\ me'[w] = me[w]
      BY <1>3, <1>5 DEF Threads
    <2> QED BY <2>1 DEF CopiesValid, kfifo_avail, kfifo_len
  <1>6. ASSUME NEW u \in Readers \cup Writers
        PROVE  (/\ pc[u] \notin {"idle", "done"} => me[u].count >= 1
                /\ pc[u] = "wake" => me[u].n >= 1)'
    <2>1. CASE u = t
      BY <1>3, <2>1
    <2>2. CASE u # t
      <3>1. me'[u] = me[u] /\ pc'[u] = pc[u]
        BY <1>3, <2>2 DEF Threads
      <3> QED BY <3>1 DEF CopiesValid
    <2> QED BY <2>1, <2>2
  <1> QED BY <1>2, <1>4, <1>5, <1>6 DEF CopiesValid

\* A read or a write that goes on, or back to its caller, keeping its count.
LEMMA CopiesGoOn ==
  ASSUME TypeOK, CopiesValid, NEW t \in Readers \cup Writers,
         NEW label \in {"apply", "delay", "lock", "prepare", "compare", "type",
                        "schedule", "connected", "recheck", "done", "idle"},
         pc[t] # "idle", pc[t] # "done" \/ label = "idle",
         pc' = [pc EXCEPT ![t] = label],
         UNCHANGED <<kin, kout, written, last>>,
         \A u \in (Readers \cup Writers) \ {t} : me'[u] = me[u],
         label \in {"idle", "done"} \/ me'[t].count = me[t].count
  PROVE  CopiesValid'
  <1>1. t \in Threads /\ pc[t] \notin {"reset", "reset2"}
    BY DEF TypeOK, PcOK, Threads, ReaderPc, WriterPc
  <1>2. label \notin {"idle", "done"} => me'[t].count >= 1
    BY DEF CopiesValid
  <1> QED BY <1>1, <1>2, CopiesFrame, ZenonT(60)

\* An update of the locals of one thread.
LEMMA MeOther ==
  ASSUME MeOK, NEW t \in Readers \cup Writers, NEW l, me' = [me EXCEPT ![t] = l]
  PROVE  me'[t] = l /\ \A u \in (Readers \cup Writers) \ {t} : me'[u] = me[u]
  BY DEF MeOK

\* A step of vdevlab_read leaves every pending copy valid.
LEMMA ReaderCopies ==
  ASSUME TypeOK, LocksHeld, CopiesValid, NEW r \in Readers, ReadCall(r) \/ ReaderStep(r)
  PROVE  CopiesValid'
  <1> USE DEF device, history
  <1>0. MeOK /\ r \in Threads /\ r \in Readers \cup Writers /\ me[r] \in Local
    BY DEF TypeOK, LocalsOK, MeOK, Threads
  <1>1. CASE ReadCall(r)
    <2>1. PICK c \in 1..MaxCount, nb \in Modes :
            me' = [me EXCEPT ![r] = [me[r] EXCEPT !.count = c, !.nonblock = nb]]
      BY <1>1, ZenonT(60) DEF ReadCall
    <2> DEFINE l == [me[r] EXCEPT !.count = c, !.nonblock = nb]
    <2>2. l.count = c
      BY <1>0 DEF Local
    <2> HIDE DEF l
    <2>3. me'[r] = l /\ \A u \in (Readers \cup Writers) \ {r} : me'[u] = me[u]
      BY <1>0, <2>1, MeOther, ZenonT(60) DEF l
    <2>4. me'[r].count >= 1
      BY <2>2, <2>3, BoundsAssumption
    <2>5. /\ pc' = [pc EXCEPT ![r] = "apply"] /\ pc[r] = "idle"
          /\ UNCHANGED <<kin, kout, written, last>>
      BY ZenonT(60), <1>1 DEF ReadCall, Goto
    <2> QED BY <1>0, <2>3, <2>4, <2>5, CopiesFrame, ZenonT(60)
  <1>2. CASE ReadApplyFault(r)
    <2>1. PICK label \in {"delay", "lock", "done"} : Goto(r, label)
      BY <1>2 DEF ReadApplyFault, ApplyEio, Spend, ApplyDelay, ApplyPartial, ApplyOther, Goto,
         ReturnBytes, Return
    <2>2. /\ \A u \in (Readers \cup Writers) \ {r} : me'[u] = me[u]
          /\ label = "done" \/ me'[r].count = me[r].count
      BY <1>0, <1>2, <2>1 DEF ReadApplyFault, ApplyEio, Spend, ApplyDelay, ApplyPartial,
         ApplyOther, Goto, ReturnBytes, Return, MeOK, Local, TypeOK, PcOK
    <2> QED BY <1>2, <2>1, <2>2, CopiesGoOn, ZenonT(60) DEF ReadApplyFault, Goto
  <1>3. CASE ReadLock(r) /\ kfifo_len # 0
    <2>1. ~Resetting /\ \A u \in Readers \cup Writers : pc[u] # "copy"
      BY <1>3, LockFree DEF ReadLock
    <2>2. kfifo_len \in 1..FifoSize /\ me[r].count >= 1
      BY <1>3, <2>1, BoundsAssumption
      DEF CopiesValid, FifoBounded, ReadLock, kfifo_len, TypeOK, DeviceOK
    <2>3. ToCopy(r) \in 1..kfifo_len
      BY <1>0, <2>2, BoundsAssumption DEF ToCopy, min, Local
    <2>4. me' = [me EXCEPT ![r] = [me[r] EXCEPT !.from = kout, !.n = ToCopy(r)]]
      BY <1>3, Zenon DEF ReadLock
    <2>5. /\ me'[r].from = kout /\ me'[r].n = ToCopy(r) /\ me'[r].count = me[r].count
          /\ \A u \in (Readers \cup Writers) \ {r} : me'[u] = me[u]
      <3> DEFINE l == [me[r] EXCEPT !.from = kout, !.n = ToCopy(r)]
      <3>1. l.from = kout /\ l.n = ToCopy(r) /\ l.count = me[r].count
        BY <1>0 DEF Local
      <3> HIDE DEF l
      <3>2. me'[r] = l /\ \A u \in (Readers \cup Writers) \ {r} : me'[u] = me[u]
        BY <1>0, <2>4, MeOther, ZenonT(60) DEF l
      <3> QED BY <3>1, <3>2
    <2>6. \A u \in Threads : pc'[u] = IF u = r THEN "copy" ELSE pc[u]
      BY <1>3 DEF ReadLock, Goto, TypeOK, PcOK
    <2>7. ~Resetting'
      BY <2>1, <2>6 DEF Resetting, Threads
    <2>8. UNCHANGED <<kin, kout, written, last>>
      BY <1>3 DEF ReadLock
    <2>9. FifoBounded' /\ (last <= written)' /\ (last <= ByteAt(kout))'
      BY <2>1, <2>8 DEF CopiesValid, FifoBounded, kfifo_len, ByteAt
    <2>10. ToCopy(r) \in 1..kfifo_len'
      BY <2>3, <2>8 DEF kfifo_len
    <2>11. \A w \in Writers : pc'[w] # "copy"
      BY <2>1, <2>6, RolesAssumption DEF Threads
    <2>12. \A u \in Readers : pc'[u] = "copy" => u = r
      BY <2>1, <2>6 DEF Threads
    <2>13. \A u \in Readers \cup Writers :
             /\ pc'[u] \notin {"idle", "done"} => me'[u].count >= 1
             /\ pc'[u] = "wake" => me'[u].n >= 1
      BY ZenonT(60), <2>2, <2>5, <2>6 DEF CopiesValid, Threads
    <2> QED BY <2>5, <2>8, <2>9, <2>10, <2>11, <2>12, <2>13, ZenonT(60) DEF CopiesValid
  <1>4. CASE ReadLock(r) /\ kfifo_len = 0
    <2>1. PICK label \in {"prepare", "done"} : Goto(r, label)
      BY <1>4 DEF ReadLock, Goto, ReturnBytes, Return
    <2>2. /\ \A u \in (Readers \cup Writers) \ {r} : me'[u] = me[u]
          /\ label = "done" \/ me'[r].count = me[r].count
      BY ZenonT(60), <1>0, <1>4, <2>1 DEF ReadLock, Goto, ReturnBytes, Return, MeOK, TypeOK, PcOK
    <2> QED BY <1>4, <2>1, <2>2, CopiesGoOn, ZenonT(60) DEF ReadLock, Goto
  <1>5. CASE ReadCopy(r)
    <2>1. PICK k \in 0..me[r].n :
            /\ kout' = kout + k
            /\ last' = IF k = 0 THEN last ELSE ByteAt(me[r].from + k)
            /\ CopyResult(r, k)
      BY ZenonT(60), <1>5 DEF ReadCopy
    <2>2. /\ ~Resetting
          /\ \A u \in Readers \cup Writers : pc[u] = "copy" => u = r
      BY ZenonT(60), <1>5, CopyAlone DEF ReadCopy
    <2>3. me[r].from = kout /\ me[r].n \in 1..kfifo_len /\ kfifo_len \in 0..FifoSize
      BY <1>5, <2>2, ZenonT(60) DEF ReadCopy, CopiesValid, FifoBounded
    <2>4. k \in 0..kfifo_len
      BY <2>3, BoundsAssumption
    <2>5. PICK label \in {"wake", "done"} : Goto(r, label)
      BY <2>1 DEF CopyResult, ReturnBytes, Return, Goto
    <2>6. /\ \A u \in (Readers \cup Writers) \ {r} : me'[u] = me[u]
          /\ label = "wake" => me'[r].n >= 1 /\ me'[r].count = me[r].count
      BY <1>0, <2>1, <2>4, <2>5
      DEF CopyResult, ReturnBytes, Return, Goto, MeOK, Local, TypeOK, PcOK
    <2>7. \A u \in Threads : pc'[u] = IF u = r THEN label ELSE pc[u]
      BY <2>5 DEF Goto, TypeOK, PcOK
    <2>8. ~Resetting'
      BY <2>2, <2>7, ZenonT(60) DEF Resetting, Threads
    <2>9. me[r].count >= 1 /\ UNCHANGED <<kin, written>>
      BY <1>5 DEF ReadCopy, CopiesValid
    <2>10. FifoBounded' /\ (last <= written)' /\ (last <= ByteAt(kout))'
      <3>1. /\ kin \in Nat /\ kout \in Nat /\ written \in Nat /\ last \in Int
            /\ kin - kout \in 0..FifoSize /\ k \in 0..(kin - kout)
            /\ last <= written /\ last <= written - kin + kout
        BY <2>2, <2>3, <2>4, ZenonT(60)
        DEF CopiesValid, kfifo_len, ByteAt, TypeOK, DeviceOK
      <3> DEFINE top == IF k = 0 THEN last ELSE written - kin + (kout + k)
      <3>2. /\ kin - (kout + k) \in 0..FifoSize
            /\ top <= written /\ top <= written - kin + (kout + k)
        BY <3>1, AfterRead, BoundsAssumption, ZenonT(60)
      <3>3. kin' = kin /\ written' = written /\ kout' = kout + k /\ last' = top
        BY <2>1, <2>3, <2>9, ZenonT(60) DEF ByteAt
      <3> HIDE DEF top
      <3> QED BY <3>2, <3>3, ZenonT(60) DEF FifoBounded, kfifo_len, ByteAt
    <2> QED BY ZenonT(60), <1>0, <2>2, <2>6, <2>7, <2>9, <2>10 DEF CopiesValid, Threads
  <1>6. CASE ReadDelayOver(r) \/ WaitPrepare(r) \/ WaitSchedule(r) \/ Leave(r) \/ ReadWake(r)
    <2>1. PICK label \in {"lock", "compare", "prepare", "idle", "done"} :
            Goto(r, label) /\ pc[r] # "idle" /\ (pc[r] # "done" \/ label = "idle")
      BY <1>6 DEF ReadDelayOver, WaitPrepare, WaitSchedule, Leave, ReadWake, Goto,
         ReturnBytes, Return
    <2>2. /\ \A u \in (Readers \cup Writers) \ {r} : me'[u] = me[u]
          /\ label \in {"idle", "done"} \/ me'[r].count = me[r].count
      BY SMTT(60), <1>0, <1>6, <2>1 DEF ReadDelayOver, WaitPrepare, WaitSchedule, Leave, ReadWake,
         ReturnBytes, Return, Goto, MeOK, Local, TypeOK, PcOK
    <2> QED BY <1>6, <2>1, <2>2, CopiesGoOn, ZenonT(60)
          DEF ReadDelayOver, WaitPrepare, WaitSchedule, Leave, ReadWake, Goto
  <1>7. CASE ReadCompare(r) \/ ReadType(r)
    <2>1. PICK label \in {"type", "schedule", "apply"} : Goto(r, label)
      BY <1>7 DEF ReadCompare, ReadType, WaitOver, Goto
    <2>2. /\ \A u \in (Readers \cup Writers) \ {r} : me'[u] = me[u]
          /\ me'[r].count = me[r].count
      BY <1>0, <1>7 DEF ReadCompare, ReadType, WaitOver, MeOK, Local
    <2> QED BY <1>7, <2>1, <2>2, CopiesGoOn, ZenonT(60) DEF ReadCompare, ReadType, Goto
  <1> QED BY <1>1, <1>2, <1>3, <1>4, <1>5, <1>6, <1>7 DEF ReaderStep, ReadLock

\* A step of vdevlab_write leaves every pending copy valid.
LEMMA WriterCopies ==
  ASSUME TypeOK, LocksHeld, CopiesValid, NEW w \in Writers, WriteCall(w) \/ WriterStep(w)
  PROVE  CopiesValid'
  <1> USE DEF device, history
  <1>0. MeOK /\ w \in Threads /\ w \in Readers \cup Writers /\ me[w] \in Local
    BY DEF TypeOK, LocalsOK, MeOK, Threads
  <1>1. CASE WriteCall(w)
    <2>1. PICK c \in 1..MaxCount, nb \in Modes :
            me' = [me EXCEPT ![w] = [me[w] EXCEPT !.count = c, !.nonblock = nb]]
      BY <1>1, ZenonT(60) DEF WriteCall
    <2> DEFINE l == [me[w] EXCEPT !.count = c, !.nonblock = nb]
    <2>2. l.count = c
      BY <1>0 DEF Local
    <2> HIDE DEF l
    <2>3. me'[w] = l /\ \A u \in (Readers \cup Writers) \ {w} : me'[u] = me[u]
      BY <1>0, <2>1, MeOther, ZenonT(60) DEF l
    <2>4. me'[w].count >= 1
      BY <2>2, <2>3, BoundsAssumption
    <2>5. /\ pc' = [pc EXCEPT ![w] = "connected"] /\ pc[w] = "idle"
          /\ UNCHANGED <<kin, kout, written, last>>
      BY <1>1 DEF WriteCall, Goto
    <2> QED BY <1>0, <2>3, <2>4, <2>5, CopiesFrame, ZenonT(60)
  <1>2. CASE WriteLock(w) /\ fifoLock' = w
    <2>0. w # NoThread
      BY RolesAssumption DEF Threads
    <2>1. ~Resetting /\ \A u \in Readers \cup Writers : pc[u] # "copy"
      BY <1>2, LockFree DEF WriteLock
    <2>2. kfifo_avail > 0 /\ me[w].count >= 1 /\ kfifo_avail \in Int
      BY <1>2, <2>0, BoundsAssumption
      DEF CopiesValid, WriteLock, kfifo_avail, kfifo_len, TypeOK, DeviceOK
    <2>3. min(me[w].count, kfifo_avail) \in 1..kfifo_avail
      BY <1>0, <2>2 DEF min, Local
    <2>4. /\ me' = [me EXCEPT ![w] = [me[w] EXCEPT !.n = min(me[w].count, kfifo_avail)]]
          /\ Goto(w, "copy") /\ UNCHANGED <<kin, kout, written, last>>
      BY <1>2, <2>0 DEF WriteLock
    <2>5. /\ me'[w].n = min(me[w].count, kfifo_avail) /\ me'[w].count = me[w].count
          /\ \A u \in (Readers \cup Writers) \ {w} : me'[u] = me[u]
      <3> DEFINE l == [me[w] EXCEPT !.n = min(me[w].count, kfifo_avail)]
      <3>1. l.n = min(me[w].count, kfifo_avail) /\ l.count = me[w].count
        BY <1>0 DEF Local
      <3> HIDE DEF l
      <3>2. me'[w] = l /\ \A u \in (Readers \cup Writers) \ {w} : me'[u] = me[u]
        BY ZenonT(60), <1>0, <2>4, MeOther DEF l
      <3> QED BY <3>1, <3>2
    <2>6. \A u \in Threads : pc'[u] = IF u = w THEN "copy" ELSE pc[u]
      BY <2>4 DEF Goto, TypeOK, PcOK
    <2>7. ~Resetting'
      BY <2>1, <2>6 DEF Resetting, Threads
    <2>8. FifoBounded' /\ (last <= written)' /\ (last <= ByteAt(kout))'
      BY <2>1, <2>4 DEF CopiesValid, FifoBounded, kfifo_len, ByteAt
    <2>9. min(me[w].count, kfifo_avail) \in 1..kfifo_avail'
      BY <2>3, <2>4 DEF kfifo_avail, kfifo_len
    <2>10. \A r \in Readers : pc'[r] # "copy"
      BY <2>1, <2>6, RolesAssumption DEF Threads
    <2>11. \A u \in Writers : pc'[u] = "copy" => u = w
      BY <2>1, <2>6 DEF Threads
    <2>12. \A u \in Readers \cup Writers :
             /\ pc'[u] \notin {"idle", "done"} => me'[u].count >= 1
             /\ pc'[u] = "wake" => me'[u].n >= 1
      BY <2>2, <2>5, <2>6, ZenonT(60) DEF CopiesValid, Threads
    <2> QED BY <2>5, <2>8, <2>9, <2>10, <2>11, <2>12, ZenonT(60) DEF CopiesValid
  <1>3. CASE WriteLock(w) /\ fifoLock' # w
    <2>1. PICK label \in {"connected", "done"} : Goto(w, label)
      BY <1>3 DEF WriteLock, Goto, ReturnBytes, Return
    <2>2. /\ \A u \in (Readers \cup Writers) \ {w} : me'[u] = me[u]
          /\ label = "done" \/ me'[w].count = me[w].count
      BY ZenonT(60), <1>0, <1>3, <2>1 DEF WriteLock, Goto, ReturnBytes, Return, MeOK, TypeOK, PcOK
    <2> QED BY <1>3, <2>1, <2>2, CopiesGoOn, ZenonT(60) DEF WriteLock, Goto
  <1>4. CASE WriteCopy(w)
    <2>1. PICK k \in 0..me[w].n :
            kin' = kin + k /\ written' = written + k /\ CopyResult(w, k)
      BY <1>4 DEF WriteCopy
    <2>2. /\ ~Resetting
          /\ \A u \in Readers \cup Writers : pc[u] = "copy" => u = w
      BY <1>4, CopyAlone DEF WriteCopy
    <2>3. me[w].n \in 1..kfifo_avail /\ kfifo_len \in 0..FifoSize
      BY <1>4, <2>2, ZenonT(60) DEF WriteCopy, CopiesValid, FifoBounded
    <2>4. k \in 0..kfifo_avail
      BY <2>3, BoundsAssumption DEF kfifo_avail
    <2>5. PICK label \in {"wake", "done"} : Goto(w, label)
      BY <2>1 DEF CopyResult, ReturnBytes, Return, Goto
    <2>6. /\ \A u \in (Readers \cup Writers) \ {w} : me'[u] = me[u]
          /\ label = "wake" => me'[w].n >= 1 /\ me'[w].count = me[w].count
      BY <1>0, <2>1, <2>4, <2>5
      DEF CopyResult, ReturnBytes, Return, Goto, MeOK, Local, TypeOK, PcOK
    <2>7. \A u \in Threads : pc'[u] = IF u = w THEN label ELSE pc[u]
      BY <2>5 DEF Goto, TypeOK, PcOK
    <2>8. me[w].count >= 1 /\ UNCHANGED <<kout, last>>
      BY ZenonT(60), <1>4 DEF WriteCopy, CopiesValid
    <2>9. FifoBounded' /\ (last <= written)' /\ (last <= ByteAt(kout))'
      <3>1. /\ kin \in Nat /\ kout \in Nat /\ written \in Nat /\ last \in Int
            /\ kin - kout \in 0..FifoSize /\ k \in 0..(FifoSize - (kin - kout))
            /\ last <= written /\ last <= written - kin + kout
        BY <2>2, <2>3, <2>4, ZenonT(60)
        DEF CopiesValid, kfifo_len, kfifo_avail, ByteAt, TypeOK, DeviceOK
      <3>2. /\ (kin + k) - kout \in 0..FifoSize /\ last <= written + k
            /\ last <= (written + k) - (kin + k) + kout
        BY <3>1, AfterWrite, BoundsAssumption, ZenonT(60)
      <3>3. kin' = kin + k /\ written' = written + k /\ kout' = kout /\ last' = last
        BY <2>1, <2>8, ZenonT(60)
      <3> QED BY <3>2, <3>3, ZenonT(60) DEF FifoBounded, kfifo_len, ByteAt
    <2> QED BY <1>0, <2>2, <2>6, <2>7, <2>8, <2>9, ZenonT(60) DEF CopiesValid, Threads
  <1>5. CASE WriteConnected(w) \/ WaitPrepare(w) \/ WaitSchedule(w) \/ Leave(w) \/ WriteWake(w)
    <2>1. PICK label \in {"compare", "prepare", "idle", "done"} :
            Goto(w, label) /\ pc[w] # "idle" /\ (pc[w] # "done" \/ label = "idle")
      BY <1>5 DEF WriteConnected, WaitPrepare, WaitSchedule, Leave, WriteWake, Goto,
         ReturnBytes, Return
    <2>2. /\ \A u \in (Readers \cup Writers) \ {w} : me'[u] = me[u]
          /\ label \in {"idle", "done"} \/ me'[w].count = me[w].count
      BY SMTT(60), <1>0, <1>5, <2>1 DEF WriteConnected, WaitPrepare, WaitSchedule, Leave, WriteWake,
         ReturnBytes, Return, Goto, MeOK, Local, TypeOK, PcOK
    <2> QED BY <1>5, <2>1, <2>2, CopiesGoOn, ZenonT(60)
          DEF WriteConnected, WaitPrepare, WaitSchedule, Leave, WriteWake, Goto
  <1>6. CASE WriteCompare(w) \/ WriteType(w) \/ WriteRecheck(w)
    <2>1. PICK label \in {"done", "type", "lock", "recheck", "schedule", "connected"} :
            Goto(w, label)
      BY <1>6 DEF WriteCompare, WriteType, WriteRecheck, WaitOver, Goto, ReturnBytes, Return
    <2>2. /\ \A u \in (Readers \cup Writers) \ {w} : me'[u] = me[u]
          /\ label = "done" \/ me'[w].count = me[w].count
      <3>1. \/ Goto(w, "done") /\ me' = [me EXCEPT ![w] = [NoCall EXCEPT !.n = 0]]
            \/ me' = [me EXCEPT ![w] = [me[w] EXCEPT !.seen = NoLoad]]
            \/ UNCHANGED me
        BY <1>6 DEF WriteCompare, WriteType, WriteRecheck, WaitOver, Goto, ReturnBytes, Return
      <3> QED BY <1>0, <2>1, <3>1 DEF Goto, MeOK, Local, TypeOK, PcOK
    <2>3. /\ UNCHANGED <<kin, kout, written, last>>
          /\ pc[w] \in {"compare", "type", "recheck"}
      BY <1>6 DEF WriteCompare, WriteType, WriteRecheck
    <2> QED BY <2>1, <2>2, <2>3, CopiesGoOn, ZenonT(60) DEF Goto
  <1> QED BY <1>1, <1>2, <1>3, <1>4, <1>5, <1>6 DEF WriterStep

\* So does a step of poll(2), an ioctl (RESET included) or a signal.
LEMMA OtherCopies ==
  ASSUME TypeOK, LocksHeld, CopiesValid,
         \/ \E p \in Pollers : PollCall(p) \/ PollTimeout(p) \/ PollerStep(p)
         \/ \E c \in Controllers :
              \/ SetFault(c) \/ ReadOnlyIoctl(c) \/ ClearFault(c) \/ ResetLock(c)
              \/ ControllerStep(c)
         \/ \E t \in Threads : Interrupt(t)
  PROVE  CopiesValid'
  <1> USE DEF device, history
  <1>1. ASSUME NEW p \in Pollers, PollCall(p) \/ PollTimeout(p) \/ PollerStep(p)
        PROVE  CopiesValid'
    <2>1. PICK label \in PollerPc : Goto(p, label)
      BY <1>1, ZenonT(60) DEF PollCall, PollTimeout, PollerStep, PollType, PollLock, PollSchedule,
         PollReport, Leave, Goto, Return, PollerPc
    <2>2. p \notin Readers \cup Writers /\ p \in Threads
      BY RolesAssumption DEF Threads
    <2>3. UNCHANGED <<kin, kout, written, last, me>>
      BY <1>1, <2>2, ZenonT(60) DEF PollCall, PollTimeout, PollerStep, PollType, PollLock,
         PollSchedule, Leave
    <2> QED BY <2>1, <2>2, <2>3, CopiesFrame, ZenonT(60) DEF Goto, PollerPc, TypeOK, PcOK
  <1>2. ASSUME NEW c \in Controllers,
               \/ SetFault(c) \/ ReadOnlyIoctl(c) \/ ClearFault(c) \/ ResetLock(c)
               \/ IoctlWakeRead(c) \/ IoctlWakeWrite(c) \/ Leave(c)
        PROVE  CopiesValid'
    <2>1. PICK label \in {"fifolock", "wakeread", "wakewrite", "done", "idle"} : Goto(c, label)
      BY <1>2, ZenonT(60) DEF SetFault, ReadOnlyIoctl, ClearFault, ResetLock, IoctlWakeRead,
         IoctlWakeWrite, Leave, Goto, Return
    <2>2. c \notin Readers \cup Writers /\ c \in Threads
      BY ZenonT(60), RolesAssumption DEF Threads
    <2>3. /\ UNCHANGED <<kin, kout, written, last, me>>
          /\ pc[c] \in {"idle", "wakeread", "wakewrite", "done"}
      BY <1>2, <2>2, ZenonT(60) DEF SetFault, ReadOnlyIoctl, ClearFault, ResetLock, IoctlWakeRead,
         IoctlWakeWrite, Leave
    <2> QED BY <2>1, <2>2, <2>3, CopiesFrame, ZenonT(60) DEF Goto
  <1>3. ASSUME NEW c \in Controllers, ResetFault(c) \/ ResetIndex(c) \/ ResetDone(c)
        PROVE  CopiesValid'
    <2>1. \A t \in Readers \cup Writers :
            pc[t] # "copy" /\ pc'[t] = pc[t] /\ me'[t] = me[t]
      <3>1. \A t \in Readers \cup Writers : pc[t] # "copy"
        BY <1>3, CopyAlone, LockFree DEF ResetFault, ResetIndex, ResetDone, Resetting
      <3>2. \A t \in Readers \cup Writers : t # c
        BY RolesAssumption
      <3> QED BY <1>3, <3>1, <3>2, ZenonT(60)
            DEF ResetFault, ResetIndex, ResetDone, Goto, TypeOK, PcOK, Threads
    <2>2. (last <= written)'
      BY <1>3, ZenonT(60) DEF ResetFault, ResetIndex, ResetDone, CopiesValid
    <2>3. CASE ResetFault(c) \/ ResetIndex(c)
      <3>1. Resetting'
        BY ZenonT(60), <2>3 DEF ResetFault, ResetIndex, Resetting, Goto, TypeOK, PcOK, Threads
      <3> QED BY <2>1, <2>2, <3>1, ZenonT(60) DEF CopiesValid, FifoBounded
    <2>4. CASE ResetDone(c)
      <3>1. kin' = 0 /\ kout' = 0 /\ written' = written /\ last' = last
        BY <2>4, ZenonT(60) DEF ResetDone
      <3>2. 0 - 0 \in 0..FifoSize /\ written - 0 + 0 = written
        <4>1. FifoSize \in Nat /\ written \in Nat
          BY BoundsAssumption, ZenonT(60) DEF TypeOK, DeviceOK
        <4> QED BY <4>1
      <3>3. FifoBounded' /\ (~Resetting => last <= ByteAt(kout))'
        BY <2>2, <3>1, <3>2, ZenonT(60) DEF FifoBounded, kfifo_len, ByteAt
      <3> QED BY <2>1, <2>2, <3>3, ZenonT(60) DEF CopiesValid
    <2> QED BY ZenonT(60), <1>3, <2>3, <2>4
  <1>4. ASSUME NEW t \in Threads, Interrupt(t)
        PROVE  CopiesValid'
    <2>1. Goto(t, "done") /\ UNCHANGED <<kin, kout, written, last>>
      BY <1>4 DEF Interrupt, Goto, ReturnBytes, Return
    <2>2. \A u \in (Readers \cup Writers) \ {t} : me'[u] = me[u]
      BY <1>4 DEF Interrupt, ReturnBytes, TypeOK, LocalsOK, MeOK
    <2>3. pc[t] \notin {"reset", "reset2"}
      BY <1>4 DEF Interrupt
    <2> QED BY <2>1, <2>2, <2>3, CopiesFrame, ZenonT(60) DEF Goto
  <1> QED BY ZenonT(60), <1>1, <1>2, <1>3, <1>4 DEF ControllerStep

\* Lengths and room computed under fifo_lock are still right when the copy
\* runs, with RESET and any number of readers and writers around it.
THEOREM CopiesCorrect == Spec => []CopiesValid
  <1>1. Init => CopiesValid
    BY BoundsAssumption
    DEF Init, CopiesValid, FifoBounded, kfifo_len, ByteAt, Threads
  <1>2. TypeOK /\ LocksHeld /\ CopiesValid /\ [Next]_vars => CopiesValid'
    <2> SUFFICES ASSUME TypeOK, LocksHeld, CopiesValid, [Next]_vars PROVE CopiesValid'
      OBVIOUS
    <2>1. CASE UNCHANGED vars
      BY <2>1 DEF vars, CopiesValid, FifoBounded, Resetting, kfifo_len, kfifo_avail, ByteAt
    <2>2. CASE Next
      BY <2>2, ReaderCopies, WriterCopies, OtherCopies DEF Next
    <2> QED BY <2>1, <2>2
  <1> QED BY <1>1, <1>2, TypeCorrect, LocksCorrect, PTL DEF Spec

\* The FIFO holds between nothing and its size whenever no RESET is storing
\* the indices.
THEOREM FifoSafe == Spec => []FifoBounded
  BY CopiesCorrect, PTL DEF CopiesValid

\* Bytes leave the FIFO in the order in which they entered, each at most once.
THEOREM OrderKept == Spec => HandedInOrder
  <1>1. ASSUME TypeOK, LocksHeld, CopiesValid, NEW r \in Readers, pc[r] = "copy"
        PROVE  ByteAt(me[r].from + 1) > last
    <2>1. ~Resetting
      BY <1>1, CopyAlone
    <2> QED BY <1>1, <2>1 DEF CopiesValid, ByteAt, TypeOK, DeviceOK
  <1>2. TypeOK /\ LocksHeld /\ CopiesValid
          => [\A r \in Readers : pc[r] = "copy" /\ pc'[r] = "wake"
                                   => ByteAt(me[r].from + 1) > last]_vars
    BY <1>1
  <1> QED BY <1>2, TypeCorrect, LocksCorrect, CopiesCorrect, PTL DEF HandedInOrder

-----------------------------------------------------------------------------
(* Results of zero bytes.                                                  *)

\* A step of one thread that does not end a call with success.
LEMMA ZeroFrame ==
  ASSUME TypeOK, NeverZero, NEW t \in Threads, NEW label,
         pc' = [pc EXCEPT ![t] = label],
         \A u \in (Readers \cup Writers) \ {t} : me'[u] = me[u] /\ err'[u] = err[u],
         t \in Readers \cup Writers /\ label = "done" => err'[t] # "OK" \/ me'[t].n > 0
  PROVE  NeverZero'
  BY DEF TypeOK, PcOK, NeverZero, Threads

\* A read or a write returns an error, or a number of bytes that is not zero.
LEMMA ZeroReturn ==
  ASSUME TypeOK, NeverZero, NEW t \in Readers \cup Writers, NEW code, NEW k \in Int,
         ReturnBytes(t, code, k), code # "OK" \/ k > 0
  PROVE  NeverZero'
  <1>1. /\ pc' = [pc EXCEPT ![t] = "done"] /\ err' = [err EXCEPT ![t] = code]
        /\ me' = [me EXCEPT ![t] = [NoCall EXCEPT !.n = k]]
    BY DEF ReturnBytes, Return
  <1>2. t \in Threads /\ [NoCall EXCEPT !.n = k].n = k
    BY DEF Threads, NoCall
  <1>3. /\ \A u \in (Readers \cup Writers) \ {t} : me'[u] = me[u] /\ err'[u] = err[u]
        /\ me'[t].n = k /\ err'[t] = code
    BY <1>1, <1>2 DEF TypeOK, LocalsOK, MeOK, Threads
  <1> QED BY <1>1, <1>2, <1>3, ZeroFrame, ZenonT(60)

\* A read or a write goes on, or its caller takes the result.
LEMMA ZeroGoOn ==
  ASSUME TypeOK, NeverZero, NEW t \in Threads, NEW label, label # "done",
         pc' = [pc EXCEPT ![t] = label],
         \A u \in (Readers \cup Writers) \ {t} : me'[u] = me[u] /\ err'[u] = err[u]
  PROVE  NeverZero'
  BY ZeroFrame, ZenonT(60)

\* A copy that moved no byte returns -EFAULT, since it was asked for some.
LEMMA CopyZero ==
  ASSUME TypeOK, LocksHeld, CopiesValid, NeverZero, NEW t \in Readers \cup Writers,
         pc[t] = "copy", NEW k \in 0..me[t].n, CopyResult(t, k)
  PROVE  NeverZero'
  <1>1. me[t].n > 0 /\ me[t].n \in Int
    BY DEF CopiesValid, TypeOK, LocalsOK, MeOK, Local
  <1>2. CASE k > 0
    BY ZenonT(60), <1>2, ZeroGoOn DEF CopyResult, Goto, TypeOK, LocalsOK, MeOK, Threads
  <1>3. CASE ~(k > 0)
    BY <1>1, <1>3, ZeroReturn DEF CopyResult
  <1> QED BY <1>2, <1>3

\* No step of vdevlab_read returns zero.
LEMMA ReaderZero ==
  ASSUME TypeOK, LocksHeld, CopiesValid, NeverZero,
         NEW r \in Readers, ReadCall(r) \/ ReaderStep(r)
  PROVE  NeverZero'
  <1> USE DEF device, history
  <1>0. MeOK /\ r \in Threads /\ r \in Readers \cup Writers /\ err \in [Threads -> Codes]
    BY DEF TypeOK, LocalsOK, Threads
  <1>1. CASE ReadApplyFault(r)
    <2>1. CASE ReturnBytes(r, "EIO", 0) \/ ReturnBytes(r, "ENODEV", 0)
      BY <1>0, <2>1, ZeroReturn
    <2>2. CASE \E label \in {"delay", "lock"} : Goto(r, label) /\ UNCHANGED err
      <3>1. \A u \in (Readers \cup Writers) \ {r} : me'[u] = me[u]
        BY <1>0, <1>1 DEF ReadApplyFault, ApplyEio, Spend, ApplyDelay, ApplyPartial,
           ApplyOther, ReturnBytes, MeOK
      <3> QED BY <1>0, <2>2, <3>1, ZeroGoOn, ZenonT(60) DEF Goto
    <2> QED BY <1>1, <2>1, <2>2
          DEF ReadApplyFault, ApplyEio, Spend, ApplyDelay, ApplyPartial, ApplyOther
  <1>2. CASE ReadLock(r)
    <2>1. CASE ReturnBytes(r, "EAGAIN", 0)
      BY <1>0, <2>1, ZeroReturn
    <2>2. CASE UNCHANGED err /\ \E label \in {"copy", "prepare"} : Goto(r, label)
      <3>1. \A u \in (Readers \cup Writers) \ {r} : me'[u] = me[u]
        BY <1>0, <1>2 DEF ReadLock, ReturnBytes, MeOK
      <3> QED BY <1>0, <2>2, <3>1, ZeroGoOn, ZenonT(60) DEF Goto
    <2> QED BY <1>2, <2>1, <2>2 DEF ReadLock
  <1>3. CASE ReadCopy(r)
    BY <1>0, <1>3, CopyZero DEF ReadCopy
  <1>4. CASE ReadWake(r)
    <2>1. me[r].n > 0 /\ me[r].n \in Int
      BY <1>0, <1>4 DEF ReadWake, CopiesValid, MeOK, Local
    <2> QED BY <1>0, <1>4, <2>1, ZeroReturn DEF ReadWake
  <1>5. CASE ReadCall(r) \/ ReadDelayOver(r) \/ WaitPrepare(r) \/ WaitSchedule(r)
               \/ Leave(r) \/ ReadCompare(r) \/ ReadType(r)
    <2>1. PICK label \in ReaderPc : label # "done" /\ Goto(r, label)
      BY <1>5 DEF ReadCall, ReadDelayOver, WaitPrepare, WaitSchedule, Leave, ReadCompare,
         ReadType, WaitOver, Goto, ReaderPc
    <2>2. \A u \in (Readers \cup Writers) \ {r} : me'[u] = me[u] /\ err'[u] = err[u]
      BY <1>0, <1>5, ZenonT(60) DEF ReadCall, ReadDelayOver, WaitPrepare, WaitSchedule, Leave,
         ReadCompare, ReadType, WaitOver, MeOK, Threads
    <2> QED BY <1>0, <2>1, <2>2, ZeroGoOn, ZenonT(60) DEF Goto
  <1> QED BY <1>1, <1>2, <1>3, <1>4, <1>5 DEF ReaderStep

\* No step of vdevlab_write returns zero.
LEMMA WriterZero ==
  ASSUME TypeOK, LocksHeld, CopiesValid, NeverZero,
         NEW w \in Writers, WriteCall(w) \/ WriterStep(w)
  PROVE  NeverZero'
  <1> USE DEF device, history
  <1>0. MeOK /\ w \in Threads /\ w \in Readers \cup Writers /\ err \in [Threads -> Codes]
    BY DEF TypeOK, LocalsOK, Threads
  <1>1. CASE WriteConnected(w) \/ WriteCompare(w) \/ WriteLock(w)
    <2>1. CASE ReturnBytes(w, "ENODEV", 0) \/ ReturnBytes(w, "EAGAIN", 0)
      BY <1>0, <2>1, ZeroReturn
    <2>2. CASE UNCHANGED err /\ \E label \in WriterPc \ {"done"} : Goto(w, label)
      <3>1. \A u \in (Readers \cup Writers) \ {w} : me'[u] = me[u]
        BY <1>0, <1>1 DEF WriteConnected, WriteCompare, WriteLock, ReturnBytes, WaitOver, MeOK
      <3> QED BY <1>0, <2>2, <3>1, ZeroGoOn, ZenonT(60) DEF Goto
    <2> QED BY <1>1, <2>1, <2>2 DEF WriteConnected, WriteCompare, WriteLock, WaitOver, WriterPc
  <1>2. CASE WriteCopy(w)
    BY <1>0, <1>2, CopyZero DEF WriteCopy
  <1>3. CASE WriteWake(w)
    <2>1. me[w].n > 0 /\ me[w].n \in Int
      BY <1>0, <1>3 DEF WriteWake, CopiesValid, MeOK, Local
    <2> QED BY <1>0, <1>3, <2>1, ZeroReturn DEF WriteWake
  <1>4. CASE WriteCall(w) \/ WaitPrepare(w) \/ WaitSchedule(w) \/ Leave(w)
               \/ WriteType(w) \/ WriteRecheck(w)
    <2>1. PICK label \in WriterPc : label # "done" /\ Goto(w, label)
      BY <1>4 DEF WriteCall, WaitPrepare, WaitSchedule, Leave, WriteType, WriteRecheck,
         WaitOver, Goto, WriterPc
    <2>2. \A u \in (Readers \cup Writers) \ {w} : me'[u] = me[u] /\ err'[u] = err[u]
      BY <1>0, <1>4, ZenonT(60) DEF WriteCall, WaitPrepare, WaitSchedule, Leave, WriteType,
         WriteRecheck, WaitOver, MeOK, Threads
    <2> QED BY <1>0, <2>1, <2>2, ZeroGoOn, ZenonT(60) DEF Goto
  <1> QED BY <1>1, <1>2, <1>3, <1>4 DEF WriterStep

\* poll(2), ioctls and signals do not change what a read or write returned.
LEMMA OtherZero ==
  ASSUME TypeOK, NeverZero,
         \/ \E p \in Pollers : PollCall(p) \/ PollTimeout(p) \/ PollerStep(p)
         \/ \E c \in Controllers :
              \/ SetFault(c) \/ ReadOnlyIoctl(c) \/ ClearFault(c) \/ ResetLock(c)
              \/ ControllerStep(c)
         \/ \E t \in Threads : Interrupt(t)
  PROVE  NeverZero'
  <1> USE DEF device, history
  <1>0. /\ MeOK /\ err \in [Threads -> Codes]
        /\ pc \in [Threads -> ReaderPc \cup WriterPc \cup PollerPc \cup ControllerPc]
    BY DEF TypeOK, LocalsOK, PcOK
  <1>1. ASSUME NEW p \in Pollers, PollCall(p) \/ PollTimeout(p) \/ PollerStep(p)
        PROVE  NeverZero'
    <2>1. PICK label \in PollerPc : Goto(p, label)
      BY <1>1, ZenonT(60) DEF PollCall, PollTimeout, PollerStep, PollType, PollLock, PollSchedule,
         PollReport, Leave, Goto, Return, PollerPc
    <2>2. p \notin Readers \cup Writers /\ p \in Threads
      BY ZenonT(60), RolesAssumption DEF Threads
    <2>3. UNCHANGED me /\ \A u \in Threads \ {p} : err'[u] = err[u]
      <3>1. CASE PollCall(p) \/ PollSchedule(p)
        BY <1>0, <2>2, <3>1 DEF PollCall, PollSchedule
      <3>2. CASE PollTimeout(p) \/ Leave(p)
        BY <1>0, <2>2, <3>2 DEF PollTimeout, Return, Leave
      <3>3. CASE PollType(p)
        BY <1>0, <2>2, <3>3 DEF PollType, PollReport, Return
      <3>4. CASE PollLock(p)
        BY ZenonT(60), <1>0, <2>2, <3>4 DEF PollLock, PollReport, Return
      <3> QED BY <1>1, <3>1, <3>2, <3>3, <3>4, ZenonT(60) DEF PollerStep
    <2> QED BY <2>1, <2>2, <2>3, ZeroFrame, ZenonT(60) DEF Goto, Threads
  <1>2. ASSUME NEW c \in Controllers,
               \/ SetFault(c) \/ ReadOnlyIoctl(c) \/ ClearFault(c) \/ ResetLock(c)
               \/ ControllerStep(c)
        PROVE  NeverZero'
    <2>1. PICK label \in ControllerPc : Goto(c, label)
      BY <1>2, ZenonT(60) DEF SetFault, ReadOnlyIoctl, ClearFault, ResetLock, ControllerStep,
         ResetFault, ResetIndex, ResetDone, IoctlWakeRead, IoctlWakeWrite, Leave, Goto,
         Return, ControllerPc
    <2>2. c \notin Readers \cup Writers /\ c \in Threads
      BY ZenonT(60), RolesAssumption DEF Threads
    <2>3. UNCHANGED me /\ \A u \in Threads \ {c} : err'[u] = err[u]
      BY ZenonT(60), <1>0, <1>2, <2>2 DEF SetFault, ReadOnlyIoctl, ClearFault, ResetLock,
         ControllerStep, ResetFault, ResetIndex, ResetDone, IoctlWakeRead,
         IoctlWakeWrite, Return, Leave
    <2> QED BY <2>1, <2>2, <2>3, ZeroFrame, ZenonT(60) DEF Goto, Threads
  <1>3. ASSUME NEW t \in Threads, Interrupt(t)
        PROVE  NeverZero'
    <2>1. /\ Goto(t, "done") /\ err' = [err EXCEPT ![t] = "EINTR"]
          /\ \A u \in (Readers \cup Writers) \ {t} : me'[u] = me[u]
      BY <1>0, <1>3 DEF Interrupt, Goto, ReturnBytes, Return, MeOK
    <2> QED BY <1>0, <2>1, ZeroFrame, ZenonT(60) DEF Goto, Threads
  <1> QED BY <1>1, <1>2, <1>3

\* A read or write of at least one byte returns an error or at least one byte:
\* neither a RESET nor a competing thread between the test for data and the
\* copy makes it return the zero that user space takes for end of file.
THEOREM NoFalseEof == Spec => []NeverZero
  <1>1. Init => NeverZero
    BY DEF Init, NeverZero, Threads
  <1>2. TypeOK /\ LocksHeld /\ CopiesValid /\ NeverZero /\ [Next]_vars => NeverZero'
    <2> SUFFICES ASSUME TypeOK, LocksHeld, CopiesValid, NeverZero, [Next]_vars
                 PROVE  NeverZero'
      OBVIOUS
    <2>1. CASE UNCHANGED vars
      BY <2>1 DEF vars, NeverZero
    <2>2. CASE Next
      BY <2>2, ReaderZero, WriterZero, OtherZero DEF Next
    <2> QED BY <2>1, <2>2
  <1> QED BY <1>1, <1>2, TypeCorrect, LocksCorrect, CopiesCorrect, PTL DEF Spec
=============================================================================

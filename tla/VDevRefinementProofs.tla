------------------------ MODULE VDevRefinementProofs ------------------------
(***************************************************************************)
(* The threads of VDevCore implement the atomic device of VDevSpec, for    *)
(* any number of threads, any FIFO size and any fault records.             *)
(***************************************************************************)
EXTENDS VDevRefinement, VDevSafetyProofs, SequenceTheorems

-----------------------------------------------------------------------------
(* The FIFO of the mapping.                                                *)

\* Outside of RESET the mapped FIFO is the bytes between the two indices.
LEMMA FifoMapped ==
  ASSUME TypeOK, CopiesValid
  PROVE  /\ AbsFifo \in Seq(Int)
         /\ Resetting => AbsFifo = <<>>
         /\ ~Resetting => /\ Len(AbsFifo) = kfifo_len
                          /\ \A i \in 1..kfifo_len : AbsFifo[i] = ByteAt(kout + i)
<1> USE DEF TypeOK, DeviceOK
<1>1. CASE Resetting
  BY <1>1 DEF AbsFifo
<1>2. CASE ~Resetting
  <2>1. kfifo_len \in Nat
    BY <1>2, BoundsAssumption DEF CopiesValid, FifoBounded
  <2>2. AbsFifo = [i \in 1..kfifo_len |-> ByteAt(kout + i)]
    BY <1>2 DEF AbsFifo
  <2>3. \A i \in 1..kfifo_len : ByteAt(kout + i) \in Int
    BY <2>1 DEF ByteAt
  <2> QED BY <1>2, <2>1, <2>2, <2>3
<1> QED BY <1>1, <1>2

\* A mapped FIFO is empty when the indices are equal.
LEMMA FifoEmpty ==
  ASSUME TypeOK, CopiesValid PROVE kfifo_len = 0 => AbsFifo = <<>>
BY FifoMapped DEF AbsFifo

\* A read that copies k bytes takes them from the front.
LEMMA FifoRead ==
  ASSUME TypeOK, CopiesValid, ~Resetting, ~Resetting', NEW k \in 1..kfifo_len,
         kout' = kout + k, UNCHANGED <<kin, written>>
  PROVE  /\ AbsFifo' = SubSeq(AbsFifo, k + 1, Len(AbsFifo))
         /\ AbsFifo[k] = ByteAt(kout + k)
         /\ k \in 1..Len(AbsFifo)
<1> USE DEF TypeOK, DeviceOK
<1> DEFINE S == SubSeq(AbsFifo, k + 1, Len(AbsFifo))
<1>1. kfifo_len \in Nat /\ kfifo_len' = kfifo_len - k
  BY BoundsAssumption DEF CopiesValid, FifoBounded, kfifo_len
<1>2. /\ AbsFifo \in Seq(Int) /\ Len(AbsFifo) = kfifo_len
      /\ \A i \in 1..kfifo_len : AbsFifo[i] = ByteAt(kout + i)
  BY FifoMapped
<1>3. AbsFifo' = [i \in 1..(kfifo_len - k) |-> ByteAt(kout + k + i)]
  BY <1>1 DEF AbsFifo, ByteAt
<1>4. S \in Seq(Int) /\ Len(S) = kfifo_len - k
  BY <1>1, <1>2
<1>5. \A i \in 1..(kfifo_len - k) : S[i] = ByteAt(kout + k + i)
  BY <1>1, <1>2 DEF ByteAt
<1>6. /\ AbsFifo' \in Seq(Int) /\ Len(AbsFifo') = kfifo_len - k
      /\ \A i \in 1..(kfifo_len - k) : AbsFifo'[i] = ByteAt(kout + k + i)
  BY <1>1, <1>3 DEF ByteAt
<1>7. AbsFifo' = S
  <2> HIDE DEF S
  <2> QED BY <1>1, <1>4, <1>5, <1>6, SeqEqual
<1> QED BY <1>1, <1>2, <1>7

\* A write that copies k bytes appends them.
LEMMA FifoWrite ==
  ASSUME TypeOK, CopiesValid, ~Resetting, ~Resetting', NEW k \in 1..kfifo_avail,
         kin' = kin + k, written' = written + k, UNCHANGED kout
  PROVE  /\ AbsFifo' = AbsFifo \o [i \in 1..k |-> written + i]
         /\ k \in 1..(FifoSize - Len(AbsFifo))
<1> USE DEF TypeOK, DeviceOK
<1> DEFINE T == [i \in 1..k |-> written + i]
<1>1. kfifo_len \in Nat /\ kfifo_len' = kfifo_len + k /\ k \in Nat
  BY BoundsAssumption DEF CopiesValid, FifoBounded, kfifo_len, kfifo_avail
<1>2. /\ AbsFifo \in Seq(Int) /\ Len(AbsFifo) = kfifo_len
      /\ \A i \in 1..kfifo_len : AbsFifo[i] = ByteAt(kout + i)
  BY FifoMapped
<1>3. AbsFifo' = [i \in 1..(kfifo_len + k) |-> ByteAt(kout + i)]
  BY <1>1 DEF AbsFifo, ByteAt
<1>4. T \in Seq(Int) /\ Len(T) = k /\ \A i \in 1..k : T[i] = written + i
  BY <1>1
<1>5. /\ AbsFifo \o T \in Seq(Int) /\ Len(AbsFifo \o T) = kfifo_len + k
      /\ \A i \in 1..(kfifo_len + k) :
           (AbsFifo \o T)[i] = IF i <= kfifo_len THEN AbsFifo[i] ELSE T[i - kfifo_len]
  <2> HIDE DEF T
  <2> QED BY ZenonT(60), <1>1, <1>2, <1>4, ConcatProperties
<1>6. \A i \in 1..(kfifo_len + k) : (AbsFifo \o T)[i] = ByteAt(kout + i)
  <2> HIDE DEF T
  <2> TAKE i \in 1..(kfifo_len + k)
  <2>1. CASE i <= kfifo_len
    <3>1. i \in 1..kfifo_len
      BY <1>1, <2>1
    <3>2. (AbsFifo \o T)[i] = AbsFifo[i]
      BY <1>5, <2>1
    <3> QED BY <1>2, <3>1, <3>2
  <2>2. CASE i > kfifo_len
    <3>1. i - kfifo_len \in 1..k
      BY <1>1, <2>2
    <3>2. T[i - kfifo_len] = written + (i - kfifo_len)
      BY <1>4, <3>1
    <3> QED BY SMTT(60), <1>1, <1>5, <2>2, <3>2 DEF ByteAt, kfifo_len
  <2>3. i <= kfifo_len \/ i > kfifo_len
    BY <1>1
  <2> QED BY <2>1, <2>2, <2>3, ZenonT(60)
<1>7. /\ AbsFifo' \in Seq(Int) /\ Len(AbsFifo') = kfifo_len + k
      /\ \A i \in 1..(kfifo_len + k) : AbsFifo'[i] = ByteAt(kout + i)
  BY <1>1, <1>3 DEF ByteAt
<1>8. AbsFifo' = AbsFifo \o T
  <2> HIDE DEF T
  <2> QED BY <1>1, <1>5, <1>6, <1>7, SeqEqual, ZenonT(60)
<1> QED BY <1>1, <1>2, <1>8, BoundsAssumption DEF kfifo_avail

-----------------------------------------------------------------------------
(* The threads of the mapping.                                             *)

\* What a thread owes its caller changes only in its last steps: the result is
\* clear before, and a poll in progress asked for one kind of event.
CallsClear ==
  /\ \A t \in Threads : pc[t] # "done" => err[t] = "OK"
  /\ \A p \in Pollers : /\ pc[p] # "done" => poll[p].mask = {}
                        /\ pc[p] # "idle" => poll[p].want \in {{"IN"}, {"OUT"}}

\* Phase and result of one thread under the mapping.
PhaseOf(t) == IF pc[t] \in Served THEN "served"
              ELSE IF pc[t] \in {"idle", "fifolock"} THEN "idle" ELSE "called"

ResultOf(t) ==
  [code |-> err[t],
   n    |-> IF t \in Readers \cup Writers /\ pc[t] \in Served THEN me[t].n ELSE 0,
   mask |-> IF t \in Pollers THEN poll[t].mask ELSE {}]

\* The locals of all threads but t are left alone.
OnlyTouches(t) ==
  /\ \A u \in Threads \ {t} : pc'[u] = pc[u] /\ err'[u] = err[u]
  /\ \A u \in (Readers \cup Writers) \ {t} : me'[u] = me[u]
  /\ \A u \in Pollers \ {t} : poll'[u] = poll[u]

\* A step of one thread changes the mapping at that thread only.
LEMMA MappedLocally ==
  ASSUME NEW t \in Threads, OnlyTouches(t)
  PROVE  /\ AbsPhase' = [AbsPhase EXCEPT ![t] = PhaseOf(t)']
         /\ AbsResult' = [AbsResult EXCEPT ![t] = ResultOf(t)']
<1>1. AbsPhase = [u \in Threads |-> PhaseOf(u)] /\ AbsResult = [u \in Threads |-> ResultOf(u)]
  BY DEF AbsPhase, AbsResult, PhaseOf, ResultOf
<1>2. /\ AbsPhase' = [u \in Threads |-> PhaseOf(u)']
      /\ AbsResult' = [u \in Threads |-> ResultOf(u)']
  BY DEF AbsPhase, AbsResult, PhaseOf, ResultOf
<1>3. \A u \in Threads \ {t} : PhaseOf(u)' = PhaseOf(u) /\ ResultOf(u)' = ResultOf(u)
  BY ZenonT(60) DEF OnlyTouches, PhaseOf, ResultOf, Threads
<1> QED BY <1>1, <1>2, <1>3, ZenonT(60)

\* A step that serves the call of t with res, as VDevSpec has it.
LEMMA Serves ==
  ASSUME NEW t \in Threads, OnlyTouches(t), NEW res, ResultOf(t)' = res,
         PhaseOf(t)' = "served",
         PhaseOf(t) = IF t \in Controllers THEN "idle" ELSE "called"
  PROVE  Device!Serve(t, res)
BY MappedLocally DEF Device!Serve, AbsPhase, PhaseOf

\* A step that changes nothing VDevSpec shows.
LEMMA Stutters ==
  ASSUME NEW t \in Threads, OnlyTouches(t), PhaseOf(t)' = PhaseOf(t),
         ResultOf(t)' = ResultOf(t), UNCHANGED <<fault, AbsFifo, written, last>>
  PROVE  UNCHANGED Device!vars
<1>1. AbsPhase = [u \in Threads |-> PhaseOf(u)] /\ AbsResult = [u \in Threads |-> ResultOf(u)]
  BY DEF AbsPhase, AbsResult, PhaseOf, ResultOf
<1>2. /\ AbsPhase' = [AbsPhase EXCEPT ![t] = PhaseOf(t)]
      /\ AbsResult' = [AbsResult EXCEPT ![t] = ResultOf(t)]
  BY MappedLocally
<1>3. AbsPhase' = AbsPhase /\ AbsResult' = AbsResult
  BY <1>1, <1>2, ZenonT(60)
<1> QED BY <1>3 DEF Device!vars

\* The mapped FIFO is left alone by whoever leaves the indices alone.
LEMMA FifoKept ==
  ASSUME NEW t \in Threads, OnlyTouches(t), UNCHANGED <<kin, kout, written>>,
         t \in Controllers => (pc[t] \in {"reset", "reset2"} <=> pc'[t] \in {"reset", "reset2"})
  PROVE  AbsFifo' = AbsFifo /\ Resetting' = Resetting
<1>1. \A c \in Controllers : pc[c] \in {"reset", "reset2"} <=> pc'[c] \in {"reset", "reset2"}
  BY DEF OnlyTouches, Threads
<1>2. Resetting' <=> Resetting
  BY <1>1 DEF Resetting
<1> QED BY <1>2 DEF AbsFifo, kfifo_len, ByteAt, Resetting

-----------------------------------------------------------------------------
(* Which threads a step touches.                                           *)

\* The moves a thread makes, and what they touch.
LEMMA GoesTo ==
  ASSUME TypeOK, NEW t \in Threads, NEW label, Goto(t, label), UNCHANGED <<err, poll>>,
         \A u \in (Readers \cup Writers) \ {t} : me'[u] = me[u]
  PROVE  OnlyTouches(t) /\ pc'[t] = label /\ err'[t] = err[t]
BY DEF TypeOK, PcOK, LocalsOK, MeOK, Goto, OnlyTouches

\* A read or a write that returns touches its own locals only.
LEMMA ReturnsBytes ==
  ASSUME TypeOK, NEW t \in Readers \cup Writers, NEW code, NEW k,
         ReturnBytes(t, code, k), UNCHANGED poll
  PROVE  /\ OnlyTouches(t) /\ pc'[t] = "done" /\ err'[t] = code /\ me'[t].n = k
         /\ PhaseOf(t)' = "served"
         /\ ResultOf(t)' = [code |-> code, n |-> k, mask |-> {}]
<1>1. OnlyTouches(t) /\ pc'[t] = "done" /\ err'[t] = code /\ me'[t].n = k
  BY DEF TypeOK, PcOK, LocalsOK, MeOK, ReturnBytes, Return, OnlyTouches, Threads, NoCall
<1> QED BY <1>1, RolesAssumption DEF PhaseOf, ResultOf, Served, Threads

\* Results stay clear when the thread that steps keeps its own clear.
LEMMA ClearKept ==
  ASSUME CallsClear, NEW t \in Threads, OnlyTouches(t),
         pc'[t] # "done" => err'[t] = "OK",
         t \in Pollers => /\ pc'[t] # "done" => poll'[t].mask = {}
                          /\ pc'[t] # "idle" => poll'[t].want \in {{"IN"}, {"OUT"}}
  PROVE  CallsClear'
BY DEF CallsClear, OnlyTouches, Threads

\* The device as VDevSpec has it, but for phases and results.
Untouched == UNCHANGED <<fault, kin, kout, written, last>>

InCallOf(label) == label \notin Served \cup {"idle", "fifolock"}

\* A read or a write on its way changes nothing VDevSpec shows.
LEMMA Moves ==
  ASSUME TypeOK, CallsClear, NEW t \in Readers \cup Writers, NEW label, Goto(t, label),
         UNCHANGED <<err, poll>>, \A u \in (Readers \cup Writers) \ {t} : me'[u] = me[u],
         InCallOf(pc[t]), InCallOf(label), Untouched
  PROVE  UNCHANGED Device!vars /\ CallsClear'
<1>1. t \in Threads /\ t \notin Pollers /\ t \notin Controllers
  BY RolesAssumption DEF Threads
<1>2. OnlyTouches(t) /\ pc'[t] = label /\ err'[t] = err[t]
  BY <1>1, GoesTo
<1>3. PhaseOf(t)' = PhaseOf(t) /\ ResultOf(t)' = ResultOf(t)
  BY <1>1, <1>2, ZenonT(60) DEF PhaseOf, ResultOf, InCallOf
<1>4. UNCHANGED <<fault, AbsFifo, written, last>>
  BY <1>1, <1>2, FifoKept DEF Untouched
<1>5. err'[t] = "OK"
  BY <1>1, <1>2 DEF CallsClear, InCallOf, Served
<1> QED BY <1>1, <1>2, <1>3, <1>4, <1>5, Stutters, ClearKept

\* The call of a read or a write.
LEMMA Calls ==
  ASSUME TypeOK, CallsClear, NEW t \in Readers \cup Writers, NEW label, Goto(t, label),
         UNCHANGED <<err, poll>>, \A u \in (Readers \cup Writers) \ {t} : me'[u] = me[u],
         pc[t] = "idle", InCallOf(label), Untouched
  PROVE  Device!Call(t) /\ CallsClear'
<1>1. t \in Threads /\ t \notin Pollers /\ t \notin Controllers
  BY RolesAssumption DEF Threads
<1>2. OnlyTouches(t) /\ pc'[t] = label /\ err'[t] = err[t]
  BY <1>1, GoesTo
<1>3. PhaseOf(t) = "idle" /\ PhaseOf(t)' = "called" /\ ResultOf(t)' = ResultOf(t)
  BY <1>1, <1>2 DEF PhaseOf, ResultOf, InCallOf, Served
<1>4. UNCHANGED <<fault, AbsFifo, written, last>>
  BY <1>1, <1>2, FifoKept DEF Untouched
<1>5. err'[t] = "OK"
  BY <1>1, <1>2 DEF CallsClear, InCallOf, Served
<1>6. AbsResult = [u \in Threads |-> ResultOf(u)] /\ AbsPhase[t] = "idle"
  BY <1>1, <1>3 DEF AbsResult, AbsPhase, ResultOf, PhaseOf
<1>7. AbsResult' = AbsResult /\ AbsPhase' = [AbsPhase EXCEPT ![t] = "called"]
  <2>1. /\ AbsPhase' = [AbsPhase EXCEPT ![t] = "called"]
        /\ AbsResult' = [AbsResult EXCEPT ![t] = ResultOf(t)]
    BY ZenonT(60), <1>1, <1>2, <1>3, MappedLocally
  <2> QED BY <1>6, <2>1
<1> QED BY <1>1, <1>2, <1>4, <1>5, <1>6, <1>7, ClearKept DEF Device!Call

\* A read or a write that fails changes nothing but its result.
LEMMA Fails ==
  ASSUME TypeOK, CallsClear, NEW t \in Readers \cup Writers, NEW code,
         ReturnBytes(t, code, 0), UNCHANGED poll, InCallOf(pc[t])
  PROVE  /\ Device!Serve(t, Device!Failed(code)) /\ CallsClear'
         /\ UNCHANGED <<kin, kout, written>> => AbsFifo' = AbsFifo
<1>1. t \in Threads /\ t \notin Pollers /\ t \notin Controllers
  BY RolesAssumption DEF Threads
<1>2. /\ OnlyTouches(t) /\ pc'[t] = "done" /\ PhaseOf(t)' = "served"
      /\ ResultOf(t)' = Device!Failed(code)
  BY SMTT(60), ReturnsBytes DEF Device!Failed, Device!NoResult
<1>3. PhaseOf(t) = "called"
  BY DEF PhaseOf, InCallOf
<1>4. Device!Serve(t, Device!Failed(code))
  BY <1>1, <1>2, <1>3, Serves
<1>5. UNCHANGED <<kin, kout, written>> => AbsFifo' = AbsFifo
  BY <1>1, <1>2, FifoKept
<1> QED BY <1>1, <1>2, <1>4, <1>5, ClearKept

\* A copy of at least one byte serves its call.
LEMMA Copies ==
  ASSUME TypeOK, CallsClear, NEW t \in Readers \cup Writers, pc[t] = "copy",
         NEW k \in Nat \ {0}, CopyResult(t, k), UNCHANGED poll
  PROVE  /\ Device!Serve(t, Device!Bytes(k)) /\ CallsClear'
         /\ Resetting' = Resetting
<1>1. t \in Threads /\ t \notin Pollers /\ t \notin Controllers
  BY RolesAssumption DEF Threads
<1>2. Goto(t, "wake") /\ me' = [me EXCEPT ![t].n = k] /\ UNCHANGED err
  BY DEF CopyResult
<1>3. /\ me'[t].n = k /\ \A u \in (Readers \cup Writers) \ {t} : me'[u] = me[u]
  BY <1>2 DEF TypeOK, LocalsOK, MeOK, Local
<1>4. OnlyTouches(t) /\ pc'[t] = "wake" /\ err'[t] = "OK"
  BY <1>1, <1>2, <1>3, GoesTo DEF CallsClear
<1>5. PhaseOf(t) = "called" /\ PhaseOf(t)' = "served"
  BY <1>4 DEF PhaseOf, Served
<1>6. ResultOf(t)' = Device!Bytes(k)
  BY <1>1, <1>3, <1>4 DEF ResultOf, Served, Device!Bytes, Device!NoResult
<1>7. Resetting' = Resetting
  <2>1. \A c \in Controllers : pc'[c] = pc[c]
    BY <1>1, <1>4 DEF OnlyTouches, Threads
  <2> QED BY <2>1 DEF Resetting
<1> QED BY ZenonT(60), <1>1, <1>4, <1>5, <1>6, <1>7, Serves, ClearKept

\* The wake-up after a copy, and the way back, were part of the served call.
LEMMA Wakes ==
  ASSUME TypeOK, CallsClear, NEW t \in Readers \cup Writers, pc[t] = "wake",
         ReturnBytes(t, "OK", me[t].n), UNCHANGED <<device, history, poll>>
  PROVE  UNCHANGED Device!vars /\ CallsClear'
<1>1. t \in Threads /\ t \notin Pollers /\ t \notin Controllers
  BY RolesAssumption DEF Threads
<1>2. /\ OnlyTouches(t) /\ pc'[t] = "done" /\ PhaseOf(t)' = "served"
      /\ ResultOf(t)' = [code |-> "OK", n |-> me[t].n, mask |-> {}]
  BY ReturnsBytes
<1>3. PhaseOf(t) = "served" /\ ResultOf(t) = [code |-> "OK", n |-> me[t].n, mask |-> {}]
  BY ZenonT(60), <1>1 DEF PhaseOf, ResultOf, Served, CallsClear
<1>4. UNCHANGED <<fault, AbsFifo, written, last>>
  BY <1>1, <1>2, FifoKept DEF device, history
<1> QED BY ZenonT(60), <1>1, <1>2, <1>3, <1>4, Stutters, ClearKept

\* A thread returns from its call.
LEMMA Leaves ==
  ASSUME TypeOK, CallsClear, NEW t \in Threads, Leave(t)
  PROVE  Device!Return(t) /\ CallsClear'
<1>1. OnlyTouches(t) /\ pc'[t] = "idle" /\ err'[t] = "OK"
  BY DEF Leave, Goto, OnlyTouches, TypeOK, PcOK, LocalsOK, MeOK
<1>2. t \in Pollers => poll'[t].mask = {}
  BY DEF Leave, NoPoll, TypeOK, LocalsOK
<1>3. PhaseOf(t) = "served" /\ PhaseOf(t)' = "idle"
  BY ZenonT(60), <1>1 DEF PhaseOf, Served, Leave
<1>4. ResultOf(t)' = Device!NoResult
  BY ZenonT(60), <1>1, <1>2 DEF ResultOf, Served, Device!NoResult
<1>5. UNCHANGED <<fault, AbsFifo, written, last>>
  BY ZenonT(60), <1>1, FifoKept DEF Leave, device, history
<1>6. /\ AbsPhase' = [AbsPhase EXCEPT ![t] = "idle"]
      /\ AbsResult' = [AbsResult EXCEPT ![t] = Device!NoResult]
  BY <1>1, <1>3, <1>4, MappedLocally
<1>7. AbsPhase[t] = "served"
  BY <1>3 DEF AbsPhase, PhaseOf
<1> QED BY ZenonT(60), <1>1, <1>2, <1>5, <1>6, <1>7, ClearKept DEF Device!Return

-----------------------------------------------------------------------------
(* Every step is one of VDevSpec, or invisible there.                      *)

Simulates == (Device!Next \/ UNCHANGED Device!vars) /\ CallsClear'

\* The calls of vdevlab_read.
LEMMA ReaderSimulates ==
  ASSUME TypeOK, FaultWellFormed, LocksHeld, CopiesValid, CallsClear,
         NEW r \in Readers, ReadCall(r) \/ ReaderStep(r)
  PROVE  Simulates
<1> USE DEF device, history, Untouched
<1>0. /\ r \in Threads /\ r \notin Controllers /\ r \in Readers \cup Writers
      /\ me[r] \in Local
  BY RolesAssumption DEF Threads, TypeOK, LocalsOK, MeOK
<1>1. CASE ReadCall(r)
  <2>1. \A u \in (Readers \cup Writers) \ {r} : me'[u] = me[u]
    BY <1>1, ZenonT(60) DEF ReadCall, TypeOK, LocalsOK, MeOK
  <2>2. Device!Call(r) /\ CallsClear'
    BY <1>0, <1>1, <2>1, Calls, ZenonT(60) DEF ReadCall, InCallOf, Served
  <2> QED BY ZenonT(60), <1>0, <2>2 DEF Simulates, Device!Next, Device!Threads, Threads
<1>2. CASE ReadApplyFault(r)
  <2>0. InCallOf(pc[r])
    BY <1>2 DEF ReadApplyFault, InCallOf, Served
  <2>1. CASE ApplyEio(r)
    <3>1. fault.repeat # 0 /\ fault.repeat \in Nat
      BY <2>1 DEF ApplyEio, FaultWellFormed, Valid, TypeOK, DeviceOK, FaultConfig
    <3>2. ReturnBytes(r, "EIO", 0) /\ fault' = Spend(fault)
      BY ZenonT(60), <2>1, <3>1 DEF ApplyEio
    <3>3. /\ Device!Serve(r, Device!Failed("EIO")) /\ CallsClear'
          /\ UNCHANGED <<AbsFifo, written, last>>
      BY <1>0, <1>2, <2>0, <3>2, Fails DEF ReadApplyFault
    <3>4. Device!ReadEio(r)
      BY SMTT(60), <2>1, <3>1, <3>2, <3>3
      DEF ApplyEio, Device!ReadEio, Spend, NoFault, Device!NoFault
    <3> QED BY <3>3, <3>4 DEF Simulates, Device!Next
  <2>2. CASE ApplyDelay(r) \/ ApplyPartial(r)
    <3>1. PICK label \in {"lock", "delay"} : Goto(r, label)
      BY <2>2 DEF ApplyDelay, ApplyPartial
    <3>2. \A u \in (Readers \cup Writers) \ {r} : me'[u] = me[u]
      BY <2>2 DEF ApplyDelay, ApplyPartial, TypeOK, LocalsOK, MeOK
    <3>3. UNCHANGED <<err, poll>> /\ Untouched
      BY <1>2, <2>2 DEF ReadApplyFault, ApplyDelay, ApplyPartial
    <3>4. InCallOf(label)
      BY <3>1 DEF InCallOf, Served
    <3> QED BY ZenonT(60), <1>0, <2>0, <3>1, <3>2, <3>3, <3>4, Moves DEF Simulates
  <2>3. CASE ApplyOther(r)
    <3>1. CASE fault.type = "NONE" /\ Goto(r, "lock") /\ UNCHANGED <<me, err>>
      <4>1. Untouched /\ UNCHANGED poll
        BY <1>2, <2>3 DEF ReadApplyFault, ApplyOther
      <4>2. InCallOf("lock")
        BY DEF InCallOf, Served
      <4> QED BY ZenonT(60), <1>0, <2>0, <3>1, <4>1, <4>2, Moves DEF Simulates
    <3>2. CASE fault.type = "DISCONNECT" /\ ReturnBytes(r, "ENODEV", 0)
      <4>1. /\ Device!Serve(r, Device!Failed("ENODEV")) /\ CallsClear'
            /\ UNCHANGED <<fault, AbsFifo, written, last>>
        BY ZenonT(60), <1>0, <1>2, <2>0, <2>3, <3>2, Fails DEF ReadApplyFault, ApplyOther
      <4> QED BY ZenonT(60), <3>2, <4>1 DEF Simulates, Device!Next, Device!FailRead
    <3> QED BY <2>3, <3>1, <3>2 DEF ApplyOther
  <2> QED BY <1>2, <2>1, <2>2, <2>3 DEF ReadApplyFault
<1>3. CASE ReadDelayOver(r)
  <2>1. InCallOf("lock") /\ InCallOf(pc[r])
    BY <1>3 DEF ReadDelayOver, InCallOf, Served
  <2> QED BY <1>0, <1>3, <2>1, Moves DEF ReadDelayOver, Simulates
<1>4. CASE ReadLock(r)
  <2>0. /\ InCallOf(pc[r]) /\ InCallOf("copy") /\ InCallOf("prepare")
        /\ Untouched /\ UNCHANGED poll
    BY <1>4 DEF ReadLock, InCallOf, Served
  <2>1. CASE kfifo_len # 0
    <3>1. \A u \in (Readers \cup Writers) \ {r} : me'[u] = me[u]
      BY <1>4, <2>1 DEF ReadLock, TypeOK, LocalsOK, MeOK
    <3> QED BY ZenonT(60), <1>0, <1>4, <2>0, <2>1, <3>1, Moves DEF ReadLock, Simulates
  <2>2. CASE kfifo_len = 0 /\ me[r].nonblock
    <3>1. ReturnBytes(r, "EAGAIN", 0)
      BY <1>4, <2>2 DEF ReadLock
    <3>2. /\ Device!Serve(r, Device!Failed("EAGAIN")) /\ CallsClear'
          /\ UNCHANGED <<fault, AbsFifo, written, last>>
      BY <1>0, <2>0, <3>1, Fails
    <3>3. AbsFifo = <<>>
      BY <2>2, FifoEmpty
    <3> QED BY <3>2, <3>3 DEF Simulates, Device!Next, Device!FailRead
  <2>3. CASE kfifo_len = 0 /\ ~me[r].nonblock
    <3>1. Goto(r, "prepare") /\ UNCHANGED <<me, err>>
      BY <1>4, <2>3 DEF ReadLock
    <3> QED BY <1>0, <2>0, <3>1, Moves DEF Simulates
  <2> QED BY <2>1, <2>2, <2>3
<1>5. CASE ReadCopy(r)
  <2>0. PICK k \in 0..me[r].n :
          /\ kout' = kout + k
          /\ last' = IF k = 0 THEN last ELSE ByteAt(me[r].from + k)
          /\ CopyResult(r, k)
    BY ZenonT(60), <1>5 DEF ReadCopy
  <2>1. /\ me[r].from = kout /\ me[r].n \in 1..kfifo_len /\ ~Resetting
        /\ kfifo_len \in Nat /\ pc[r] = "copy" /\ k \in Nat
    <3>1. pc[r] = "copy"
      BY ZenonT(60), <1>5 DEF ReadCopy
    <3>2. ~Resetting
      BY ZenonT(60), <1>0, <3>1, CopyAlone
    <3>3. me[r].from = kout /\ me[r].n \in 1..kfifo_len
      BY ZenonT(60), <3>1 DEF CopiesValid
    <3>4. kfifo_len \in Int
      BY DEF TypeOK, DeviceOK, kfifo_len
    <3>5. kfifo_len \in Nat /\ k \in Nat
      BY <3>3, <3>4
    <3> QED BY ZenonT(60), <3>1, <3>2, <3>3, <3>5
  <2>2. CASE k = 0
    <3>1. ReturnBytes(r, "EFAULT", 0)
      BY SMTT(60), <2>0, <2>1, <2>2 DEF CopyResult
    <3>2. InCallOf(pc[r]) /\ UNCHANGED <<fault, kin, kout, written, last, poll>>
      <4>1. /\ UNCHANGED <<fault, kin, written, poll>>
            /\ pc[r] = "copy" /\ kout' = kout + k
        BY ZenonT(60), <1>5, <2>0 DEF ReadCopy
      <4>2. InCallOf(pc[r])
        BY <4>1 DEF InCallOf, Served
      <4>3. kout' = kout
        BY <2>2, <4>1 DEF TypeOK, DeviceOK
      <4>4. last' = last
        BY ZenonT(60), <2>0, <2>2
      <4> QED BY ZenonT(60), <4>1, <4>2, <4>3, <4>4
    <3>3. /\ Device!Serve(r, Device!Failed("EFAULT")) /\ CallsClear'
          /\ UNCHANGED <<fault, AbsFifo, written, last>>
      BY <1>0, <3>1, <3>2, Fails
    <3> QED BY <3>3 DEF Simulates, Device!Next, Device!FailRead
  <2>3. CASE k # 0
    <3>1. UNCHANGED <<fault, kin, written, poll>>
      BY <1>5 DEF ReadCopy
    <3>2. /\ Device!Serve(r, Device!Bytes(k)) /\ CallsClear'
          /\ Resetting' = Resetting
      BY ZenonT(60), <1>0, <2>0, <2>1, <2>3, <3>1, Copies
    <3>3. k \in 1..kfifo_len
      BY SMTT(60), <2>1, <2>3
    <3>4. /\ AbsFifo' = SubSeq(AbsFifo, k + 1, Len(AbsFifo))
          /\ AbsFifo[k] = ByteAt(kout + k) /\ k \in 1..Len(AbsFifo)
      BY ZenonT(60), <2>0, <2>1, <3>1, <3>2, <3>3, FifoRead
    <3>5. last' = AbsFifo[k]
      BY <2>0, <2>1, <2>3, <3>4
    <3>6. Device!ReadBytes(r)
      BY ZenonT(60), <3>1, <3>2, <3>4, <3>5 DEF Device!ReadBytes
    <3> QED BY <3>2, <3>6 DEF Simulates, Device!Next
  <2> QED BY ZenonT(60), <2>2, <2>3
<1>6. CASE ReadWake(r)
  BY <1>0, <1>6, Wakes DEF ReadWake, Simulates
<1>7. CASE WaitPrepare(r)
  <2>1. \A u \in (Readers \cup Writers) \ {r} : me'[u] = me[u]
    BY <1>7 DEF WaitPrepare, TypeOK, LocalsOK, MeOK
  <2>2. InCallOf(pc[r]) /\ InCallOf("compare")
    BY ZenonT(60), <1>7 DEF WaitPrepare, InCallOf, Served
  <2> QED BY <1>0, <1>7, <2>1, <2>2, Moves DEF WaitPrepare, Simulates
<1>8. CASE ReadCompare(r) \/ ReadType(r)
  <2>1. \A u \in (Readers \cup Writers) \ {r} : me'[u] = me[u]
    BY <1>8 DEF ReadCompare, ReadType, WaitOver, TypeOK, LocalsOK, MeOK
  <2>2. PICK label \in {"type", "apply", "schedule"} : Goto(r, label)
    BY <1>8 DEF ReadCompare, ReadType, WaitOver
  <2>3. InCallOf(pc[r]) /\ InCallOf(label)
    BY <1>8, <2>2 DEF ReadCompare, ReadType, InCallOf, Served
  <2>4. UNCHANGED <<err, poll>> /\ Untouched
    BY ZenonT(60), <1>8 DEF ReadCompare, ReadType
  <2> QED BY ZenonT(60), <1>0, <2>1, <2>2, <2>3, <2>4, Moves DEF Simulates
<1>9. CASE WaitSchedule(r)
  <2>1. InCallOf(pc[r]) /\ InCallOf("prepare")
    BY <1>9 DEF WaitSchedule, InCallOf, Served
  <2> QED BY ZenonT(60), <1>0, <1>9, <2>1, Moves DEF WaitSchedule, Simulates
<1>10. CASE Leave(r)
  BY <1>0, <1>10, Leaves DEF Simulates, Device!Next, Device!Threads, Threads
<1> QED BY ZenonT(60), <1>1, <1>2, <1>3, <1>4, <1>5, <1>6, <1>7, <1>8, <1>9, <1>10 DEF ReaderStep

\* The calls of vdevlab_write.
LEMMA WriterSimulates ==
  ASSUME TypeOK, LocksHeld, CopiesValid, CallsClear,
         NEW w \in Writers, WriteCall(w) \/ WriterStep(w)
  PROVE  Simulates
<1> USE DEF device, history, Untouched
<1>0. /\ w \in Threads /\ w \notin Controllers /\ w \in Readers \cup Writers
      /\ me[w] \in Local
  BY RolesAssumption DEF Threads, TypeOK, LocalsOK, MeOK
<1>1. CASE WriteCall(w)
  <2>1. \A u \in (Readers \cup Writers) \ {w} : me'[u] = me[u]
    BY <1>1, ZenonT(60) DEF WriteCall, TypeOK, LocalsOK, MeOK
  <2>2. Device!Call(w) /\ CallsClear'
    BY <1>0, <1>1, <2>1, Calls, ZenonT(60) DEF WriteCall, InCallOf, Served
  <2> QED BY ZenonT(60), <1>0, <2>2 DEF Simulates, Device!Next, Device!Threads, Threads
<1>2. CASE WriteConnected(w)
  <2>0. InCallOf(pc[w]) /\ Untouched /\ UNCHANGED poll
    BY <1>2 DEF WriteConnected, InCallOf, Served
  <2>1. CASE is_disconnected
    <3>1. ReturnBytes(w, "ENODEV", 0)
      BY <1>2, <2>1 DEF WriteConnected
    <3>2. /\ Device!Serve(w, Device!Failed("ENODEV")) /\ CallsClear'
          /\ UNCHANGED <<fault, AbsFifo, written, last>>
      BY ZenonT(60), <1>0, <2>0, <3>1, Fails
    <3> QED BY <2>1, <3>2 DEF Simulates, Device!Next, Device!FailWrite, is_disconnected
  <2>2. CASE ~is_disconnected
    <3>1. PICK label \in {"prepare", "compare"} : Goto(w, label)
      BY <1>2, <2>2 DEF WriteConnected
    <3>2. /\ UNCHANGED err
          /\ \A u \in (Readers \cup Writers) \ {w} : me'[u] = me[u]
      BY <1>2, <2>2 DEF WriteConnected, TypeOK, LocalsOK, MeOK
    <3>3. InCallOf(label)
      BY <3>1 DEF InCallOf, Served
    <3> QED BY ZenonT(60), <1>0, <2>0, <3>1, <3>2, <3>3, Moves DEF Simulates
  <2> QED BY <2>1, <2>2
<1>3. CASE WaitPrepare(w)
  <2>1. \A u \in (Readers \cup Writers) \ {w} : me'[u] = me[u]
    BY <1>3 DEF WaitPrepare, TypeOK, LocalsOK, MeOK
  <2>2. InCallOf(pc[w]) /\ InCallOf("compare")
    BY <1>3 DEF WaitPrepare, InCallOf, Served
  <2> QED BY <1>0, <1>3, <2>1, <2>2, Moves DEF WaitPrepare, Simulates
<1>4. CASE WriteCompare(w)
  <2>0. InCallOf(pc[w]) /\ Untouched /\ UNCHANGED poll
    BY <1>4 DEF WriteCompare, InCallOf, Served
  <2>1. CASE SeenFull(w) /\ me[w].nonblock
    <3>1. ReturnBytes(w, "EAGAIN", 0)
      BY ZenonT(60), <1>4, <2>1 DEF WriteCompare
    <3>2. /\ Device!Serve(w, Device!Failed("EAGAIN")) /\ CallsClear'
          /\ UNCHANGED <<fault, AbsFifo, written, last>>
      BY ZenonT(60), <1>0, <2>0, <3>1, Fails
    <3> QED BY <3>2 DEF Simulates, Device!Next, Device!FailWrite
  <2>2. CASE ~(SeenFull(w) /\ me[w].nonblock)
    <3>1. PICK label \in {"type", "lock", "recheck"} : Goto(w, label)
      BY <1>4, <2>2 DEF WriteCompare, WaitOver
    <3>2. /\ UNCHANGED err
          /\ \A u \in (Readers \cup Writers) \ {w} : me'[u] = me[u]
      BY <1>4, <2>2 DEF WriteCompare, WaitOver, TypeOK, LocalsOK, MeOK
    <3>3. InCallOf(label)
      BY <3>1 DEF InCallOf, Served
    <3> QED BY ZenonT(60), <1>0, <2>0, <3>1, <3>2, <3>3, Moves DEF Simulates
  <2> QED BY <2>1, <2>2
<1>5. CASE WriteType(w) \/ WaitSchedule(w) \/ WriteRecheck(w)
  <2>1. \A u \in (Readers \cup Writers) \ {w} : me'[u] = me[u]
    BY <1>5 DEF WriteType, WaitSchedule, WriteRecheck, WaitOver, TypeOK, LocalsOK, MeOK
  <2>2. PICK label \in {"recheck", "schedule", "prepare", "connected", "lock"} : Goto(w, label)
    BY ZenonT(60), <1>5 DEF WriteType, WaitSchedule, WriteRecheck, WaitOver
  <2>3. InCallOf(pc[w]) /\ InCallOf(label)
    BY ZenonT(60), <1>5, <2>2 DEF WriteType, WaitSchedule, WriteRecheck, InCallOf, Served
  <2>4. UNCHANGED <<err, poll>> /\ Untouched
    BY <1>5 DEF WriteType, WaitSchedule, WriteRecheck
  <2> QED BY ZenonT(60), <1>0, <2>1, <2>2, <2>3, <2>4, Moves DEF Simulates
<1>6. CASE WriteLock(w)
  <2>0. InCallOf(pc[w]) /\ Untouched /\ UNCHANGED poll
    BY ZenonT(60), <1>6 DEF WriteLock, InCallOf, Served
  <2>1. CASE ReturnBytes(w, "EAGAIN", 0)
    <3>1. /\ Device!Serve(w, Device!Failed("EAGAIN")) /\ CallsClear'
          /\ UNCHANGED <<fault, AbsFifo, written, last>>
      BY ZenonT(60), <1>0, <2>0, <2>1, Fails
    <3> QED BY <3>1 DEF Simulates, Device!Next, Device!FailWrite
  <2>2. CASE ~ReturnBytes(w, "EAGAIN", 0)
    <3>1. PICK label \in {"copy", "connected"} : Goto(w, label)
      BY <1>6, <2>2 DEF WriteLock
    <3>2. /\ UNCHANGED err
          /\ \A u \in (Readers \cup Writers) \ {w} : me'[u] = me[u]
      BY <1>6, <2>2 DEF WriteLock, TypeOK, LocalsOK, MeOK
    <3>3. InCallOf(label)
      BY <3>1 DEF InCallOf, Served
    <3> QED BY ZenonT(60), <1>0, <2>0, <3>1, <3>2, <3>3, Moves DEF Simulates
  <2> QED BY <2>1, <2>2
<1>7. CASE WriteCopy(w)
  <2>0. PICK k \in 0..me[w].n :
          kin' = kin + k /\ written' = written + k /\ CopyResult(w, k)
    BY ZenonT(60), <1>7 DEF WriteCopy
  <2>1. /\ me[w].n \in 1..kfifo_avail /\ ~Resetting /\ kfifo_avail \in Int
        /\ pc[w] = "copy" /\ k \in Nat
    <3>1. pc[w] = "copy"
      BY ZenonT(60), <1>7 DEF WriteCopy
    <3>2. ~Resetting
      BY ZenonT(60), <1>0, <3>1, CopyAlone
    <3>3. me[w].n \in 1..kfifo_avail
      BY ZenonT(60), <3>1 DEF CopiesValid
    <3>4. kfifo_avail \in Int
      BY BoundsAssumption DEF TypeOK, DeviceOK, kfifo_len, kfifo_avail
    <3>5. k \in Nat
      BY <3>3, <3>4
    <3> QED BY ZenonT(60), <3>1, <3>2, <3>3, <3>4, <3>5
  <2>2. CASE k = 0
    <3>1. ReturnBytes(w, "EFAULT", 0)
      BY SMTT(60), <2>0, <2>1, <2>2 DEF CopyResult
    <3>2. InCallOf(pc[w]) /\ UNCHANGED <<fault, kin, kout, written, last, poll>>
      <4>1. /\ UNCHANGED <<fault, kout, last, poll>>
            /\ pc[w] = "copy" /\ kin' = kin + k /\ written' = written + k
        BY ZenonT(60), <1>7, <2>0 DEF WriteCopy
      <4>2. InCallOf(pc[w])
        BY <4>1 DEF InCallOf, Served
      <4>3. kin' = kin /\ written' = written
        BY <2>2, <4>1 DEF TypeOK, DeviceOK
      <4> QED BY ZenonT(60), <4>1, <4>2, <4>3
    <3>3. /\ Device!Serve(w, Device!Failed("EFAULT")) /\ CallsClear'
          /\ UNCHANGED <<fault, AbsFifo, written, last>>
      BY ZenonT(60), <1>0, <3>1, <3>2, Fails
    <3> QED BY <3>3 DEF Simulates, Device!Next, Device!FailWrite
  <2>3. CASE k # 0
    <3>1. UNCHANGED <<fault, kout, last, poll>>
      BY ZenonT(60), <1>7 DEF WriteCopy
    <3>2. /\ Device!Serve(w, Device!Bytes(k)) /\ CallsClear'
          /\ Resetting' = Resetting
      BY <1>0, <2>0, <2>1, <2>3, <3>1, Copies
    <3>3. k \in 1..kfifo_avail
      BY SMTT(60), <2>1, <2>3
    <3>4. /\ AbsFifo' = AbsFifo \o [i \in 1..k |-> written + i]
          /\ k \in 1..(FifoSize - Len(AbsFifo))
      BY <2>0, <2>1, <3>1, <3>2, <3>3, FifoWrite, ZenonT(60)
    <3>5. Device!WriteBytes(w)
      BY <2>0, <3>1, <3>2, <3>4 DEF Device!WriteBytes
    <3> QED BY <3>2, <3>5 DEF Simulates, Device!Next
  <2> QED BY ZenonT(60), <2>2, <2>3
<1>8. CASE WriteWake(w)
  BY <1>0, <1>8, Wakes, ZenonT(60) DEF WriteWake, Simulates
<1>9. CASE Leave(w)
  BY ZenonT(60), <1>0, <1>9, Leaves DEF Simulates, Device!Next, Device!Threads, Threads
<1> QED BY ZenonT(60), <1>1, <1>2, <1>3, <1>4, <1>5, <1>6, <1>7, <1>8, <1>9 DEF WriterStep

\* poll(2) returns what PollReport found.
LEMMA Reports ==
  ASSUME TypeOK, CallsClear, NEW p \in Pollers, NEW mask, PollReport(p, mask),
         pc[p] \in {"type", "lock"}, Untouched, UNCHANGED me
  PROVE  /\ Device!Serve(p, Device!Events(mask)) /\ CallsClear'
         /\ UNCHANGED <<fault, AbsFifo, written, last>>
<1>1. p \in Threads /\ p \notin Controllers /\ p \notin Readers \cup Writers
  BY RolesAssumption DEF Threads
<1>2. /\ OnlyTouches(p) /\ pc'[p] = "done" /\ err'[p] = "OK"
      /\ poll'[p].mask = mask /\ poll'[p].want = poll[p].want
  BY ZenonT(60), <1>1 DEF TypeOK, PcOK, LocalsOK, PollState, PollReport, Return, OnlyTouches
<1>3. PhaseOf(p) = "called" /\ PhaseOf(p)' = "served"
  BY <1>2 DEF PhaseOf, Served
<1>4. ResultOf(p)' = Device!Events(mask)
  BY SMTT(60), <1>1, <1>2 DEF ResultOf, Device!Events, Device!NoResult
<1>5. UNCHANGED <<fault, AbsFifo, written, last>>
  BY ZenonT(60), <1>1, <1>2, FifoKept DEF Untouched
<1>6. CallsClear'
  BY <1>1, <1>2, ClearKept DEF CallsClear
<1> QED BY ZenonT(60), <1>1, <1>2, <1>3, <1>4, <1>5, <1>6, Serves

\* The calls of poll(2).
LEMMA PollerSimulates ==
  ASSUME TypeOK, LocksHeld, CopiesValid, CallsClear,
         NEW p \in Pollers, PollCall(p) \/ PollTimeout(p) \/ PollerStep(p)
  PROVE  Simulates
<1> USE DEF device, history, Untouched
<1>0. p \in Threads /\ p \notin Controllers /\ p \notin Readers \cup Writers
  BY RolesAssumption DEF Threads
<1>1. CASE PollCall(p)
  <2>1. /\ OnlyTouches(p) /\ pc[p] = "idle" /\ pc'[p] = "type" /\ err'[p] = err[p]
        /\ poll'[p].mask = poll[p].mask /\ poll'[p].want \in {{"IN"}, {"OUT"}}
    <3>1. PICK want \in {{"IN"}, {"OUT"}} : poll' = [poll EXCEPT ![p].want = want]
      BY ZenonT(60), <1>1 DEF PollCall
    <3>2. pc[p] = "idle" /\ pc' = [pc EXCEPT ![p] = "type"] /\ UNCHANGED <<me, err>>
      BY ZenonT(60), <1>1 DEF PollCall, Goto
    <3>3. OnlyTouches(p)
      BY <3>1, <3>2 DEF OnlyTouches, TypeOK, PcOK, LocalsOK
    <3>4. pc'[p] = "type" /\ err'[p] = err[p]
      BY <1>0, <3>2 DEF TypeOK, PcOK
    <3>5. poll'[p].mask = poll[p].mask /\ poll'[p].want = want
      BY <3>1 DEF TypeOK, LocalsOK, PollState
    <3> QED BY <3>2, <3>3, <3>4, <3>5
  <2>2. CallsClear'
    BY <1>0, <2>1, ClearKept DEF CallsClear
  <2>3. UNCHANGED <<fault, AbsFifo, written, last>>
    BY ZenonT(60), <1>0, <1>1, <2>1, FifoKept DEF PollCall
  <2>4. PhaseOf(p) = "idle" /\ PhaseOf(p)' = "called" /\ ResultOf(p)' = ResultOf(p)
    BY ZenonT(60), <1>0, <2>1 DEF PhaseOf, ResultOf, Served
  <2>5. /\ AbsPhase' = [AbsPhase EXCEPT ![p] = "called"]
        /\ AbsResult' = [AbsResult EXCEPT ![p] = ResultOf(p)]
    BY ZenonT(60), <1>0, <2>1, <2>4, MappedLocally
  <2>6. AbsResult = [u \in Threads |-> ResultOf(u)] /\ AbsPhase[p] = "idle"
    BY <1>0, <2>4, ZenonT(60) DEF AbsResult, AbsPhase, ResultOf, PhaseOf
  <2>7. AbsResult' = AbsResult
    BY <2>5, <2>6
  <2>8. Device!Call(p)
    BY <2>3, <2>5, <2>6, <2>7 DEF Device!Call
  <2> QED BY ZenonT(60), <1>0, <2>2, <2>8 DEF Simulates, Device!Next, Device!Threads, Threads
<1>2. CASE \/ PollTimeout(p) \/ PollSchedule(p)
           \/ PollType(p) /\ Goto(p, "lock") /\ UNCHANGED <<poll, err>>
           \/ PollLock(p) /\ Goto(p, "schedule") /\ UNCHANGED <<poll, err>>
  <2>1. /\ OnlyTouches(p) /\ pc[p] \in PollQueued /\ pc'[p] \in PollQueued
        /\ err'[p] = err[p] /\ poll'[p].mask = poll[p].mask /\ poll'[p].want = poll[p].want
    <3>1. /\ pc[p] \in {"type", "lock", "schedule"} /\ UNCHANGED <<me, err>>
          /\ \E label \in {"type", "lock", "schedule"} : pc' = [pc EXCEPT ![p] = label]
      BY <1>2 DEF PollTimeout, PollSchedule, PollType, PollLock, Goto
    <3>2. UNCHANGED poll \/ poll' = [poll EXCEPT ![p].expired = TRUE]
      BY ZenonT(60), <1>2 DEF PollTimeout, PollSchedule, PollType, PollLock
    <3>3. OnlyTouches(p)
      BY <3>1, <3>2 DEF OnlyTouches, TypeOK, PcOK, LocalsOK
    <3>4. pc[p] \in PollQueued /\ pc'[p] \in PollQueued /\ err'[p] = err[p]
      BY <1>0, <3>1 DEF TypeOK, PcOK, PollQueued
    <3>5. poll'[p].mask = poll[p].mask /\ poll'[p].want = poll[p].want
      BY <3>2 DEF TypeOK, LocalsOK, PollState
    <3> QED BY <3>3, <3>4, <3>5, ZenonT(60)
  <2>2. CallsClear'
    BY <1>0, <2>1, ClearKept DEF CallsClear, PollQueued
  <2>3. UNCHANGED <<fault, kin, kout, written, last>>
    BY ZenonT(60), <1>2 DEF PollTimeout, PollSchedule, PollType, PollLock
  <2>4. UNCHANGED <<fault, AbsFifo, written, last>>
    BY ZenonT(60), <1>0, <2>1, <2>3, FifoKept
  <2>5. PhaseOf(p)' = PhaseOf(p) /\ ResultOf(p)' = ResultOf(p)
    BY <1>0, <2>1 DEF PhaseOf, ResultOf, Served, PollQueued
  <2> QED BY ZenonT(60), <1>0, <2>1, <2>2, <2>4, <2>5, Stutters DEF Simulates
<1>3. CASE PollType(p) /\ fault.type \in {"DISCONNECT", "EIO"}
  <2>1. PICK mask \in {{"ERR", "HUP"}, {"ERR"}} :
          /\ PollReport(p, mask)
          /\ mask = IF fault.type = "EIO" THEN {"ERR"} ELSE {"ERR", "HUP"}
    BY <1>3 DEF PollType, fault_interrupts_read
  <2>2. pc[p] \in {"type", "lock"} /\ Untouched /\ UNCHANGED me
    BY <1>3 DEF PollType
  <2>3. /\ Device!Serve(p, Device!Events(mask)) /\ CallsClear'
        /\ UNCHANGED <<fault, AbsFifo, written, last>>
    BY ZenonT(60), <2>1, <2>2, Reports
  <2> QED BY <1>3, <2>1, <2>3 DEF Simulates, Device!Next, Device!Poll
<1>4. CASE PollLock(p) /\ PollReport(p, Ready \cap poll[p].want)
  <2>1. pc[p] \in {"type", "lock"} /\ Untouched /\ UNCHANGED me
    BY ZenonT(60), <1>4 DEF PollLock
  <2>2. /\ Device!Serve(p, Device!Events(Ready \cap poll[p].want)) /\ CallsClear'
        /\ UNCHANGED <<fault, AbsFifo, written, last>>
    BY ZenonT(60), <1>4, <2>1, Reports
  <2>3. ~Resetting
    BY ZenonT(60), <1>4, LockFree DEF PollLock
  <2>4. /\ kfifo_len \in Nat /\ Len(AbsFifo) = kfifo_len
        /\ AbsFifo # <<>> <=> kfifo_len # 0
    <3>1. kfifo_len \in Nat
      BY <2>3, SMTT(60), BoundsAssumption DEF CopiesValid, FifoBounded, TypeOK, DeviceOK, kfifo_len
    <3>2. Len(AbsFifo) = kfifo_len
      BY <2>3, ZenonT(60), FifoMapped
    <3>3. AbsFifo # <<>> <=> kfifo_len # 0
      <4>1. CASE kfifo_len = 0
        BY <4>1, ZenonT(60), FifoEmpty
      <4>2. CASE kfifo_len # 0
        <5>1. AbsFifo = <<>> => Len(AbsFifo) = 0
          OBVIOUS
        <5> QED BY <3>2, <4>2, <5>1, ZenonT(60)
      <4> QED BY <4>1, <4>2, ZenonT(60)
    <3> QED BY ZenonT(60), <3>1, <3>2, <3>3
  <2>5. poll[p].want \in {{"IN"}, {"OUT"}}
    BY <2>1 DEF CallsClear
  <2>6. kfifo_avail > 0 <=> Len(AbsFifo) < FifoSize
    BY <2>4, BoundsAssumption DEF kfifo_avail
  <2>7. Ready \cap poll[p].want
          = {e \in poll[p].want : IF e = "IN" THEN AbsFifo # <<>> ELSE Len(AbsFifo) < FifoSize}
    BY <2>4, <2>5, <2>6, Zenon DEF Ready
  <2>8. Device!Poll(p)
    BY <2>2, <2>5, <2>7, ZenonT(60) DEF Device!Poll
  <2> QED BY ZenonT(60), <2>2, <2>8 DEF Simulates, Device!Next
<1>5. CASE Leave(p)
  BY <1>0, <1>5, Leaves DEF Simulates, Device!Next, Device!Threads, Threads
<1>6. PollType(p) => \/ fault.type \in {"DISCONNECT", "EIO"}
                     \/ Goto(p, "lock") /\ UNCHANGED <<poll, err>>
  BY DEF PollType
<1>7. PollLock(p) => \/ PollReport(p, Ready \cap poll[p].want)
                     \/ Goto(p, "schedule") /\ UNCHANGED <<poll, err>>
  BY DEF PollLock
<1> QED BY ZenonT(60), <1>1, <1>2, <1>3, <1>4, <1>5, <1>6, <1>7 DEF PollerStep

\* A signal ends a call with EINTR.
LEMMA InterruptSimulates ==
  ASSUME TypeOK, CallsClear, NEW t \in Threads, Interrupt(t)
  PROVE  Simulates
<1> USE DEF device, history
<1>1. CASE t \in Readers \cup Writers
  <2>1. ReturnBytes(t, "EINTR", 0) /\ UNCHANGED <<fault, kin, kout, written, last, poll>>
    BY <1>1, RolesAssumption DEF Interrupt
  <2>2. InCallOf(pc[t])
    BY DEF Interrupt, InCallOf, Served
  <2>3. /\ Device!Serve(t, Device!Failed("EINTR")) /\ CallsClear'
        /\ UNCHANGED <<fault, AbsFifo, written, last>>
    BY <1>1, <2>1, <2>2, Fails
  <2> QED BY ZenonT(60), <1>1, <2>3 DEF Simulates, Device!Next, Device!FailRead, Device!FailWrite
<1>2. CASE t \in Pollers
  <2>1. /\ pc[t] = "schedule" /\ Return(t, "EINTR")
        /\ UNCHANGED <<fault, kin, kout, written, last, poll, me>>
    BY <1>2, RolesAssumption DEF Interrupt, TypeOK, PcOK, PollerPc
  <2>2. t \notin Controllers /\ t \notin Readers \cup Writers
    BY ZenonT(60), <1>2, RolesAssumption
  <2>3. OnlyTouches(t) /\ pc'[t] = "done" /\ err'[t] = "EINTR" /\ poll'[t] = poll[t]
    BY ZenonT(60), <2>1 DEF Return, OnlyTouches, TypeOK, PcOK, LocalsOK
  <2>4. CallsClear'
    BY ZenonT(60), <1>2, <2>1, <2>3, ClearKept DEF CallsClear
  <2>5. UNCHANGED <<fault, AbsFifo, written, last>>
    BY ZenonT(60), <2>1, <2>2, <2>3, FifoKept
  <2>6. PhaseOf(t) = "called" /\ PhaseOf(t)' = "served"
    BY <2>1, <2>3 DEF PhaseOf, Served
  <2>7. ResultOf(t)' = Device!Failed("EINTR")
    <3>1. poll'[t].mask = {}
      BY ZenonT(60), <1>2, <2>1, <2>3 DEF CallsClear
    <3> QED BY SMTT(60), <1>2, <2>2, <2>3, <3>1 DEF ResultOf, Device!Failed, Device!NoResult
  <2>8. Device!Serve(t, Device!Failed("EINTR"))
    BY ZenonT(60), <2>2, <2>3, <2>6, <2>7, Serves
  <2> QED BY ZenonT(60), <1>2, <2>4, <2>5, <2>8 DEF Simulates, Device!Next, Device!Poll
<1>3. t \notin Controllers
  BY RolesAssumption DEF Interrupt, TypeOK, PcOK, ControllerPc
<1> QED BY ZenonT(60), <1>1, <1>2, <1>3 DEF Threads

\* An ioctl touches its own place and result only.
LEMMA IoctlTouches ==
  ASSUME TypeOK, NEW c \in Controllers, NEW label, pc' = [pc EXCEPT ![c] = label],
         err' = err \/ \E code : err' = [err EXCEPT ![c] = code], UNCHANGED <<me, poll>>
  PROVE  /\ c \in Threads /\ c \notin Pollers /\ c \notin Readers \cup Writers
         /\ OnlyTouches(c) /\ pc'[c] = label
         /\ ResultOf(c)' = Device!Failed(err'[c]) /\ ResultOf(c) = Device!Failed(err[c])
<1>1. c \in Threads /\ c \notin Pollers /\ c \notin Readers \cup Writers
  BY ZenonT(60), RolesAssumption DEF Threads
<1>2. OnlyTouches(c) /\ pc'[c] = label
  BY <1>1 DEF OnlyTouches, TypeOK, PcOK, LocalsOK
<1> QED BY <1>1, <1>2 DEF ResultOf, Device!Failed, Device!NoResult

\* The calls of vdevlab_ioctl.
LEMMA ControllerSimulates ==
  ASSUME TypeOK, LocksHeld, CopiesValid, CallsClear, NEW c \in Controllers,
         \/ SetFault(c) \/ ReadOnlyIoctl(c) \/ ClearFault(c) \/ ResetLock(c)
         \/ ControllerStep(c)
  PROVE  Simulates
<1> USE DEF device, history
<1>0. c \in Threads /\ (pc[c] # "done" => err[c] = "OK") /\ c \notin Pollers
  BY ZenonT(60), RolesAssumption DEF Threads, CallsClear
<1>1. ASSUME NEW code \in {"OK", "EINVAL", "EFAULT", "ENOTTY"}, pc[c] = "idle",
             Return(c, code), UNCHANGED <<fault, kin, kout, written, last, me, poll>>
      PROVE  Simulates
  <2>1. /\ OnlyTouches(c) /\ pc'[c] = "done" /\ ResultOf(c)' = Device!Failed(err'[c])
        /\ err'[c] = code
    BY ZenonT(60), <1>1, IoctlTouches DEF Return, TypeOK, LocalsOK, Threads
  <2>2. PhaseOf(c) = "idle" /\ PhaseOf(c)' = "served"
    BY <1>1, <2>1 DEF PhaseOf, Served
  <2>3. Device!Serve(c, Device!Failed(code))
    BY ZenonT(60), <1>0, <2>1, <2>2, Serves
  <2>4. UNCHANGED <<fault, AbsFifo, written, last>>
    BY ZenonT(60), <1>0, <1>1, <2>1, FifoKept
  <2>5. CallsClear'
    BY <1>0, <2>1, ClearKept, ZenonT(60)
  <2> QED BY ZenonT(60), <1>1, <2>3, <2>4, <2>5 DEF Simulates, Device!Next, Device!FailIoctl
<1>2. ASSUME pc[c] = "idle", Goto(c, "wakeread"),
             fault' \in {Normalised(f) : f \in {g \in RawConfigs : Valid(g)}} \cup {NoFault},
             UNCHANGED <<kin, kout, written, last, me, err, poll>>
      PROVE  Simulates
  <2>1. /\ OnlyTouches(c) /\ pc'[c] = "wakeread" /\ ResultOf(c)' = Device!NoResult
        /\ err'[c] = "OK"
    BY ZenonT(60), <1>0, <1>2, IoctlTouches DEF Goto, Device!Failed, Device!NoResult
  <2>2. PhaseOf(c) = "idle" /\ PhaseOf(c)' = "served"
    BY <1>2, <2>1, ZenonT(60) DEF PhaseOf, Served
  <2>3. Device!Serve(c, Device!NoResult)
    BY <1>0, <2>1, <2>2, Serves, ZenonT(60)
  <2>4. UNCHANGED <<AbsFifo, written, last>>
    BY ZenonT(60), <1>0, <1>2, <2>1, FifoKept
  <2>5. CallsClear'
    BY ZenonT(60), <1>0, <2>1, ClearKept
  <2> QED BY <1>2, <2>3, <2>4, <2>5 DEF Simulates, Device!Next, Device!SetFault
<1>3. CASE SetFault(c)
  <2>1. PICK config \in RawConfigs :
          IF Valid(config)
          THEN fault' = Normalised(config) /\ Goto(c, "wakeread") /\ UNCHANGED err
          ELSE Return(c, "EINVAL") /\ UNCHANGED fault
    BY <1>3 DEF SetFault
  <2> QED BY ZenonT(60), <1>1, <1>2, <1>3, <2>1 DEF SetFault
<1>4. CASE ReadOnlyIoctl(c)
  BY ZenonT(60), <1>1, <1>4 DEF ReadOnlyIoctl
<1>5. CASE ClearFault(c)
  BY ZenonT(60), <1>2, <1>5 DEF ClearFault
<1>6. CASE ResetLock(c)
  <2>1. /\ OnlyTouches(c) /\ pc'[c] = "fifolock" /\ pc[c] = "idle" /\ err'[c] = err[c]
        /\ ResultOf(c)' = ResultOf(c)
    BY ZenonT(60), <1>6, IoctlTouches DEF ResetLock, Goto
  <2>2. PhaseOf(c)' = PhaseOf(c)
    BY ZenonT(60), <2>1 DEF PhaseOf, Served
  <2>3. UNCHANGED <<fault, AbsFifo, written, last>>
    BY ZenonT(60), <1>0, <1>6, <2>1, FifoKept DEF ResetLock
  <2>4. CallsClear'
    BY <1>0, <2>1, ClearKept, ZenonT(60)
  <2> QED BY ZenonT(60), <1>0, <2>1, <2>2, <2>3, <2>4, Stutters DEF Simulates
<1>7. CASE ResetFault(c)
  <2>1. /\ OnlyTouches(c) /\ pc'[c] = "reset" /\ pc[c] = "fifolock" /\ err'[c] = "OK"
        /\ ResultOf(c)' = Device!NoResult
    <3>1. /\ pc' = [pc EXCEPT ![c] = "reset"] /\ err' = err /\ UNCHANGED <<me, poll>>
          /\ pc[c] = "fifolock"
      BY <1>7, ZenonT(60) DEF ResetFault, Goto
    <3>2. err[c] = "OK"
      BY <1>0, <3>1
    <3>3. OnlyTouches(c) /\ pc'[c] = "reset" /\ ResultOf(c)' = Device!Failed(err'[c])
      BY <3>1, ZenonT(60), IoctlTouches
    <3> QED BY <3>1, <3>2, <3>3 DEF Device!Failed, Device!NoResult
  <2>2. PhaseOf(c) = "idle" /\ PhaseOf(c)' = "served"
    BY ZenonT(60), <2>1 DEF PhaseOf, Served
  <2>3. Device!Serve(c, Device!NoResult)
    BY <1>0, <2>1, <2>2, Serves
  <2>4. AbsFifo' = <<>>
    BY <2>1 DEF AbsFifo, Resetting
  <2>5. CallsClear'
    BY ZenonT(60), <1>0, <2>1, ClearKept
  <2>6. Device!Reset(c)
    BY ZenonT(60), <1>7, <2>3, <2>4 DEF ResetFault, Device!Reset, NoFault, Device!NoFault
  <2> QED BY <2>5, <2>6 DEF Simulates, Device!Next
<1>8. CASE ResetIndex(c) \/ ResetDone(c)
  <2>1. PICK label \in {"reset2", "wakeread"} :
          /\ pc' = [pc EXCEPT ![c] = label]
          /\ (label = "wakeread" => kin' = 0 /\ kout' = 0)
    BY ZenonT(60), <1>8 DEF ResetIndex, ResetDone, Goto
  <2>2. /\ OnlyTouches(c) /\ pc'[c] = label /\ pc[c] \in {"reset", "reset2"}
        /\ err'[c] = err[c] /\ ResultOf(c)' = ResultOf(c)
    BY ZenonT(60), <1>8, <2>1, IoctlTouches DEF ResetIndex, ResetDone
  <2>3. PhaseOf(c)' = PhaseOf(c)
    BY <2>2, ZenonT(60) DEF PhaseOf, Served
  <2>4. AbsFifo = <<>>
    BY <2>2 DEF AbsFifo, Resetting
  <2>5. AbsFifo' = <<>>
    <3>1. CASE label = "reset2"
      BY <2>2, <3>1, ZenonT(60) DEF AbsFifo, Resetting
    <3>2. CASE label = "wakeread"
      <4>1. kfifo_len' = 0
        BY SMTT(60), <2>1, <3>2 DEF kfifo_len
      <4>2. [i \in 1..0 |-> ByteAt(kout + i)'] = <<>>
        BY SMTT(60)
      <4> QED BY <4>1, <4>2 DEF AbsFifo
    <3> QED BY ZenonT(60), <3>1, <3>2
  <2>6. UNCHANGED <<fault, AbsFifo, written, last>>
    BY ZenonT(60), <1>8, <2>4, <2>5 DEF ResetIndex, ResetDone
  <2>7. CallsClear'
    BY <1>0, <2>2, ClearKept
  <2> QED BY ZenonT(60), <1>0, <2>2, <2>3, <2>6, <2>7, Stutters DEF Simulates
<1>9. CASE IoctlWakeRead(c) \/ IoctlWakeWrite(c)
  <2>1. PICK label \in {"wakewrite", "done"} : pc' = [pc EXCEPT ![c] = label]
    BY ZenonT(60), <1>9 DEF IoctlWakeRead, IoctlWakeWrite, Goto, Return
  <2>2. /\ OnlyTouches(c) /\ pc'[c] = label /\ pc[c] \in {"wakeread", "wakewrite"}
        /\ err'[c] = "OK" /\ ResultOf(c)' = ResultOf(c)
    BY ZenonT(60), <1>0, <1>9, <2>1, IoctlTouches
    DEF IoctlWakeRead, IoctlWakeWrite, Return, TypeOK, LocalsOK
  <2>3. PhaseOf(c)' = PhaseOf(c)
    BY <2>2 DEF PhaseOf, Served
  <2>4. UNCHANGED <<fault, AbsFifo, written, last>>
    BY ZenonT(60), <1>0, <1>9, <2>2, FifoKept DEF IoctlWakeRead, IoctlWakeWrite
  <2>5. CallsClear'
    BY ZenonT(60), <1>0, <2>2, ClearKept
  <2> QED BY ZenonT(60), <1>0, <2>2, <2>3, <2>4, <2>5, Stutters DEF Simulates
<1>10. CASE Leave(c)
  BY <1>0, <1>10, Leaves, ZenonT(60) DEF Simulates, Device!Next, Device!Threads, Threads
<1> QED BY ZenonT(60), <1>3, <1>4, <1>5, <1>6, <1>7, <1>8, <1>9, <1>10 DEF ControllerStep

-----------------------------------------------------------------------------
\* The state vdevlab_init leaves is an initial state of the atomic device.
LEMMA MappedInit == Init => Device!Init /\ CallsClear
<1> SUFFICES ASSUME Init PROVE Device!Init /\ CallsClear
  OBVIOUS
<1>1. AbsFifo = <<>>
  BY DEF Init, AbsFifo, kfifo_len
<1>2. AbsPhase = [t \in Threads |-> "idle"]
  BY ZenonT(60) DEF Init, AbsPhase, Served
<1>3. AbsResult = [t \in Threads |-> Device!NoResult]
  BY ZenonT(60) DEF Init, AbsResult, Device!NoResult, NoPoll, NoCall, Served
<1>4. CallsClear
  BY DEF Init, CallsClear, NoPoll, Threads
<1> QED BY <1>1, <1>2, <1>3, <1>4
        DEF Init, Device!Init, Device!NoFault, NoFault, Device!Threads, Threads

\* The device of vdevlab_core.c is linearizable: with its locks, wait queues
\* and lockless loads it does what VDevSpec does in one step per call.
THEOREM DeviceAtomic == Spec => Linearizable
<1>1. TypeOK /\ FaultWellFormed /\ LocksHeld /\ CopiesValid /\ CallsClear /\ [Next]_vars
        => [Device!Next]_(Device!vars) /\ CallsClear'
  <2> SUFFICES ASSUME TypeOK, FaultWellFormed, LocksHeld, CopiesValid, CallsClear,
                      [Next]_vars
               PROVE  Simulates
    BY ZenonT(60) DEF Simulates
  <2>1. CASE Next
    BY ZenonT(60), <2>1, ReaderSimulates, WriterSimulates, PollerSimulates, ControllerSimulates,
       InterruptSimulates DEF Next
  <2>2. CASE UNCHANGED vars
    BY <2>2, ZenonT(60)
    DEF vars, Simulates, CallsClear, Device!vars, AbsFifo, AbsPhase, AbsResult,
        Resetting, kfifo_len, ByteAt
  <2> QED BY <2>1, <2>2
<1> QED BY <1>1, MappedInit, TypeCorrect, FaultRecordValid, LocksCorrect, CopiesCorrect, PTL
        DEF Spec, Linearizable, Device!Spec
=============================================================================

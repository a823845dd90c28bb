------------------------------ MODULE VDevCore ------------------------------
(***************************************************************************)
(* The character device of src/kernel/vdevlab_core.c at the granularity of *)
(* its threads: every system call is a sequence of steps, split wherever   *)
(* another thread can see or change shared state.                          *)
(*                                                                         *)
(* Shared state: the fault record and its mutex, the kfifo and its mutex,  *)
(* the two wait queues.  A critical section under fault_lock is one step,  *)
(* except the one of RESET, which takes fifo_lock inside it.  The section  *)
(* under fifo_lock of a read or a write is two steps, because the copy to  *)
(* or from user space can sleep.  Predicates that the code evaluates       *)
(* without a lock load the two kfifo indices one at a time.                *)
(***************************************************************************)
EXTENDS Integers

CONSTANTS
  Readers, Writers, Pollers, Controllers,  \* threads, by the calls they make
  NoThread,            \* holder of a free mutex
  FifoSize,            \* VDEVLAB_FIFO_SIZE
  MaxFaultRepeat,      \* VDEVLAB_MAX_FAULT_REPEAT
  MaxDelayMs,          \* VDEVLAB_MAX_DELAY_MS
  MaxPartialRead,      \* VDEVLAB_MAX_PARTIAL_READ
  RawConfigs,          \* fault records user space passes to SET_FAULT
  Modes,               \* values of O_NONBLOCK among the open files
  MaxCount,            \* bound: the largest count of a read or a write
  MaxBytes             \* bound: no write starts once so many bytes entered

Threads == Readers \cup Writers \cup Pollers \cup Controllers

FaultTypes == {"NONE", "EIO", "DELAY", "DISCONNECT", "PARTIAL_READ"}

FaultConfig ==
  [type : FaultTypes, repeat : Nat, delay_ms : Nat, partial_read_bytes : Nat]

ASSUME RolesAssumption ==
  /\ NoThread \notin Threads
  /\ Readers \cap (Writers \cup Pollers \cup Controllers) = {}
  /\ Writers \cap (Pollers \cup Controllers) = {}
  /\ Pollers \cap Controllers = {}

ASSUME BoundsAssumption ==
  /\ FifoSize \in Nat \ {0}
  /\ MaxFaultRepeat \in Nat /\ MaxDelayMs \in Nat /\ MaxPartialRead \in Nat
  /\ MaxCount \in Nat /\ MaxBytes \in Nat
  /\ Modes \subseteq BOOLEAN

ASSUME ConfigsAssumption ==
  RawConfigs \subseteq [type : FaultTypes \cup {"UNKNOWN"}, repeat : Nat,
                        delay_ms : Nat, partial_read_bytes : Nat]

VARIABLES
  fault,       \* vdevlab_fault
  faultLock,   \* holder of vdevlab_fault_lock across steps
  fifoLock,    \* holder of vdevlab_fifo_lock across steps
  kin, kout,   \* the kfifo's free-running indices
  pc,          \* where each thread is
  task,        \* the scheduler state of each thread on a wait queue
  me,          \* the locals of each read and write
  err,         \* what the last call of each thread returned
  poll,        \* the poll(2) call of each poller
  written,     \* history: how many bytes ever entered the FIFO
  last,        \* history: the number of the last byte a read returned
  eio          \* history: EIO results configured and returned

device == <<fault, faultLock, fifoLock, kin, kout>>
history == <<written, last, eio>>
vars == <<fault, faultLock, fifoLock, kin, kout,
          pc, task, me, err, poll, written, last, eio>>

-----------------------------------------------------------------------------
(* The fault record.                                                       *)

NoFault == [type |-> "NONE", repeat |-> 0, delay_ms |-> 0,
            partial_read_bytes |-> 0]

\* Deviation of Valid: an unknown type is not rejected.
ValidAnyType(config) == config.type # "EIO" \/ config.repeat \in 1..MaxFaultRepeat

\* What SET_FAULT accepts; everything else is -EINVAL.
Valid(config) ==
  \/ config.type \in {"NONE", "DISCONNECT"}
  \/ config.type = "EIO" /\ config.repeat \in 1..MaxFaultRepeat
  \/ config.type = "DELAY" /\ config.delay_ms \in 1..MaxDelayMs
  \/ /\ config.type = "PARTIAL_READ"
     /\ config.partial_read_bytes \in 1..MaxPartialRead

\* Fields that do not belong to the type are zeroed before the assignment.
Normalised(config) ==
  [type               |-> config.type,
   repeat             |-> IF config.type = "EIO" THEN config.repeat ELSE 0,
   delay_ms           |-> IF config.type = "DELAY" THEN config.delay_ms ELSE 0,
   partial_read_bytes |-> IF config.type = "PARTIAL_READ"
                          THEN config.partial_read_bytes ELSE 0]

fault_interrupts_read == fault.type \in {"EIO", "DISCONNECT"}

is_disconnected == fault.type = "DISCONNECT"

-----------------------------------------------------------------------------
(* The kfifo.  Under fifo_lock the indices are stable.                     *)

kfifo_len == kin - kout
kfifo_avail == FifoSize - kfifo_len

\* The number of the byte at index i (bytes are numbered as they enter).
ByteAt(i) == written - kin + i

\* A lockless predicate loads one index first, in an order the compiler
\* chooses, and the other at the comparison.
FirstLoad == {[word |-> "in", val |-> kin], [word |-> "out", val |-> kout]}

SeenLen(t) == LET s == me[t].seen
              IN  IF s.word = "in" THEN s.val - kout ELSE kin - s.val

SeenEmpty(t) == SeenLen(t) = 0

\* kfifo_len is unsigned: a negative difference wraps to a huge length.
SeenFull(t) == SeenLen(t) >= FifoSize \/ SeenLen(t) < 0

-----------------------------------------------------------------------------
(* Wait queues.  A waiter marks itself "interruptible" before it tests its *)
(* predicate; a wake-up marks it "running", and "schedule" returns once it *)
(* is running.  poll(2) keeps its entries on both queues for the call.     *)

Waiting == {"compare", "type", "schedule"}

PollQueued == {"type", "lock", "schedule"}

OnReadq == {r \in Readers : pc[r] \in Waiting}
             \cup {p \in Pollers : pc[p] \in PollQueued}
OnWriteq == {w \in Writers : pc[w] \in Waiting}
              \cup {p \in Pollers : pc[p] \in PollQueued}

WakeUp(queue) ==
  task' = [t \in Threads |-> IF t \in queue THEN "running" ELSE task[t]]

-----------------------------------------------------------------------------
(* Threads.                                                                *)

NoLoad == [word |-> "in", val |-> 0]
NoCall == [count |-> 0, nonblock |-> FALSE, delayed |-> FALSE, partial |-> 0,
           seen |-> NoLoad, from |-> 0, n |-> 0]
NoPoll == [want |-> {}, expired |-> FALSE, mask |-> {}]

Goto(t, label) == pc' = [pc EXCEPT ![t] = label]

Return(t, code) ==
  /\ pc' = [pc EXCEPT ![t] = "done"]
  /\ err' = [err EXCEPT ![t] = code]

\* A read or a write returns k bytes or an error; its locals are gone.
ReturnBytes(t, code, k) ==
  /\ Return(t, code)
  /\ me' = [me EXCEPT ![t] = [NoCall EXCEPT !.n = k]]

Init ==
  /\ fault = NoFault
  /\ faultLock = NoThread /\ fifoLock = NoThread
  /\ kin = 0 /\ kout = 0
  /\ pc = [t \in Threads |-> "idle"]
  /\ task = [t \in Threads |-> "running"]
  /\ me = [t \in Readers \cup Writers |-> NoCall]
  /\ err = [t \in Threads |-> "OK"]
  /\ poll = [p \in Pollers |-> NoPoll]
  /\ written = 0 /\ last = 0
  /\ eio = [set |-> 0, given |-> 0]

\* The caller takes the result and may make the next call.
Leave(t) ==
  /\ pc[t] = "done"
  /\ Goto(t, "idle")
  /\ err' = [err EXCEPT ![t] = "OK"]
  /\ me' = IF t \in Readers \cup Writers
           THEN [me EXCEPT ![t] = NoCall] ELSE me
  /\ poll' = IF t \in Pollers THEN [poll EXCEPT ![t] = NoPoll] ELSE poll
  /\ UNCHANGED <<device, history, task>>

-----------------------------------------------------------------------------
(* vdevlab_read.                                                           *)

min(a, b) == IF a <= b THEN a ELSE b

\* Deviation of ToCopy: a read that adopted no limit is cut to zero bytes.
ToCopyUntested(r) == min(min(me[r].count, kfifo_len), me[r].partial)

\* How much a read copies: a partial-read limit it adopted caps the rest.
ToCopy(r) == LET len == min(me[r].count, kfifo_len)
             IN  IF me[r].partial = 0 THEN len ELSE min(len, me[r].partial)

\* A count of zero returns zero at once and touches nothing.
ReadCall(r) ==
  /\ pc[r] = "idle"
  /\ \E c \in 1..MaxCount, nb \in Modes :
       me' = [me EXCEPT ![r].count = c, ![r].nonblock = nb]
  /\ Goto(r, "apply")
  /\ UNCHANGED <<device, history, task, err, poll>>

\* Deviations of Spend: the fault stays once it is used up; it goes one
\* failure early.
SpendKeeps(f) == [f EXCEPT !.repeat = @ - 1]

SpendEarly(f) == IF f.repeat <= 2 THEN NoFault ELSE [f EXCEPT !.repeat = @ - 1]

\* What is left of an EIO fault after one more failure.
Spend(f) == IF f.repeat = 1 THEN NoFault ELSE [f EXCEPT !.repeat = @ - 1]

\* The switch of vdevlab_apply_read_fault, under fault_lock.
ApplyEio(r) ==
  /\ fault.type = "EIO"
  /\ IF fault.repeat = 0
     THEN /\ fault' = NoFault
          /\ Goto(r, "lock")
          /\ UNCHANGED <<me, err, eio>>
     ELSE /\ fault' = Spend(fault)
          /\ eio' = [eio EXCEPT !.given = @ + 1]
          /\ ReturnBytes(r, "EIO", 0)

ApplyDelay(r) ==
  /\ fault.type = "DELAY"
  /\ IF me[r].delayed \/ fault.delay_ms = 0
     THEN Goto(r, "lock")
     ELSE Goto(r, "delay")
  /\ me' = [me EXCEPT ![r].delayed = TRUE]
  /\ UNCHANGED <<fault, err, eio>>

ApplyPartial(r) ==
  /\ fault.type = "PARTIAL_READ"
  /\ me' = [me EXCEPT ![r].partial = fault.partial_read_bytes]
  /\ Goto(r, "lock")
  /\ UNCHANGED <<fault, err, eio>>

\* Deviation of ApplyOther: a disconnected device still serves queued data.
ApplyOtherDrains(r) ==
  /\ \/ /\ fault.type = "NONE" \/ kfifo_len # 0
        /\ Goto(r, "lock")
        /\ UNCHANGED <<me, err>>
     \/ fault.type = "DISCONNECT" /\ ReturnBytes(r, "ENODEV", 0)
  /\ UNCHANGED <<fault, eio>>

ApplyOther(r) ==
  /\ \/ fault.type = "NONE" /\ Goto(r, "lock") /\ UNCHANGED <<me, err>>
     \/ fault.type = "DISCONNECT" /\ ReturnBytes(r, "ENODEV", 0)
  /\ UNCHANGED <<fault, eio>>

ReadApplyFault(r) ==
  /\ pc[r] = "apply"
  /\ faultLock = NoThread
  /\ ApplyEio(r) \/ ApplyDelay(r) \/ ApplyPartial(r) \/ ApplyOther(r)
  /\ UNCHANGED <<faultLock, fifoLock, kin, kout, task, poll, written, last>>

\* msleep_interruptible ran its full time.
ReadDelayOver(r) ==
  /\ pc[r] = "delay"
  /\ Goto(r, "lock")
  /\ UNCHANGED <<device, history, task, me, err, poll>>

\* Deviation of ReadLock: the lock is released before the copy.
ReadLockEarlyRelease(r) ==
  /\ pc[r] = "lock"
  /\ fifoLock = NoThread
  /\ IF kfifo_len # 0
     THEN /\ me' = [me EXCEPT ![r].from = kout, ![r].n = ToCopy(r)]
          /\ Goto(r, "copy")
     ELSE Goto(r, "prepare") /\ UNCHANGED me
  /\ UNCHANGED <<device, history, task, err, poll>>

\* Deviation of ReadLock: an empty FIFO is waited for with the lock held.
ReadLockKept(r) ==
  /\ pc[r] = "lock"
  /\ fifoLock = NoThread
  /\ fifoLock' = r
  /\ IF kfifo_len # 0
     THEN /\ me' = [me EXCEPT ![r].from = kout, ![r].n = ToCopy(r)]
          /\ Goto(r, "copy")
     ELSE Goto(r, "prepare") /\ UNCHANGED me
  /\ UNCHANGED <<fault, faultLock, kin, kout, history, task, err, poll>>

\* Take fifo_lock; an empty FIFO releases it again.
ReadLock(r) ==
  /\ pc[r] = "lock"
  /\ fifoLock = NoThread
  /\ \/ /\ kfifo_len # 0
        /\ fifoLock' = r
        /\ me' = [me EXCEPT ![r].from = kout, ![r].n = ToCopy(r)]
        /\ Goto(r, "copy")
        /\ UNCHANGED err
     \/ /\ kfifo_len = 0
        /\ IF me[r].nonblock THEN ReturnBytes(r, "EAGAIN", 0)
           ELSE Goto(r, "prepare") /\ UNCHANGED <<me, err>>
        /\ UNCHANGED fifoLock
  /\ UNCHANGED <<fault, faultLock, kin, kout, history, task, poll>>

\* Where a call goes after k of its n bytes were copied: a wake-up when any
\* was, else -EFAULT if the copy fell short, else a count of zero.
CopyResult(t, k) ==
  IF k > 0
  THEN /\ Goto(t, "wake")
       /\ me' = [me EXCEPT ![t].n = k]
       /\ UNCHANGED err
  ELSE ReturnBytes(t, IF me[t].n > 0 THEN "EFAULT" ELSE "OK", 0)

\* Deviation of ReadCopy: a copy that falls short does not advance the index.
ReadCopyForgets(r) ==
  /\ pc[r] = "copy"
  /\ \E k \in 0..me[r].n :
       /\ kout' = IF k = me[r].n THEN kout + k ELSE kout
       /\ last' = IF k = 0 THEN last ELSE ByteAt(me[r].from + k)
       /\ CopyResult(r, k)
  /\ fifoLock' = NoThread
  /\ UNCHANGED <<fault, faultLock, kin, task, poll, written, eio>>

\* kfifo_to_user copies k of the n bytes (fewer when user memory faults)
\* and advances the out index by what it copied; then the mutex is released.
ReadCopy(r) ==
  /\ pc[r] = "copy"
  /\ \E k \in 0..me[r].n :
       /\ kout' = kout + k
       /\ last' = IF k = 0 THEN last ELSE ByteAt(me[r].from + k)
       /\ CopyResult(r, k)
  /\ fifoLock' = NoThread
  /\ UNCHANGED <<fault, faultLock, kin, task, poll, written, eio>>

\* Deviation of ReadWake: the read queue is woken instead of the write queue.
ReadWakeWrongQueue(r) ==
  /\ pc[r] = "wake"
  /\ WakeUp(OnReadq)
  /\ ReturnBytes(r, "OK", me[r].n)
  /\ UNCHANGED <<device, history, poll>>

ReadWake(r) ==
  /\ pc[r] = "wake"
  /\ WakeUp(OnWriteq)
  /\ ReturnBytes(r, "OK", me[r].n)
  /\ UNCHANGED <<device, history, poll>>

\* wait_event_interruptible(readq, !empty || fault_interrupts_read).
WaitPrepare(t) ==
  /\ pc[t] = "prepare"
  /\ task' = [task EXCEPT ![t] = "interruptible"]
  /\ \E s \in FirstLoad : me' = [me EXCEPT ![t].seen = s]
  /\ Goto(t, "compare")
  /\ UNCHANGED <<device, history, err, poll>>

\* The predicate holds: leave the queue and continue at label.
WaitOver(t, label) ==
  /\ task' = [task EXCEPT ![t] = "running"]
  /\ me' = [me EXCEPT ![t].seen = NoLoad]
  /\ Goto(t, label)

ReadCompare(r) ==
  /\ pc[r] = "compare"
  /\ IF SeenEmpty(r)
     THEN /\ me' = [me EXCEPT ![r].seen = NoLoad]
          /\ Goto(r, "type")
          /\ UNCHANGED task
     ELSE WaitOver(r, "apply")
  /\ UNCHANGED <<device, history, err, poll>>

ReadType(r) ==
  /\ pc[r] = "type"
  /\ IF fault_interrupts_read
     THEN WaitOver(r, "apply")
     ELSE Goto(r, "schedule") /\ UNCHANGED <<task, me>>
  /\ UNCHANGED <<device, history, err, poll>>

\* schedule() returns once the thread was made running; the loop re-tests.
WaitSchedule(t) ==
  /\ pc[t] = "schedule"
  /\ task[t] = "running"
  /\ Goto(t, "prepare")
  /\ UNCHANGED <<device, history, task, me, err, poll>>

-----------------------------------------------------------------------------
(* vdevlab_write.                                                          *)

WriteCall(w) ==
  /\ pc[w] = "idle"
  /\ written < MaxBytes
  /\ \E c \in 1..MaxCount, nb \in Modes :
       me' = [me EXCEPT ![w].count = c, ![w].nonblock = nb]
  /\ Goto(w, "connected")
  /\ UNCHANGED <<device, history, task, err, poll>>

\* The top of the loop; a non-blocking write tests the FIFO without waiting.
WriteConnected(w) ==
  /\ pc[w] = "connected"
  /\ \/ is_disconnected /\ ReturnBytes(w, "ENODEV", 0)
     \/ /\ ~is_disconnected /\ ~me[w].nonblock
        /\ Goto(w, "prepare")
        /\ UNCHANGED <<me, err>>
     \/ /\ ~is_disconnected /\ me[w].nonblock
        /\ \E s \in FirstLoad : me' = [me EXCEPT ![w].seen = s]
        /\ Goto(w, "compare")
        /\ UNCHANGED err
  /\ UNCHANGED <<device, history, task, poll>>

WriteCompare(w) ==
  /\ pc[w] = "compare"
  /\ \/ /\ SeenFull(w) /\ me[w].nonblock
        /\ ReturnBytes(w, "EAGAIN", 0)
        /\ UNCHANGED task
     \/ /\ SeenFull(w) /\ ~me[w].nonblock
        /\ Goto(w, "type")
        /\ me' = [me EXCEPT ![w].seen = NoLoad]
        /\ UNCHANGED <<task, err>>
     \/ /\ ~SeenFull(w)
        /\ WaitOver(w, IF me[w].nonblock THEN "lock" ELSE "recheck")
        /\ UNCHANGED err
  /\ UNCHANGED <<device, history, poll>>

\* Deviation of WriteType: the wait condition leaves out the disconnect.
WriteTypeDeaf(w) ==
  /\ pc[w] = "type"
  /\ Goto(w, "schedule")
  /\ UNCHANGED <<device, history, task, me, err, poll>>

WriteType(w) ==
  /\ pc[w] = "type"
  /\ IF is_disconnected
     THEN WaitOver(w, "recheck")
     ELSE Goto(w, "schedule") /\ UNCHANGED <<task, me>>
  /\ UNCHANGED <<device, history, err, poll>>

\* After the wait: a disconnected device sends the loop back to its top.
WriteRecheck(w) ==
  /\ pc[w] = "recheck"
  /\ Goto(w, IF is_disconnected THEN "connected" ELSE "lock")
  /\ UNCHANGED <<device, history, task, me, err, poll>>

WriteLock(w) ==
  /\ pc[w] = "lock"
  /\ fifoLock = NoThread
  /\ \/ /\ kfifo_avail > 0
        /\ fifoLock' = w
        /\ me' = [me EXCEPT ![w].n = min(me[w].count, kfifo_avail)]
        /\ Goto(w, "copy")
        /\ UNCHANGED err
     \/ /\ kfifo_avail <= 0
        /\ IF me[w].nonblock THEN ReturnBytes(w, "EAGAIN", 0)
           ELSE Goto(w, "connected") /\ UNCHANGED <<me, err>>
        /\ UNCHANGED fifoLock
  /\ UNCHANGED <<fault, faultLock, kin, kout, history, task, poll>>

WriteCopy(w) ==
  /\ pc[w] = "copy"
  /\ \E k \in 0..me[w].n :
       /\ kin' = kin + k
       /\ written' = written + k
       /\ CopyResult(w, k)
  /\ fifoLock' = NoThread
  /\ UNCHANGED <<fault, faultLock, kout, task, poll, last, eio>>

\* Deviation of WriteWake: nobody is woken.
WriteWakeDropped(w) ==
  /\ pc[w] = "wake"
  /\ ReturnBytes(w, "OK", me[w].n)
  /\ UNCHANGED <<device, history, task, poll>>

WriteWake(w) ==
  /\ pc[w] = "wake"
  /\ WakeUp(OnReadq)
  /\ ReturnBytes(w, "OK", me[w].n)
  /\ UNCHANGED <<device, history, poll>>

-----------------------------------------------------------------------------
(* A signal ends an interruptible wait: schedule() of wait_event and poll, *)
(* msleep_interruptible, and a contended mutex_lock_interruptible.         *)

Interrupt(t) ==
  /\ \/ pc[t] \in {"schedule", "delay"}
     \/ t \in Readers \cup Writers /\ pc[t] = "lock" /\ fifoLock # NoThread
  /\ IF t \in Pollers THEN Return(t, "EINTR") /\ UNCHANGED me
     ELSE ReturnBytes(t, "EINTR", 0)
  /\ task' = [task EXCEPT ![t] = "running"]
  /\ UNCHANGED <<device, history, poll>>

-----------------------------------------------------------------------------
(* poll(2) with vdevlab_poll.                                              *)

PollCall(p) ==
  /\ pc[p] = "idle"
  /\ \E want \in {{"IN"}, {"OUT"}} : poll' = [poll EXCEPT ![p].want = want]
  /\ task' = [task EXCEPT ![p] = "interruptible"]
  /\ Goto(p, "type")
  /\ UNCHANGED <<device, history, me, err>>

\* poll(2) returns when a requested event, ERR or HUP is set.
PollReport(p, mask) ==
  /\ poll' = [poll EXCEPT ![p].mask = mask]
  /\ task' = [task EXCEPT ![p] = "running"]
  /\ Return(p, "OK")

PollType(p) ==
  /\ pc[p] = "type"
  /\ \/ fault.type = "DISCONNECT" /\ PollReport(p, {"ERR", "HUP"})
     \/ fault.type = "EIO" /\ PollReport(p, {"ERR"})
     \/ ~fault_interrupts_read /\ Goto(p, "lock") /\ UNCHANGED <<task, poll, err>>
  /\ UNCHANGED <<device, history, me>>

Ready == (IF kfifo_len # 0 THEN {"IN"} ELSE {})
           \cup (IF kfifo_avail > 0 THEN {"OUT"} ELSE {})

PollLock(p) ==
  /\ pc[p] = "lock"
  /\ fifoLock = NoThread
  /\ LET events == Ready \cap poll[p].want
     IN  IF events # {} \/ poll[p].expired
         THEN PollReport(p, events)
         ELSE Goto(p, "schedule") /\ UNCHANGED <<task, poll, err>>
  /\ UNCHANGED <<device, history, me>>

\* A wake-up makes poll(2) ask the driver again.
PollSchedule(p) ==
  /\ pc[p] = "schedule"
  /\ task[p] = "running"
  /\ task' = [task EXCEPT ![p] = "interruptible"]
  /\ Goto(p, "type")
  /\ UNCHANGED <<device, history, me, err, poll>>

\* So does the timeout, once, before poll(2) returns without an event.
PollTimeout(p) ==
  /\ pc[p] = "schedule"
  /\ poll' = [poll EXCEPT ![p].expired = TRUE]
  /\ task' = [task EXCEPT ![p] = "interruptible"]
  /\ Goto(p, "type")
  /\ UNCHANGED <<device, history, me, err>>

-----------------------------------------------------------------------------
(* vdevlab_ioctl.                                                          *)

\* SET_FAULT: validate, normalise, assign under fault_lock.
SetFault(c) ==
  /\ pc[c] = "idle"
  /\ \E config \in RawConfigs :
       IF Valid(config)
       THEN /\ faultLock = NoThread
            /\ fault' = Normalised(config)
            /\ eio' = [set |-> fault'.repeat, given |-> 0]
            /\ Goto(c, "wakeread")
            /\ UNCHANGED err
       ELSE Return(c, "EINVAL") /\ UNCHANGED <<fault, eio>>
  /\ UNCHANGED <<faultLock, fifoLock, kin, kout, task, me, poll, written, last>>

\* GET_FAULT, a faulting argument pointer, and an unknown command.
ReadOnlyIoctl(c) ==
  /\ pc[c] = "idle"
  /\ \/ faultLock = NoThread /\ Return(c, "OK")
     \/ Return(c, "EFAULT")
     \/ Return(c, "ENOTTY")
  /\ UNCHANGED <<device, history, task, me, poll>>

ClearFault(c) ==
  /\ pc[c] = "idle"
  /\ faultLock = NoThread
  /\ fault' = NoFault
  /\ eio' = [set |-> 0, given |-> 0]
  /\ Goto(c, "wakeread")
  /\ UNCHANGED <<faultLock, fifoLock, kin, kout, task, me, err, poll, written, last>>

\* RESET holds fault_lock, then fifo_lock, over both changes.
ResetLock(c) ==
  /\ pc[c] = "idle"
  /\ faultLock = NoThread
  /\ faultLock' = c
  /\ Goto(c, "fifolock")
  /\ UNCHANGED <<fault, fifoLock, kin, kout, history, task, me, err, poll>>

\* Deviation of ResetFault: RESET does not wait for fifo_lock.
ResetUnlocked(c) ==
  /\ pc[c] = "fifolock"
  /\ fault' = NoFault
  /\ eio' = [set |-> 0, given |-> 0]
  /\ Goto(c, "reset")
  /\ UNCHANGED <<faultLock, fifoLock, kin, kout, task, me, err, poll, written, last>>

ResetFault(c) ==
  /\ pc[c] = "fifolock"
  /\ fifoLock = NoThread
  /\ fifoLock' = c
  /\ fault' = NoFault
  /\ eio' = [set |-> 0, given |-> 0]
  /\ Goto(c, "reset")
  /\ UNCHANGED <<faultLock, kin, kout, task, me, err, poll, written, last>>

\* kfifo_reset stores the two indices one after the other.
ResetIndex(c) ==
  /\ pc[c] = "reset"
  /\ \/ kin' = 0 /\ UNCHANGED kout
     \/ kout' = 0 /\ UNCHANGED kin
  /\ Goto(c, "reset2")
  /\ UNCHANGED <<fault, faultLock, fifoLock, history, task, me, err, poll>>

ResetDone(c) ==
  /\ pc[c] = "reset2"
  /\ kin' = 0 /\ kout' = 0
  /\ faultLock' = NoThread /\ fifoLock' = NoThread
  /\ Goto(c, "wakeread")
  /\ UNCHANGED <<fault, history, task, me, err, poll>>

IoctlWakeRead(c) ==
  /\ pc[c] = "wakeread"
  /\ WakeUp(OnReadq)
  /\ Goto(c, "wakewrite")
  /\ UNCHANGED <<device, history, me, err, poll>>

\* Deviation of IoctlWakeWrite: writers are not told of the new fault.
IoctlWakeWriteDropped(c) ==
  /\ pc[c] = "wakewrite"
  /\ Return(c, "OK")
  /\ UNCHANGED <<device, history, task, me, poll>>

IoctlWakeWrite(c) ==
  /\ pc[c] = "wakewrite"
  /\ WakeUp(OnWriteq)
  /\ Return(c, "OK")
  /\ UNCHANGED <<device, history, me, poll>>

-----------------------------------------------------------------------------
ReaderStep(r) ==
  \/ ReadApplyFault(r) \/ ReadDelayOver(r) \/ ReadLock(r) \/ ReadCopy(r)
  \/ ReadWake(r) \/ WaitPrepare(r) \/ ReadCompare(r) \/ ReadType(r)
  \/ WaitSchedule(r) \/ Leave(r)

WriterStep(w) ==
  \/ WriteConnected(w) \/ WaitPrepare(w) \/ WriteCompare(w) \/ WriteType(w)
  \/ WaitSchedule(w) \/ WriteRecheck(w) \/ WriteLock(w) \/ WriteCopy(w)
  \/ WriteWake(w) \/ Leave(w)

PollerStep(p) == PollType(p) \/ PollLock(p) \/ PollSchedule(p) \/ Leave(p)

ControllerStep(c) ==
  \/ ResetFault(c) \/ ResetIndex(c) \/ ResetDone(c)
  \/ IoctlWakeRead(c) \/ IoctlWakeWrite(c) \/ Leave(c)

Next ==
  \/ \E r \in Readers : ReadCall(r) \/ ReaderStep(r)
  \/ \E w \in Writers : WriteCall(w) \/ WriterStep(w)
  \/ \E p \in Pollers : PollCall(p) \/ PollTimeout(p) \/ PollerStep(p)
  \/ \E c \in Controllers :
       \/ SetFault(c) \/ ReadOnlyIoctl(c) \/ ClearFault(c) \/ ResetLock(c)
       \/ ControllerStep(c)
  \/ \E t \in Threads : Interrupt(t)

Spec == Init /\ [][Next]_vars

\* The kernel schedules every runnable thread, timers expire, and a mutex is
\* handed to its waiters, so a lock that is free again and again is obtained.
\* Calls, signals and poll timeouts need not happen.
Fairness ==
  /\ \A r \in Readers : SF_vars(ReaderStep(r))
  /\ \A w \in Writers : SF_vars(WriterStep(w))
  /\ \A p \in Pollers : SF_vars(PollerStep(p))
  /\ \A c \in Controllers : SF_vars(ControllerStep(c))

FairSpec == Spec /\ Fairness

-----------------------------------------------------------------------------
(* Types.                                                                  *)

ReaderPc == {"idle", "apply", "delay", "lock", "copy", "wake", "prepare",
             "compare", "type", "schedule", "done"}
WriterPc == {"idle", "connected", "prepare", "compare", "type", "schedule",
             "recheck", "lock", "copy", "wake", "done"}
PollerPc == {"idle", "type", "lock", "schedule", "done"}
ControllerPc == {"idle", "fifolock", "reset", "reset2", "wakeread",
                 "wakewrite", "done"}

Codes == {"OK", "EIO", "ENODEV", "EAGAIN", "EFAULT", "EINTR", "EINVAL", "ENOTTY"}

Local == [count : Nat, nonblock : BOOLEAN, delayed : BOOLEAN, partial : Nat,
          seen : [word : {"in", "out"}, val : Nat], from : Nat, n : Int]

PollState == [want : SUBSET {"IN", "OUT"}, expired : BOOLEAN,
              mask : SUBSET {"IN", "OUT", "ERR", "HUP"}]

DeviceOK ==
  /\ fault \in FaultConfig
  /\ faultLock \in Controllers \cup {NoThread}
  /\ fifoLock \in Threads \cup {NoThread}
  /\ kin \in Nat /\ kout \in Nat
  /\ written \in Nat /\ last \in Int
  /\ eio \in [set : Nat, given : Nat]

PcOK ==
  /\ pc \in [Threads -> ReaderPc \cup WriterPc \cup PollerPc \cup ControllerPc]
  /\ \A r \in Readers : pc[r] \in ReaderPc
  /\ \A w \in Writers : pc[w] \in WriterPc
  /\ \A p \in Pollers : pc[p] \in PollerPc
  /\ \A c \in Controllers : pc[c] \in ControllerPc

MeOK == me \in [Readers \cup Writers -> Local]

LocalsOK ==
  /\ MeOK
  /\ task \in [Threads -> {"running", "interruptible"}]
  /\ err \in [Threads -> Codes]
  /\ poll \in [Pollers -> PollState]

\* Every variable has its type; each thread is at a label of its own calls.
TypeOK == DeviceOK /\ PcOK /\ LocalsOK

-----------------------------------------------------------------------------
(* Safety.                                                                 *)

\* RESET is between its two locks and the end of kfifo_reset.
Resetting == \E c \in Controllers : pc[c] \in {"reset", "reset2"}

\* The fault record is always one SET_FAULT would accept, with the fields of
\* the other types zero.  So the branch of vdevlab_apply_read_fault for an
\* EIO fault with no repeats left is never taken, and a partial-read limit
\* that a read adopts is never zero.
FaultWellFormed == Valid(fault) /\ Normalised(fault) = fault

\* An EIO fault fails exactly the configured number of reads: the failures
\* returned and the ones left always add up to what SET_FAULT asked for,
\* whichever readers meet them and whatever else they wait for in between.
EioExact == eio.given + fault.repeat = eio.set

\* The FIFO never holds more than its size nor less than nothing, although
\* the room and the length are computed one step before the copy.
FifoBounded == ~Resetting => kfifo_len \in 0..FifoSize

\* Bytes are handed to readers in the order they were written and none twice:
\* a copy that succeeds starts above every byte handed before.  Only RESET
\* makes numbers disappear.
HandedInOrder ==
  [][\A r \in Readers : pc[r] = "copy" /\ pc'[r] = "wake"
                          => ByteAt(me[r].from + 1) > last]_vars

\* A read or a write of at least one byte never returns zero, which user
\* space would take for the end of the file.
NeverZero == \A t \in Readers \cup Writers :
               pc[t] = "done" /\ err[t] = "OK" => me[t].n > 0

Asleep(t) == pc[t] = "schedule" /\ task[t] = "interruptible"

\* Some thread is about to wake the read queue, or the write queue.
ReadqPending ==
  \/ \E w \in Writers : pc[w] = "wake"
  \/ \E c \in Controllers : pc[c] \in {"reset", "reset2", "wakeread"}

WriteqPending ==
  \/ \E r \in Readers : pc[r] = "wake"
  \/ \E c \in Controllers : pc[c] \in {"reset", "reset2", "wakeread", "wakewrite"}

\* No lost wake-up for readers: when a reader sleeps although there is data
\* or an interrupting fault, a wake-up of the read queue is on its way.
ReaderWoken ==
  \A r \in Readers :
    Asleep(r) /\ (kin # kout \/ fault_interrupts_read) => ReadqPending

\* The same for writers: room or a disconnect, and the write queue.
WriterWoken ==
  \A w \in Writers :
    Asleep(w) /\ (kfifo_avail > 0 \/ is_disconnected) => WriteqPending

\* The same for poll(2), which waits on both queues: data or a fault reaches
\* it through the read queue, room through the write queue.
PollerWoken ==
  \A p \in Pollers :
    Asleep(p) =>
      /\ fault_interrupts_read \/ ("IN" \in poll[p].want /\ kin # kout)
           => ReadqPending
      /\ "OUT" \in poll[p].want /\ kfifo_avail > 0 => WriteqPending

-----------------------------------------------------------------------------
(* What makes the safety properties inductive.                             *)

\* A mutex is held exactly where the code is between its lock and unlock.
LocksHeld ==
  \A t \in Threads :
    /\ fifoLock = t <=> pc[t] \in {"copy", "reset", "reset2"}
    /\ faultLock = t <=> pc[t] \in {"fifolock", "reset", "reset2"}

\* What a copy was computed from is still true when it runs, and no byte in
\* the FIFO has been handed out.
CopiesValid ==
  /\ FifoBounded
  /\ last <= written
  /\ ~Resetting => last <= ByteAt(kout)
  /\ \A r \in Readers :
       pc[r] = "copy" => me[r].from = kout /\ me[r].n \in 1..kfifo_len
  /\ \A w \in Writers : pc[w] = "copy" => me[w].n \in 1..kfifo_avail
  /\ \A t \in Readers \cup Writers :
       /\ pc[t] \notin {"idle", "done"} => me[t].count >= 1
       /\ pc[t] = "wake" => me[t].n >= 1

Queued(t, label) == pc[t] = label /\ task[t] = "interruptible"

\* A reader that no wake-up has reached since it queued itself: its load of
\* "in" is current, its load of "out" not ahead, or a wake-up is pending.
ReadersWait ==
  \A r \in Readers :
    /\ Queued(r, "compare") =>
         \/ ReadqPending
         \/ me[r].seen.word = "in" /\ me[r].seen.val = kin
         \/ me[r].seen.word = "out" /\ me[r].seen.val <= kout
    /\ Queued(r, "type") /\ kin # kout => ReadqPending

\* The same for a writer, whose load of "in" may lag but not behind "out".
WritersWait ==
  \A w \in Writers :
    /\ Queued(w, "compare") =>
         \/ WriteqPending
         \/ me[w].seen.word = "out" /\ me[w].seen.val = kout
         \/ me[w].seen.word = "in" /\ me[w].seen.val \in kout..kin
    /\ Queued(w, "type") /\ kfifo_avail > 0 => WriteqPending

\* A poll that found no fault and was not woken since has missed none.
PollersWait ==
  \A p \in Pollers : Queued(p, "lock") /\ fault_interrupts_read => ReadqPending

-----------------------------------------------------------------------------
(* Liveness, under Fairness.                                               *)

InCall(t) == pc[t] # "idle"

\* A call in progress on a disconnected device returns, unless the device is
\* connected again: nobody sleeps through a disconnect.
DisconnectReleases ==
  \A t \in Readers \cup Writers \cup Pollers :
    (InCall(t) /\ is_disconnected) ~> (~InCall(t) \/ ~is_disconnected)

\* A read in progress while the FIFO holds data returns or loses the data.
DataServesReader ==
  \A r \in Readers : (InCall(r) /\ kin # kout) ~> (~InCall(r) \/ kin = kout)

\* A write in progress while the FIFO has room returns, or loses the room, or
\* meets a disconnect (a device that is disconnected and connected again and
\* again can keep the loop of vdevlab_write going for ever).
RoomServesWriter ==
  \A w \in Writers :
    (InCall(w) /\ kfifo_avail > 0 /\ ~is_disconnected)
      ~> (~InCall(w) \/ kfifo_avail <= 0 \/ is_disconnected)

\* Every ioctl returns: RESET gets fifo_lock although it already holds
\* fault_lock, so no order of lock acquisitions blocks it for ever.
IoctlReturns == \A c \in Controllers : InCall(c) ~> ~InCall(c)

=============================================================================

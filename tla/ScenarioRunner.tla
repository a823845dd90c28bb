--------------------------- MODULE ScenarioRunner ---------------------------
(***************************************************************************)
(* ScenarioRunner.run of src/src/vdevlab/runner.py with what it drives: the *)
(* event dispatch, the application process with its output collector       *)
(* thread, and the device descriptor.  Ctrl+C can strike the main thread   *)
(* between any two of its steps.  Times are abstracted to whether the      *)
(* scenario timeout has passed.                                            *)
(***************************************************************************)
EXTENDS Integers, Sequences

CONSTANTS
  Scenarios,       \* event lists
  Payload,         \* bytes of a write event
  FifoSize,        \* VDEVLAB_FIFO_SIZE
  Failures,        \* operations that may fail: "open", "popen", "dispatch",
                   \* "collector", "reset"
  Found,           \* faults the device may be found with
  Descendants,     \* whether the application starts processes of its own
  MaxInterrupts    \* bound: how often Ctrl+C is pressed

Events == {"reset", "clear", "write", "eio", "delay", "partial-read", "disconnect"}

ASSUME RunnerAssumption ==
  /\ Scenarios \subseteq Seq(Events)
  /\ Payload \in Nat /\ FifoSize \in Nat \ {0} /\ MaxInterrupts \in Nat
  /\ Descendants \in BOOLEAN

VARIABLES
  scenario,          \* the events to dispatch
  at,                \* where the main thread is
  handling,          \* it is in the except block of run()
  error,             \* the exception in flight, or the one run() raised
  application,       \* the variable application is assigned
  leader, child,     \* the process, and whether a descendant is alive
  collector,         \* the output collector thread
  fd, fault, queued, \* the descriptor; the device behind it
  event, left,       \* the next event; bytes of a write still to be written
  expired,           \* scenario.timeout_ms has passed
  cleanupFailed,     \* _cleanup_backend met an error
  interrupts, hit    \* history: Ctrl+C so far, and where the last one struck

process == <<application, leader, child, collector>>
dev == <<fault, queued>>
history == <<interrupts, hit>>
vars == <<scenario, at, handling, error, application, leader, child, collector,
          fd, fault, queued, event, left, expired, cleanupFailed, interrupts, hit>>

Init ==
  /\ scenario \in Scenarios
  /\ at = "open" /\ handling = FALSE /\ error = "none"
  /\ application = FALSE /\ leader = "none" /\ child = FALSE /\ collector = "none"
  /\ fd = "none" /\ fault \in Found /\ queued = 0
  /\ event = 1 /\ left = 0
  /\ expired = FALSE /\ cleanupFailed = FALSE
  /\ interrupts = 0 /\ hit = "none"

\* An exception in the try block goes to its handler; one in the handler, or
\* outside of both, leaves run() at once.
Raise(e) ==
  /\ error' = e
  /\ at' = IF handling THEN "ended" ELSE "except"
  /\ handling' = TRUE

Continue(label) == at' = label /\ UNCHANGED <<handling, error>>

-----------------------------------------------------------------------------
(* Start.                                                                  *)

\* backend_factory, before the try block.
Open ==
  /\ at = "open"
  /\ \/ fd' = "open" /\ Continue("opened")
     \/ /\ "open" \in Failures
        /\ error' = "OSError" /\ at' = "ended"
        /\ UNCHANGED <<fd, handling>>
  /\ UNCHANGED <<scenario, process, dev, event, left, expired, cleanupFailed, history>>

Started ==
  /\ at = "opened"
  /\ Continue("popen")
  /\ UNCHANGED <<scenario, process, fd, dev, event, left, expired, cleanupFailed, history>>

\* ApplicationProcess.__init__: the process exists before run() knows it.
Popen ==
  /\ at = "popen"
  /\ \/ leader' = "running" /\ collector' = "reading" /\ Continue("constructed")
     \/ "popen" \in Failures /\ Raise("OSError") /\ UNCHANGED <<leader, collector>>
  /\ UNCHANGED <<scenario, application, child, fd, dev, event, left, expired,
                 cleanupFailed, history>>

Assigned ==
  /\ at = "constructed"
  /\ application' = TRUE
  /\ Continue("event")
  /\ UNCHANGED <<scenario, leader, child, collector, fd, dev, event, left, expired,
                 cleanupFailed, history>>

-----------------------------------------------------------------------------
(* ScenarioScheduler.run and _dispatch.                                    *)

\* reset, clear_fault and set_fault of LinuxDeviceBackend, one ioctl each.
Applied(e) ==
  /\ fault' = IF e \in {"reset", "clear"} THEN "none" ELSE e
  /\ queued' = IF e = "reset" THEN 0 ELSE queued

\* One event; a write goes on in WriteSome.
Dispatch ==
  /\ at = "event" /\ event <= Len(scenario)
  /\ \/ /\ scenario[event] = "write"
        /\ left' = Payload
        /\ Continue("write")
        /\ UNCHANGED <<dev, event>>
     \/ /\ scenario[event] # "write"
        /\ Applied(scenario[event])
        /\ event' = event + 1
        /\ Continue("event")
        /\ UNCHANGED left
     \/ "dispatch" \in Failures /\ Raise("RunnerError") /\ UNCHANGED <<dev, event, left>>
  /\ UNCHANGED <<scenario, process, fd, expired, cleanupFailed, history>>

\* Deviation of WriteSome: the write does not stop at the room there is.
WriteAll ==
  /\ at = "write"
  /\ queued' = queued + left /\ left' = 0
  /\ event' = event + 1
  /\ Continue("event")
  /\ UNCHANGED <<scenario, process, fd, fault, expired, cleanupFailed, history>>

\* LinuxDeviceBackend.write: write(2) takes what fits and blocks when nothing
\* does; a disconnected device fails it.
WriteSome ==
  /\ at = "write"
  /\ \/ /\ left = 0
        /\ event' = event + 1
        /\ Continue("event")
        /\ UNCHANGED <<queued, left>>
     \/ /\ left > 0 /\ fault = "disconnect"
        /\ Raise("RunnerError")
        /\ UNCHANGED <<queued, left, event>>
     \/ /\ left > 0 /\ fault # "disconnect" /\ queued < FifoSize
        /\ LET room == FifoSize - queued
               n    == IF left <= room THEN left ELSE room
           IN  queued' = queued + n /\ left' = left - n
        /\ Continue("write")
        /\ UNCHANGED event
  /\ UNCHANGED <<scenario, process, fd, fault, expired, cleanupFailed, history>>

\* All events are dispatched: what is left of the timeout decides.
Remaining ==
  /\ at = "event" /\ event > Len(scenario)
  /\ Continue(IF expired THEN "poll" ELSE "collect")
  /\ UNCHANGED <<scenario, process, fd, dev, event, left, expired, cleanupFailed, history>>

-----------------------------------------------------------------------------
(* ApplicationProcess.collect_with_timeout, terminate and collect.         *)

Collect ==
  /\ at = "collect"
  /\ \/ collector = "done" /\ Continue("reset")
     \/ collector = "failed" /\ Raise("RunnerError")
     \/ collector = "reading" /\ expired /\ Continue("poll")
  /\ UNCHANGED <<scenario, process, fd, dev, event, left, expired, cleanupFailed, history>>

\* poll() is None: the exit of the leader can go unnoticed while the collector
\* waits for the same process.
PollNone == leader = "running" \/ (leader = "exited" /\ collector = "reading" /\ ~child)

\* terminate: a leader that exited is not signalled, nor is its group.
Poll ==
  /\ at = "poll"
  /\ \/ leader = "exited" /\ Continue("join")
     \/ PollNone /\ Continue("grace")
  /\ UNCHANGED <<scenario, process, fd, dev, event, left, expired, cleanupFailed, history>>

\* Deviation of Grace: the fallback asks again instead of killing.
GraceTermAgain ==
  /\ at = "grace"
  /\ Continue("join")
  /\ UNCHANGED <<scenario, process, fd, dev, event, left, expired, cleanupFailed, history>>

\* SIGTERM was sent; the grace period ends with the output or with SIGKILL to
\* the whole group.
Grace ==
  /\ at = "grace"
  /\ IF collector = "reading" THEN leader' = "exited" /\ child' = FALSE
     ELSE UNCHANGED <<leader, child>>
  /\ Continue("join")
  /\ UNCHANGED <<scenario, application, collector, fd, dev, event, left, expired,
                 cleanupFailed, history>>

\* collect() without a timeout.
Join ==
  /\ at = "join"
  /\ \/ collector = "done" /\ Continue("reset")
     \/ collector = "failed" /\ Raise("RunnerError")
  /\ UNCHANGED <<scenario, process, fd, dev, event, left, expired, cleanupFailed, history>>

-----------------------------------------------------------------------------
(* The except block, _cleanup_backend, and the kernel log.                 *)

\* Deviation of Except: only the device is cleaned up.
ExceptDeviceOnly ==
  /\ at = "except"
  /\ Continue("reset")
  /\ UNCHANGED <<scenario, process, fd, dev, event, left, expired, cleanupFailed, history>>

Except ==
  /\ at = "except"
  /\ \/ application /\ PollNone /\ Continue("poll")
     \/ (~application \/ leader # "running") /\ Continue("reset")
  /\ UNCHANGED <<scenario, process, fd, dev, event, left, expired, cleanupFailed, history>>

Reset ==
  /\ at = "reset"
  /\ \/ fault' = "none" /\ queued' = 0 /\ UNCHANGED cleanupFailed
     \/ "reset" \in Failures /\ cleanupFailed' = TRUE /\ UNCHANGED dev
  /\ Continue("close")
  /\ UNCHANGED <<scenario, process, fd, event, left, expired, history>>

\* Deviation of CleanedUp: errors are suppressed on both paths.
CleanedUpSilently(failed) ==
  IF handling THEN Continue("ended") ELSE Continue("observe")

\* After close(): the handler raises again what it handles; without an
\* exception a failed cleanup becomes one.
CleanedUp(failed) ==
  IF handling THEN Continue("ended")
  ELSE IF failed THEN error' = "RunnerError" /\ at' = "ended" /\ UNCHANGED handling
  ELSE Continue("observe")

Close ==
  /\ at = "close"
  /\ fd' = "closed"
  /\ CleanedUp(cleanupFailed)
  /\ UNCHANGED <<scenario, process, dev, event, left, expired, cleanupFailed, history>>

Observe ==
  /\ at = "observe"
  /\ Continue("ended")
  /\ UNCHANGED <<scenario, process, fd, dev, event, left, expired, cleanupFailed, history>>

-----------------------------------------------------------------------------
(* Ctrl+C.                                                                 *)

\* Before the try block and after the cleanup it leaves run(); in the cleanup
\* it is taken for an error of the operation it keeps from completing.
Interrupt ==
  /\ at # "ended" /\ interrupts < MaxInterrupts
  /\ interrupts' = interrupts + 1
  /\ hit' = IF handling /\ at \notin {"reset", "close"} THEN "except" ELSE at
  /\ \/ /\ at \in {"open", "opened", "observe"}
        /\ error' = "KeyboardInterrupt" /\ at' = "ended"
        /\ UNCHANGED <<handling, cleanupFailed>>
     \/ /\ at \notin {"open", "opened", "observe", "reset", "close"}
        /\ Raise("KeyboardInterrupt")
        /\ UNCHANGED cleanupFailed
     \/ at = "reset" /\ cleanupFailed' = TRUE /\ Continue("close")
     \/ at = "close" /\ cleanupFailed' = TRUE /\ CleanedUp(TRUE)
  /\ UNCHANGED <<scenario, process, fd, dev, event, left, expired>>

-----------------------------------------------------------------------------
(* The application, its descendants, the collector thread, and time.       *)

\* The application reads when it likes, and meets the fault that is active.
AppRead ==
  /\ leader = "running"
  /\ \/ fault = "eio" /\ fault' = "none" /\ UNCHANGED queued
     \/ fault = "none" /\ queued > 0 /\ queued' = queued - 1 /\ UNCHANGED fault
  /\ UNCHANGED <<scenario, at, handling, error, process, fd, event, left, expired,
                 cleanupFailed, history>>

\* It starts a descendant, which inherits its output; either may exit.
AppProcess ==
  /\ \/ leader = "running" /\ leader' = "exited" /\ UNCHANGED child
     \/ Descendants /\ leader = "running" /\ child' = TRUE /\ UNCHANGED leader
     \/ child /\ child' = FALSE /\ UNCHANGED leader
  /\ UNCHANGED <<scenario, at, handling, error, application, collector, fd, dev,
                 event, left, expired, cleanupFailed, history>>

\* communicate() returns when the process exited and nobody holds its output.
CollectorDone ==
  /\ collector = "reading" /\ leader = "exited" /\ ~child
  /\ collector' = "done"
  /\ UNCHANGED <<scenario, at, handling, error, application, leader, child, fd, dev,
                 event, left, expired, cleanupFailed, history>>

CollectorFails ==
  /\ "collector" \in Failures /\ collector = "reading"
  /\ collector' = "failed"
  /\ UNCHANGED <<scenario, at, handling, error, application, leader, child, fd, dev,
                 event, left, expired, cleanupFailed, history>>

Expire ==
  /\ ~expired /\ at \notin {"open", "ended"}
  /\ expired' = TRUE
  /\ UNCHANGED <<scenario, at, handling, error, process, fd, dev, event, left,
                 cleanupFailed, history>>

Main ==
  \/ Open \/ Started \/ Popen \/ Assigned \/ Dispatch \/ WriteSome \/ Remaining
  \/ Collect \/ Poll \/ Grace \/ Join \/ Except \/ Reset \/ Close \/ Observe

Next == Main \/ Interrupt \/ AppRead \/ AppProcess \/ CollectorDone
        \/ CollectorFails \/ Expire

Spec == Init /\ [][Next]_vars

-----------------------------------------------------------------------------
\* Types; what is queued never exceeds the FIFO.
TypeOK ==
  /\ scenario \in Seq(Events)
  /\ at \in {"open", "opened", "popen", "constructed", "event", "write", "collect",
             "poll", "grace", "join", "except", "reset", "close", "observe", "ended"}
  /\ error \in {"none", "OSError", "RunnerError", "KeyboardInterrupt"}
  /\ handling \in BOOLEAN /\ expired \in BOOLEAN /\ cleanupFailed \in BOOLEAN
  /\ application \in BOOLEAN /\ child \in BOOLEAN
  /\ leader \in {"none", "running", "exited"}
  /\ collector \in {"none", "reading", "done", "failed"}
  /\ fd \in {"none", "open", "closed"} /\ queued \in 0..FifoSize
  /\ event \in 1..(Len(scenario) + 1) /\ (at = "write" => event <= Len(scenario))
  /\ left \in 0..Payload
  /\ interrupts \in 0..MaxInterrupts

Clean == fault = "none" /\ queued = 0

\* run() is over without a process left, and with the device reset and its
\* descriptor closed unless an error of the reset itself kept it from that.
Restored ==
  /\ leader # "running"
  /\ fd # "none" => fd = "closed" /\ (Clean \/ cleanupFailed)

\* The places where Ctrl+C is not followed by the whole cleanup: between the
\* open and the try block, inside the constructor of the process, in the
\* except block, and in the reset and the close themselves.
Gaps == {"opened", "constructed", "except", "reset", "close"}

\* If the output collector failed, terminate() raises inside the except block:
\* the device is left as it is, and the process with no more than SIGTERM.
LeftBehind == collector = "failed" /\ error = "RunnerError" /\ fd = "open"

\* However a run ends (result, failed start, failed event, timeout, Ctrl+C),
\* everything is restored, unless Ctrl+C struck in one of the gaps or the
\* output collector failed and the run with it.
AlwaysRestored == at = "ended" /\ hit \notin Gaps => Restored \/ LeftBehind

\* run() returns a result only for a run that is complete: all events were
\* dispatched, the output collected, the device reset and closed.
ResultComplete ==
  at = "ended" /\ error = "none" =>
    event > Len(scenario) /\ collector = "done" /\ fd = "closed" /\ Clean

\* The two waits without a bound: a write into a full FIFO that nobody reads,
\* and output that a descendant of an exited leader holds open.
Hung ==
  \/ at = "write" /\ left > 0 /\ fault # "disconnect" /\ queued = FifoSize
  \/ at = "join" /\ collector = "reading" /\ child

\* A run whose timeout has passed comes to its end, or stays for ever in one of
\* the two unbounded waits; there is no third place where it can be stuck.
TimeoutEnds == expired ~> (at = "ended" \/ []Hung)

\* A run whose timeout has passed comes to its end.
TimeoutConverges == expired ~> at = "ended"
=============================================================================

# Verification of VDevLab

TLA+ models of VDevLab: a Linux character device with fault injection, a sample
client, and a Python runner that drives scenarios. TLC checks the models on
small instances; TLAPS proves every safety property the passing runs check, and the
refinement of the device, for all values of the constants. Liveness is left to TLC.

## Inventory

| Part | Source | State it changes | Here |
|---|---|---|---|
| character device | `kernel/vdevlab_core.c`, `include/vdevlab.h` | FIFO, fault record, two mutexes, two wait queues | `VDevCore`, `VDevSpec`, `VDevRefinement`, `VDevHistory` |
| module load/unload | `vdevlab_init`, `vdevlab_exit`, `scripts/load.sh`, `unload.sh` | kernel registrations | only the initial state |
| sample monitor | `examples/vtemp_monitor.c` | pending line, retry and event counters, stop flag, its log | `VTempMonitor` |
| scenario schema | `src/vdevlab/scenario.py` | none (parser) | `ScenarioSchema` |
| scenario runner | `src/vdevlab/runner.py` | process, collector thread, descriptor, device, clock | `ScenarioRunner`, `ScenarioSchedule` |
| kernel log collector | `runner.py` | two readings of the log | `KernelLog` |
| log analysis | `analysis.py` | none (pure) | `LogAnalysis`, composed with the monitor in `MonitorAnalysis` |
| report | `report.py`, `junit.py` | none (pure) | `LogAnalysis` (status, time line), `ScenarioCommand` (JUnit verdict) |
| command line | `cli.py` | report files, exit code | `ScenarioCommand` |
| package exports | `__init__.py` | none | not modelled |
| control tool | `tools/vdevlab-ctl.c` | one ioctl per command | its ioctls are controllers of `VDevCore` |
| scripts | `scripts/*.sh` | module, files | not modelled |

The command parses the scenario; the runner opens the device, starts the client, dispatches events (writes, fault
ioctls, resets), waits for the client, and resets and closes the device; the
command analyses the output, classifies the result and writes the reports. The client polls and reads
the same device.

## The device: `VDevCore`

Threads are readers, writers, pollers and controllers (ioctl callers), each with
a program counter `pc`. A step is what the code does between two points where
another thread can be seen: taking a lock, one load of a FIFO index outside the
lock, a load of the fault type, putting oneself on a wait queue, going to sleep,
a wake-up. `kin`/`kout` are the kfifo indices (counted without wrapping);
`kfifo_is_empty` and `kfifo_is_full` outside the lock are two loads with other
steps in between. `RESET` stores the two indices one after the other. Copies to
and from user memory may stop anywhere. Signals interrupt what the code lets
them interrupt. The kernel's wait queues, mutexes, kfifo and poll(2) are external
and modelled from how the driver uses them; memory is sequentially consistent.

`VDevSpec` is the promise: each call takes effect in one step. `VDevRefinement`
gives the mapping and states `Linearizable`. `VDevHistory` records which faults
were active during a call.

## The other modules

* `VTempMonitor`: `main()` step by step, `consume_input` character by character
  over the classes digit, other, newline; the device is the atomic one. A line is
  a number or not; `THERMAL_WARNING` counts as a temperature.
* `LogAnalysis`: `parse_application_log`, the recovery windows, every kind of
  assertion, the status of the report and its time line, as operators; the loops
  over the lines of output are recursive functions of the position.
* `MonitorAnalysis` composes the two: what the monitor logs is stamped by a
  clock, `reads` records what its reads really returned, and the report is
  judged against that record.
* `ScenarioSchema`: the parser. A YAML value is a record with its kind; a string
  that is a duration keeps number and unit. `events_of` and `assertions_of` give
  what the runner and the report get of an accepted document.
* `ScenarioRunner`: `run()` statement by statement where Ctrl+C matters, with
  the collector thread and the application as processes of their own. Time is
  reduced to whether the timeout has passed.
* `ScenarioSchedule`: the same run against a clock of `Res` ticks per
  millisecond, which starts at any phase: parsing, deadlines, dispatch, the rest
  of the timeout, the grace period, and an application that reads the device at
  any time. Failures and cleanup are left to `ScenarioRunner`. Starting the
  process and device calls take any time, the runner's own computation and
  sleeps are exact.
* `ScenarioCommand` composes the runner with `cli.main` and the classification of
  `build_scenario_report`; assertion results are inputs. The application's exit
  code is any of a set, also for a killed process.
* `KernelLog`: the overlap of two readings of a ring that drops old lines.

`MC*` modules give sets of records, scenarios and exit codes to TLC. Definitions
introduced by "Deviation of" are plausible mistakes in the definition that
follows; each property is violated when its deviation is put in place.

## Runs

| Run | Checks | Bounds, and why they suffice |
|---|---|---|
| `core_faults` | `TypeOK FaultWellFormed EioExact FifoBounded NeverZero ReaderWoken WriterWoken HandedInOrder` | FIFO of 2, 3 bytes ever written: the writer meets a full FIFO; valid and invalid records of all types, blocking calls (`core_poll` has the non-blocking ones) |
| `core_poll` | `PollerWoken Linearizable` | a poller beside non-blocking reader and writer, FIFO of 1 |
| `core_live` | `DisconnectReleases DataServesReader RoomServesWriter IoctlReturns` | blocking reader and writer, FIFO of 1, 2 bytes |
| `history_read` | `OutcomeExplained` | one observed reader, 2 bytes and a partial limit of 1, so the limit matters |
| `monitor` | `TypeOK LinesFaithful LimitExact RetryBudget StopHonoured DisconnectEnds` | buffer of 2, 4 characters: an oversized line and another one; reads of 3, more than the event limit of 1 allows; one retry, EIO up to twice; faults, resets and signals at any time |
| `monitor_report` | `MetricsTruthful VerdictSound` | 2 retries, EIO up to 3 times, 2 lines: two outages, or one that ends the monitor; latencies 0 to 2 around the limit of 1 |
| `monitor_oversized` | `OversizedSkipped` (violated) | |
| `runner` | `TypeOK AlwaysRestored ResultComplete ZeroMeansPass ReportsHonest TimeoutEnds` | five scenarios, payload larger than the FIFO, each step may fail, two Ctrl+C anywhere: in a step, and in its handler or the report |
| `runner_descendant` | `TimeoutConverges` (violated) | no failure, no Ctrl+C |
| `kernel_log` | `OnlyNewReported NewReported` | ring of 3, 7 lines, two texts |
| `schedule` | `LateExplained DispatchedOnTime FailureExplained TimeoutHonest EndsInTime ReportBuilds TimelineCausal FaultBeforeError` | 2 ticks per millisecond, so stamps are cut; 7 scenarios of up to 3 events and timeouts of 0 to 2 ms, 35 variations at the edges of the schema; 9 ticks, past every timeout and grace period; the device found with or without a fault |
| `schedule_delay` | `AcceptedFaultsWork` (violated) | the same |

The runner and schedule runs switch off the deadlock check because a command ends
(and, with a clock, because time does).

**Fairness.** Device: strong fairness of each thread's steps, because the kernel
schedules runnable threads and mutexes are handed to waiters; calls, signals and
poll timeouts need not happen. Monitor: weak fairness of its steps; poll() has a
finite timeout. Runner: both threads are scheduled and time passes; the
application need not read, exit or obey SIGTERM.

## Where documents and code disagree

* `monitor_oversized`: the tail of an oversized line is parsed as a line of its
  own (`docs/sample-monitor.md:20` says such lines are skipped).
* `runner_descendant`: after a timeout, a descendant that outlives the leader
  and holds its output keeps `collect()` waiting (`docs/architecture.md:104`).
* `schedule_delay`: the parser takes delays of zero and of more than ten seconds,
  which the driver refuses in the middle of the run (`architecture.md:51`,
  `fault-model.md:28`).

Met while modelling, without a run of their own; the passing properties carry
the exception by name:

* Ctrl+C in the except block of `run()` skips the reset (`architecture.md:60,105`;
  `Gaps`). A collector failure does the same.
* A write larger than the room in the FIFO blocks past the timeout when the
  application does not read (`Hung`).
* `run()` does not reset the device at its start (`architecture.md:96`). The
  shipped scenarios begin with a reset event, but the application runs before
  it: a fault left behind can be met first, and the report then shows an error
  before the fault (premise of `FaultBeforeError`).
* `startup_timeout` is validated and never used.
* An exit code of 124 or 2 of the application cannot be told from a timeout or an
  invalid scenario (`ExitCode`); no document gives the codes a meaning of their own.
* A scenario file that is not UTF-8 ends the command with an uncaught error and
  exit code 1, without a report (`scenario-format.md:199` promises 2).
* The assertions of `recovery.yaml` count retries and recoveries of the whole
  log: one outage that ended and a later one that did not can together pass
  (`VerdictSound` says exactly which runs pass).
* New kernel lines equal to old ones are missed once the ring dropped old lines
  (`scenario-format.md:118`; precondition of `NewReported`).

## Proofs

From `BoundsAssumption` and the other named assumptions on the constants, for any sets of
threads and any limits:

* `VDevSafetyProofs`: `TypeCorrect`, `FaultRecordValid`, `EioCounted`, `LocksCorrect`,
  `CopiesCorrect`, `FifoSafe`, `OrderKept`, `NoFalseEof`.
* `VDevWakeProofs`: `ReadersNotLost`, `WritersNotLost`, `PollersNotLost`.
* `VDevRefinementProofs`: `DeviceAtomic`, the refinement of `VDevSpec`.
* `VDevHistoryProofs`: `Outcomes`.
* `VTempMonitorProofs`: `TypeCorrect`, `RetriesBudgeted`, `LinesReassembled`,
  `LimitKept`, for any buffer, read size, limits and stream; `MetricsCorrect` and
  `VerdictsCorrect` for the report of its output, for any sequence of reads and
  stamps.
* `ScenarioProofs`: `RunnerTypes`, `RunRestores`, `ResultsComplete`, `ExitZero`,
  `HonestReports`, for every scenario, payload, set of failures and number of
  Ctrl+C; `ReportsOnlyNew` and `ReportsAllNew` for a kernel log of any size.
* `ScenarioScheduleProofs`: `OnTime`, `LateEvents`, `Failures`, `TimeoutReported`,
  `RunEndsInTime`, `Reports`, `Faults`, `CausalTimeline`, for every set of
  documents, clock resolution and grace period.
* `FoldProofs`: `FoldEmpty`, `FoldAppend`, the two facts about loops that the
  proofs about `analysis.py` use.

`FifoBounded` and `NeverZero` are not inductive: a copy relies on a count that was
computed earlier. `LocksHeld` (a mutex is held exactly at the program points
between lock and unlock) gives exclusion; `CopiesValid` then says that the count
of a pending copy is still covered by data or room. The wake-up properties rest
on `ReadersWait`, `WritersWait`, `PollersWait`: whoever is past the test and not
yet awake either read state that is still true, or is runnable, or a wake-up is on
its way (`ReadqPending`, `WriteqPending`).

`DeviceAtomic` shows that every step of `VDevCore` maps to one step of `VDevSpec`
or to none, one lemma per kind of thread. It needs `LocksHeld` and `CopiesValid`,
so that the bytes a copy hands out are the front of the abstract FIFO, and
`CallsClear`: a call that has not been served yet carries no result.

The monitor's `RetryBudget` follows from `retries` being the history variable
`streak`; `LinesFaithful` from the pending buffer being the line so far as long as
the line fits. `AlwaysRestored` is not inductive: `Places` says what each place of
`run()` knows of process, descriptor and exception, `Progress` what a run without
an exception has done, and `Safe` that a Ctrl+C in a gap stays visible until the
end. `ZeroMeansPass` and `ReportsHonest` add `CommandInv`, which ties each file to
the status of the report being written.

`OutcomeExplained` relates a result to faults of the past. `HistoryInv` adds what a
call that is still on its way knows: a read past the test of the fault has met one
that is neither EIO nor DISCONNECT, and if it met `PARTIAL_READ` only, its limit
is set and bounds what it copies.

The kernel log: `RingInv` says that the ring begins with what is left of the
snapshot and that the rest is new. The collector's overlap is the largest one; the
true one is an overlap too, so the largest is no smaller and nothing old is reported
(`ReportsOnlyNew`). If nothing was dropped it cannot be larger, and if no new line
says the same as an old one it cannot reach into the new lines (`ReportsAllNew`).

**Loops.** What a loop computes for every input would need induction over the
sequence. `FoldProofs` avoids an induction rule: it gets a least element from the
well-foundedness of the naturals, takes the least length for which the function of
the loop does not exist (or differs between two sequences with a common front), and
contradicts it. The result, one more element is one more step, turns each claim about
a loop into one about a step of the model, because the log grows by `Append`:
`FoldProofs` is instantiated with the bodies of the parser's and the metrics' loops
(`LoopsHold`). Lemmas take the facts about loops and about finite sets as the
hypotheses `Loops` and `Counting`; the theorems, at the end of each module, discharge
them from `FoldProofs` and the library.

`MetricsTruthful` compares the metrics of a text with sets of positions in `reads`.
`AnalysisInv` says at every moment, not only at the end, that the lines parse, that
the metrics agree with the reads up to the failure that ends the monitor, and that
the open window of the metrics is the unfinished streak of failures. One lemma per
kind of result (success, failure, recovery, the last failure) shows that sets and
metrics change together.

The clock: `ScheduleInv` consists of `Position` (what is known at each place of the
run), `Times` (no variable is ahead of the clock; the scheduler sleeps until the next
event is due), `Records` (when each event began and ended) and `Ending` (when the
wait for the application is over, with the rounding of the rest of the timeout to
milliseconds). The five theorems about dispatch, failure and timeout follow from it.
That events are in the order of time, within the timeout and, short of a delay out of
range, such as the driver takes is shown of what the parser accepts (`Accepted`,
lemma `DocumentAccepted`).

The report: `LogInv` says that the application's lines are in the order of time and
none is stamped before the events it saw (`Logged`), that they parse (`Parsed`) and
measure without an error (`Measured`), that errors come after an injected fault
(`Injected`, `Caused`), and that accepted assertions can be evaluated (`Evaluates`).
`ReportBuilds` and `FaultBeforeError` follow. For `TimelineCausal`, the order of the
time line (`Earlier`: stamp, then source, then place) is shown total and strict; an
entry's rank is the number of entries not after it, ranks are distinct and in range,
hence every place is taken once, and the sorted time line is the one by rank. An event
that a line saw has a stamp no larger and a source that comes first, so it stands
before it.

The TLC runs of the device have one reader and one writer; that readers compete
for bytes and for EIO failures, and that blocking calls with partial reads are
atomic, rests on the theorems, which hold for any number of threads.

Only model-checked: liveness under fairness, which the provers cannot handle
(`DisconnectReleases`, `DataServesReader`, `RoomServesWriter`, `IoctlReturns`,
`StopHonoured`, `DisconnectEnds`, `TimeoutEnds`), and the three violations. The proofs
about the clock and the report do not show that a run ends, only what holds when it
has.

## Not modelled

Weak memory ordering; wrap-around of kfifo indices; the unwinding of a failed
`vdevlab_init` and the load and unload scripts (straight sequences that meet no
other actor); `vdevlab-ctl` beyond its ioctls, option parsing, the demo and test
scripts; the layout of logs and reports, the wording of errors, YAML and JSON
syntax; `evaluate_retry_count`, which nothing in the package calls; jitter of
sleeps and of the runner's own computation (`DispatchedOnTime` is about the
deadlines it computes); descendants that leave the process group; SIGTERM to the
runner itself; other poll() errors; Windows. The three parts of a run are composed
in pairs (runner and command, runner with clock and application, monitor and
analysis, driver and its atomic specification), not all at once: the product is
out of TLC's reach. A poller's release by a disconnect is covered by the safety
property `PollerWoken`, not by a liveness run.

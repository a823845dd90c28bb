----------------------------- MODULE KernelLog ------------------------------
(***************************************************************************)
(* DmesgKernelLogCollector of src/src/vdevlab/runner.py: the warnings of a *)
(* run are found by comparing two readings of the kernel's ring of warning *)
(* lines, which drops its oldest lines when it is full and is read without *)
(* time stamps.                                                            *)
(***************************************************************************)
EXTENDS Integers, Sequences

CONSTANTS Texts,      \* what a line can say
          RingSize,   \* lines the kernel keeps
          MaxLines    \* bound: lines ever logged

ASSUME KernelLogAssumption == RingSize \in Nat \ {0} /\ MaxLines \in Nat

VARIABLES
  ring,         \* the kernel's lines, oldest first
  phase,        \* "idle", "running" a scenario, or "observed"
  before,       \* the snapshot: its lines, and whether it could be read
  observation,  \* whether available, and the warnings
  logged,       \* history: lines ever logged
  fresh,        \* history: lines logged since the snapshot
  lost          \* history: lines of the snapshot dropped since

kvars == <<ring, phase, before, observation, logged, fresh, lost>>

NoReading == [ok |-> FALSE, lines |-> <<>>]

KInit ==
  /\ ring = <<>> /\ phase = "idle" /\ before = NoReading /\ observation = NoReading
  /\ logged = 0 /\ fresh = 0 /\ lost = 0

\* The kernel logs a line at any time.
Log(text) ==
  /\ logged < MaxLines
  /\ logged' = logged + 1
  /\ fresh' = IF phase = "running" THEN fresh + 1 ELSE fresh
  /\ IF Len(ring) < RingSize
     THEN ring' = Append(ring, text) /\ UNCHANGED lost
     ELSE /\ ring' = Append(Tail(ring), text)
          /\ lost' = IF phase = "running" /\ lost < Len(before.lines)
                     THEN lost + 1 ELSE lost
  /\ UNCHANGED <<phase, before, observation>>

\* dmesg is run; it may fail.
_read == {NoReading, [ok |-> TRUE, lines |-> ring]}

snapshot ==
  /\ phase = "idle"
  /\ before' \in _read
  /\ phase' = "running" /\ fresh' = 0 /\ lost' = 0
  /\ UNCHANGED <<ring, observation, logged>>

\* Deviations of overlap: the lines themselves are not compared; nothing that
\* was there before is taken off.
OverlapByLength(old, new) == IF Len(old) <= Len(new) THEN Len(old) ELSE Len(new)

OverlapNone(old, new) == 0

\* The longest end of the old reading that the new one begins with.
overlap(old, new) ==
  LET agreeing == {k \in 0..Len(old) :
                     /\ k <= Len(new)
                     /\ SubSeq(old, Len(old) - k + 1, Len(old)) = SubSeq(new, 1, k)}
  IN  CHOOSE k \in agreeing : \A j \in agreeing : j <= k

observe ==
  /\ phase = "running"
  /\ \E after \in _read :
       observation' =
         IF ~before.ok \/ ~after.ok THEN NoReading
         ELSE [ok |-> TRUE,
               lines |-> SubSeq(after.lines, overlap(before.lines, after.lines) + 1,
                                Len(after.lines))]
  /\ phase' = "observed"
  /\ UNCHANGED <<ring, before, logged, fresh, lost>>

\* The report is used, and another scenario may run.
Done ==
  /\ phase = "observed"
  /\ phase' = "idle" /\ before' = NoReading /\ observation' = NoReading
  /\ fresh' = 0 /\ lost' = 0
  /\ UNCHANGED <<ring, logged>>

KNext == (\E text \in Texts : Log(text)) \/ snapshot \/ observe \/ Done

KSpec == KInit /\ [][KNext]_kvars

-----------------------------------------------------------------------------
\* The warnings of a run that the ring still held when it was observed; lines
\* logged after that do not count, so the properties look at the step itself.
NewLines == SubSeq(ring, (IF fresh < Len(ring) THEN Len(ring) - fresh ELSE 0) + 1, Len(ring))

\* No line that was logged before the run is reported as a warning of the run,
\* also when the ring dropped lines and when lines repeat each other.
OnlyNewReported ==
  [][observe /\ observation'.ok =>
       \E k \in 0..Len(NewLines) :
         observation'.lines = SubSeq(NewLines, k + 1, Len(NewLines))]_kvars

\* Every new line still in the ring is reported if no old line was dropped, or
\* if the new lines say something else than the old ones.
NewReported ==
  [][observe /\ observation'.ok
       /\ (lost = 0 \/ \A i \in DOMAIN before.lines, j \in DOMAIN NewLines :
                         before.lines[i] # NewLines[j])
     => observation'.lines = NewLines]_kvars
=============================================================================

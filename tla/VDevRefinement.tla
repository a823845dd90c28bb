--------------------------- MODULE VDevRefinement ---------------------------
(***************************************************************************)
(* The threads of VDevCore implement the atomic device of VDevSpec.        *)
(***************************************************************************)
EXTENDS VDevCore, Sequences

\* The FIFO as others can observe it under its lock: RESET empties it in the
\* step in which it clears the fault, although the indices are stored later.
AbsFifo == IF Resetting THEN <<>>
           ELSE [i \in 1..kfifo_len |-> ByteAt(kout + i)]

\* A call is served in the step in which it takes effect; the wake-ups that
\* follow, and the way back to user space, change nothing the device holds.
Served == {"wake", "wakeread", "wakewrite", "reset", "reset2", "done"}

AbsPhase == [t \in Threads |-> IF pc[t] \in Served THEN "served"
                               ELSE IF pc[t] \in {"idle", "fifolock"} THEN "idle"
                               ELSE "called"]

AbsResult ==
  [t \in Threads |->
     [code |-> err[t],
      n    |-> IF t \in Readers \cup Writers /\ pc[t] \in Served
               THEN me[t].n ELSE 0,
      mask |-> IF t \in Pollers THEN poll[t].mask ELSE {}]]

Device == INSTANCE VDevSpec
            WITH fifo <- AbsFifo, phase <- AbsPhase, result <- AbsResult,
                 FaultRecords <- {Normalised(f) : f \in {g \in RawConfigs : Valid(g)}}
                                   \cup {NoFault}

\* Every call of the device takes effect atomically between its call and its
\* return, in some order all threads agree on: reads take from the front,
\* writes append, each EIO is used once, RESET clears fault and data together.
Linearizable == Device!Spec
=============================================================================

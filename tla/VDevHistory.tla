---------------------------- MODULE VDevHistory ----------------------------
(***************************************************************************)
(* VDevCore with a record, for every read and write in progress, of the    *)
(* fault types that were active at some instant of the call so far.  The   *)
(* faults change while calls are under way; the record is what relates the *)
(* outcome of a call to them.                                              *)
(***************************************************************************)
EXTENDS VDevCore

VARIABLE during

CONSTANT Observed     \* the reads and writes that are recorded

ASSUME ObservedAssumption == Observed \subseteq Readers \cup Writers

HInit == Init /\ during = [t \in Observed |-> {}]

\* The step that ends a call no longer adds to its record.
Witness ==
  during' = [t \in Observed |->
               IF pc'[t] = "idle" THEN {}
               ELSE IF pc'[t] = "done" THEN during[t]
               ELSE during[t] \cup {fault'.type}]

HNext == Next /\ Witness

HSpec == HInit /\ [][HNext]_<<vars, during>>

\* An error a fault causes is returned only if that fault was active during
\* the call, and never by a write unless it is the disconnect; a call that
\* saw nothing but an error fault returns its error; a read that saw nothing
\* but a partial-read fault keeps its limit.  Between these, a call that
\* overlaps a change of fault may complete under any state it met.
OutcomeExplained ==
  \A t \in Observed : pc[t] = "done" =>
    /\ err[t] = "EIO" => t \in Readers /\ "EIO" \in during[t]
    /\ err[t] = "ENODEV" => "DISCONNECT" \in during[t]
    /\ during[t] = {"DISCONNECT"} => err[t] = "ENODEV"
    /\ t \in Readers /\ during[t] = {"EIO"} => err[t] = "EIO"
    /\ t \in Readers /\ during[t] = {"PARTIAL_READ"} => me[t].n <= MaxPartialRead
=============================================================================

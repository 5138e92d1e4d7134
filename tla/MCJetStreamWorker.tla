------------------------- MODULE MCJetStreamWorker -------------------------
(***************************************************************************)
(* Instances of JetStreamWorker for TLC: messages on one operation id.     *)
(***************************************************************************)
EXTENDS JetStreamWorker

CONSTANTS m1, m2

\* m1 carries a request; m2 names the same operation for another subject.
MCOperationOf == [q \in Request |-> "op1"]
MCSubjectOf   == [q \in Request |-> IF q = "other" THEN "bob" ELSE "alice"]
MCRequestOf   == [m \in Message |-> IF m = m2 THEN "other" ELSE "first"]

=============================================================================

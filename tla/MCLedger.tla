------------------------------ MODULE MCLedger ------------------------------
(* Finite instances of Ledger: uuids and processes are interchangeable. *)
EXTENDS Ledger, TLC

UuidSymmetry == Permutations(Uuids) \cup Permutations(Procs)

\* Once transactions overlap, only histories of received documents, valid or
\* cancelled, are followed further.
Received(database) ==
  \A k \in Keys : database.ledger[k].status \in {"none", "vigente", "cancelado"}
                    /\ (k[2] = "issued" => database.ledger[k] = NoRow)
OverlapBound ==
  overlapped => Received(db) /\ \A p \in Procs : Received(tx[p].read) /\ Received(tx[p].result)
=============================================================================

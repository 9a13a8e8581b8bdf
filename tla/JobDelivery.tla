----------------------------- MODULE JobDelivery -----------------------------
(***************************************************************************)
(* What the queue between sync commands and workers promises, without      *)
(* files, database transactions, handlers or the order of messages: a job  *)
(* is published once, a worker holds one delivery at a time, a delivery is *)
(* given up only when the job is recorded and otherwise given back, and    *)
(* what is recorded stays recorded.  RecoveryJobs implements this.         *)
(***************************************************************************)
EXTENDS Integers

CONSTANTS Jobs, Workers

VARIABLES waiting,    \* [Jobs -> Nat], messages in the queue
          holds,      \* [Workers -> SUBSET Jobs], unacknowledged deliveries
          published,  \* jobs that were published
          recorded    \* jobs whose result is in the database

deliveryVars == <<waiting, holds, published, recorded>>

DeliveryInit ==
  /\ waiting = [j \in Jobs |-> 0]
  /\ holds = [w \in Workers |-> {}]
  /\ published = {} /\ recorded = {}

Publish(j) ==
  /\ j \notin published
  /\ published' = published \cup {j}
  /\ waiting' = [waiting EXCEPT ![j] = @ + 1]
  /\ UNCHANGED <<holds, recorded>>

Deliver(w, j) ==
  /\ waiting[j] > 0
  /\ holds[w] = {}
  /\ waiting' = [waiting EXCEPT ![j] = @ - 1]
  /\ holds' = [holds EXCEPT ![w] = {j}]
  /\ UNCHANGED <<published, recorded>>

GiveBack(w, j) ==
  /\ holds[w] = {j}
  /\ holds' = [holds EXCEPT ![w] = {}]
  /\ waiting' = [waiting EXCEPT ![j] = @ + 1]
  /\ UNCHANGED <<published, recorded>>

Settle(w, j) ==
  /\ holds[w] = {j}
  /\ j \in recorded
  /\ holds' = [holds EXCEPT ![w] = {}]
  /\ UNCHANGED <<waiting, published, recorded>>

Record(j) ==
  /\ j \notin recorded
  /\ recorded' = recorded \cup {j}
  /\ UNCHANGED <<waiting, holds, published>>

DeliveryNext ==
  \E j \in Jobs :
    \/ Publish(j) \/ Record(j)
    \/ \E w \in Workers : Deliver(w, j) \/ GiveBack(w, j) \/ Settle(w, j)

Delivery == DeliveryInit /\ [][DeliveryNext]_deliveryVars
=============================================================================

-------------------------- MODULE MCVerifyScheduler --------------------------
(* Finite instances of VerifyScheduler: the answers of the live verifier. *)
EXTENDS VerifyScheduler

\* One code per class the scheduler tells apart.
MCCodes == {"5000", "5004", "5001", "5008"}

\* What the live adapter can return: the action always follows EstadoSolicitud.
AdapterResults == {VerificationResult(s, c) : s \in RequestStates, c \in MCCodes}

\* What the verification port allows: code-driven actions with any state that does
\* not settle the request by itself.
PortResults ==
  AdapterResults \cup
  {[state |-> "error", code |-> "other", action |-> a] : a \in SatActions}
=============================================================================

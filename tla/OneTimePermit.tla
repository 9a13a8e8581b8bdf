---------------------------- MODULE OneTimePermit ----------------------------
(***************************************************************************)
(* What an operator may rely on about one-time permits, without documents, *)
(* files, gates or clocks: a permit is issued once, admits commands only   *)
(* until the first of them has spent it, is spent before anything is done  *)
(* under it and stays spent, and every command admitted does one thing at  *)
(* most.  LivePermit implements this for any number of commands; one that  *)
(* runs alone therefore uses its permit once.                              *)
(***************************************************************************)
EXTENDS Integers

CONSTANTS Permits, Commands

Phases == {"unissued", "valid", "spent"}

VARIABLES phase,    \* [Permits -> Phases]
          holders,  \* [Permits -> SUBSET Commands], commands admitted and not yet done
          used      \* [Permits -> Nat], operations carried out

permitVars == <<phase, holders, used>>

PermitInit ==
  /\ phase = [k \in Permits |-> "unissued"]
  /\ holders = [k \in Permits |-> {}]
  /\ used = [k \in Permits |-> 0]

Becomes(k, from, to) == phase[k] = from /\ phase' = [phase EXCEPT ![k] = to]

Issue(k) == Becomes(k, "unissued", "valid") /\ UNCHANGED <<holders, used>>

Admit(k, p) ==
  /\ phase[k] = "valid"
  /\ \A j \in Permits : p \notin holders[j]
  /\ holders' = [holders EXCEPT ![k] = @ \cup {p}]
  /\ UNCHANGED <<phase, used>>

Spend(k, p) ==
  /\ p \in holders[k]
  /\ Becomes(k, "valid", "spent")
  /\ UNCHANGED <<holders, used>>

Leave(k, p) ==
  /\ p \in holders[k]
  /\ holders' = [holders EXCEPT ![k] = @ \ {p}]
  /\ UNCHANGED <<phase, used>>

Use(k, p) ==
  /\ phase[k] = "spent"
  /\ p \in holders[k]
  /\ holders' = [holders EXCEPT ![k] = @ \ {p}]
  /\ used' = [used EXCEPT ![k] = @ + 1]
  /\ UNCHANGED phase

PermitNext ==
  \E k \in Permits : Issue(k) \/ \E p \in Commands : Admit(k, p) \/ Spend(k, p) \/ Leave(k, p) \/ Use(k, p)

OneTime == PermitInit /\ [][PermitNext]_permitVars
=============================================================================

-------------------------- MODULE RequestLifecycle --------------------------
(***************************************************************************)
(* What an operator may rely on about a live metadata request, without     *)
(* files, records, schedules or processes: SAT accepts it, it is on file   *)
(* and open, SAT is asked about it a limited number of times, it is        *)
(* settled once and for all, and if SAT has packages one of them is stored *)
(* before the request counts as downloaded.  VerifyScheduler implements    *)
(* this for one process at a time.                                         *)
(***************************************************************************)
EXTENDS Integers

CONSTANTS Requests, Packages, Budget

\* "closed": no data, rejected, expired, or given up; "ready": there are packages.
Phases == {"untracked", "open", "closed", "ready", "downloaded"}

VARIABLES phase,    \* [Requests -> Phases]
          asked,    \* [Requests -> Nat], questions SAT was asked
          evidence  \* [Requests -> SUBSET Packages], packages stored

lifecycleVars == <<phase, asked, evidence>>

LifecycleInit ==
  /\ phase \in [Requests -> {"untracked", "open"}]
  /\ asked = [r \in Requests |-> 0]
  /\ evidence = [r \in Requests |-> {}]

Becomes(r, from, to) == phase[r] = from /\ phase' = [phase EXCEPT ![r] = to]

Track(r) == Becomes(r, "untracked", "open") /\ UNCHANGED <<asked, evidence>>

Ask(r) ==
  /\ phase[r] = "open"
  /\ asked[r] < Budget
  /\ asked' = [asked EXCEPT ![r] = @ + 1]
  /\ UNCHANGED <<phase, evidence>>

Close(r) == Becomes(r, "open", "closed") /\ UNCHANGED <<asked, evidence>>

\* Only SAT knows that there are packages.
MakeReady(r) ==
  /\ asked[r] > 0
  /\ Becomes(r, "open", "ready")
  /\ UNCHANGED <<asked, evidence>>

StorePackage(r) ==
  /\ phase[r] = "ready"
  /\ \E k \in Packages : evidence' = [evidence EXCEPT ![r] = @ \cup {k}]
  /\ UNCHANGED <<phase, asked>>

Complete(r) ==
  /\ evidence[r] # {}
  /\ Becomes(r, "ready", "downloaded")
  /\ UNCHANGED <<asked, evidence>>

LifecycleNext ==
  \E r \in Requests : Track(r) \/ Ask(r) \/ Close(r) \/ MakeReady(r) \/ StorePackage(r) \/ Complete(r)

Lifecycle == LifecycleInit /\ [][LifecycleNext]_lifecycleVars
=============================================================================

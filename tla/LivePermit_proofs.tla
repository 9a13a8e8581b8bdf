------------------------- MODULE LivePermit_proofs -------------------------
(***************************************************************************)
(* Theorems about LivePermit, for every number of commands, permits,       *)
(* operations and environments, with races and crashes.                    *)
(***************************************************************************)
EXTENDS LivePermit, FiniteSetTheorems, TLAPS

USE PermitAssumption

-----------------------------------------------------------------------------
(* Types. *)

\* The place of a permit not yet created.
LEMMA NoDocumentType == NoDocument \in Document
BY DEF NoDocument, AnyQuery, Document, AllowedScopes, ProbeScopes, Optional

\* create_live_execution_permit writes a document.
LEMMA NewDocumentType ==
  ASSUME NEW scope \in AllowedScopes, NEW query \in Queries, NEW minutes \in Minutes,
         NEW variant \in Optional(Variants), NEW wcf \in Optional(Flags),
         NEW now \in Nat, NEW head \in Commits
  PROVE  NewDocument(scope, query, minutes, variant, wcf, now, head) \in Document
<1>1. RequestedVariant(scope, variant) \in Optional(Variants)
  BY DEF RequestedVariant, Optional, Variants, DefaultVariant
<1>2. RequestedWcf(scope, variant, wcf) \in Optional(Flags)
  BY DEF RequestedWcf, Optional, Flags
<1>3. now + minutes \in Int
  OBVIOUS
<1> QED
  BY <1>1, <1>2, <1>3 DEF NewDocument, Document

\* An idle process is a well-typed command.
LEMMA IdleType == Idle \in Exec
<1>1. NoInput \in GateInput
  BY DEF NoInput, GateInput
<1>2. NoDocument.repo \in Commits
  BY NoDocumentType DEF Document
<1>3. "auth-smoke" \in AllCommands
  BY DEF AllCommands, ScopeOf
<1>4. AnyQuery \in Queries
  BY DEF AnyQuery
<1> QED
  BY <1>1, <1>2, <1>3, <1>4, NoDocumentType DEF Idle, Exec, Steps

\* Ending a command keeps the type.
LEMMA QuitType ==
  ASSUME TypeOK, NEW p \in Procs, Quit(p) PROVE exec' \in [Procs -> Exec]
BY IdleType DEF Quit, TypeOK

\* Moving a command to another step keeps the type.
LEMMA GoToType ==
  ASSUME TypeOK, NEW p \in Procs, NEW step \in Steps, GoTo(p, step)
  PROVE  exec' \in [Procs -> Exec]
<1>1. exec[p] \in Exec
  BY DEF TypeOK
<1>2. [exec[p] EXCEPT !.step = step] \in Exec
  BY <1>1 DEF Exec
<1> QED
  BY <1>2 DEF GoTo, TypeOK

\* What the fields of a command and of a permit are.
LEMMA FieldTypes ==
  ASSUME TypeOK, NEW p \in Procs
  PROVE  /\ exec[p] \in Exec
         /\ exec[p].doc \in Document /\ exec[p].query \in Queries
         /\ HasPermit(p) => exec[p].permit \in PermitIds /\ permits[exec[p].permit] \in Document
BY DEF TypeOK, Exec, HasPermit

\* A command that works on a permit was started with one.
PermitGiven == \A p \in Procs : exec[p].step \in {"permit", "truncate", "write", "reload"} => HasPermit(p)

\* One step keeps the types.
LEMMA TypeStep == TypeOK /\ PermitGiven /\ [Next]_vars => TypeOK'
<1> SUFFICES ASSUME TypeOK, PermitGiven, [Next]_vars PROVE TypeOK'
  OBVIOUS
<1>1. ASSUME NEW k \in PermitIds, NEW scope \in AllowedScopes, NEW query \in Queries,
             NEW minutes \in Minutes, NEW variant \in Optional(Variants),
             NEW wcf \in Optional(Flags), CreatePermit(k, scope, query, minutes, variant, wcf)
      PROVE  TypeOK'
  <2>1. NewDocument(scope, query, minutes, variant, wcf, clock, repo) \in Document
    BY NewDocumentType DEF TypeOK
  <2> QED
    BY <1>1, <2>1 DEF CreatePermit, TypeOK
<1>2. ASSUME NEW p \in Procs, NEW cmd \in Commands, NEW query \in Queries,
             NEW k \in PermitIds \cup {NoPermit}, NEW in \in Inputs,
             StartCommand(p, cmd, query, k, in)
      PROVE  TypeOK'
  <2>1. [Idle EXCEPT !.step = IF k = NoPermit THEN "guard" ELSE "permit",
                     !.cmd = cmd, !.query = query, !.permit = k, !.input = in] \in Exec
    BY IdleType DEF Exec, Steps
  <2> QED
    BY <1>2, <2>1 DEF StartCommand, TypeOK
<1>3. ASSUME NEW p \in Procs, ReadPermit(p) PROVE TypeOK'
  <2> DEFINE doc == permits[exec[p].permit]
  <2>1. doc \in Document /\ exec[p] \in Exec
    BY <1>3, FieldTypes DEF ReadPermit, At, PermitGiven
  <2> DEFINE e == [exec[p] EXCEPT !.step = "truncate", !.doc = doc, !.time = clock, !.head = repo]
  <2>2. e \in Exec
    BY <2>1 DEF Exec, Steps, TypeOK
  <2>3. Quit(p) \/ exec' = [exec EXCEPT ![p] = e]
    BY <1>3 DEF ReadPermit
  <2>4. exec' \in [Procs -> Exec]
    BY <2>2, <2>3, QuitType DEF TypeOK
  <2> QED
    BY <1>3, <2>4 DEF ReadPermit, TypeOK
<1>4. ASSUME NEW p \in Procs, TruncatePermit(p) PROVE TypeOK'
  <2>1. exec[p].permit \in PermitIds /\ permits[exec[p].permit] \in Document
    BY <1>4, FieldTypes DEF TruncatePermit, At, PermitGiven
  <2>2. [permits[exec[p].permit] EXCEPT !.state = "torn"] \in Document
    BY <2>1 DEF Document
  <2>3. permits' \in [PermitIds -> Document]
    BY <1>4, <2>1, <2>2 DEF TruncatePermit, TypeOK
  <2>4. exec' \in [Procs -> Exec]
    BY <1>4, GoToType DEF TruncatePermit, Steps
  <2> QED
    BY <1>4, <2>3, <2>4 DEF TruncatePermit, TypeOK
<1>5. ASSUME NEW p \in Procs, WritePermit(p) PROVE TypeOK'
  <2>1. exec[p].permit \in PermitIds /\ exec[p].doc \in Document
    BY <1>5, FieldTypes DEF WritePermit, At, PermitGiven
  <2>2. [exec[p].doc EXCEPT !.consumed = TRUE] \in Document
    BY <2>1 DEF Document
  <2>3. permits' \in [PermitIds -> Document]
    BY <1>5, <2>1, <2>2 DEF WritePermit, TypeOK
  <2>4. exec' \in [Procs -> Exec]
    BY <1>5, GoToType DEF WritePermit, Steps
  <2> QED
    BY <1>5, <2>3, <2>4 DEF WritePermit, TypeOK
<1>6. ASSUME NEW p \in Procs, PassGuard(p) PROVE TypeOK'
  <2>1. GoTo(p, "reload") \/ GoTo(p, "live") \/ Quit(p)
    BY <1>6 DEF PassGuard
  <2>2. exec' \in [Procs -> Exec]
    BY <2>1, GoToType, QuitType DEF Steps
  <2> QED
    BY <1>6, <2>2 DEF PassGuard, TypeOK
<1>7. ASSUME NEW p \in Procs, ReloadPermit(p) PROVE TypeOK'
  <2>1. GoTo(p, "live") \/ Quit(p)
    BY <1>7 DEF ReloadPermit
  <2>2. exec' \in [Procs -> Exec]
    BY <2>1, GoToType, QuitType DEF Steps
  <2> QED
    BY <1>7, <2>2 DEF ReloadPermit, TypeOK
<1>8. ASSUME NEW p \in Procs, LiveOperation(p) PROVE TypeOK'
  <2>1. uses' \in [PermitIds -> Nat]
    BY <1>8, FieldTypes DEF LiveOperation, TypeOK
  <2> QED
    BY <1>8, <2>1, QuitType DEF LiveOperation, TypeOK
<1>9. ASSUME NEW p \in Procs, Crash(p) PROVE TypeOK'
  BY <1>9, QuitType DEF Crash, TypeOK
<1>10. CASE Checkout
  BY <1>10 DEF Checkout, TypeOK
<1>11. CASE Tick
  BY <1>11 DEF Tick, TypeOK
<1>12. CASE UNCHANGED vars
  BY <1>12 DEF vars, TypeOK
<1> QED
  BY <1>1, <1>2, <1>3, <1>4, <1>5, <1>6, <1>7, <1>8, <1>9, <1>10, <1>11, <1>12 DEF Next

-----------------------------------------------------------------------------
(* The invariant. *)

\* Two versions of one permit: they differ in state and consumed at most.
SameContent(d, e) ==
  /\ d.scope = e.scope /\ d.query = e.query /\ d.credentials = e.credentials
  /\ d.expires = e.expires /\ d.repo = e.repo /\ d.variant = e.variant /\ d.wcf = e.wcf

\* No reader can find the permit unconsumed.
Spent(doc) == doc.consumed \/ doc.state = "torn"

Loaded == {"truncate", "write", "guard", "reload", "live"}

\* What a command that has read its permit knows of it.
Holds(e, ps) ==
  /\ e.doc.state = "whole"
  /\ ps[e.permit].state # "absent"
  /\ SameContent(e.doc, ps[e.permit])
  /\ MatchesExpectation(e.cmd, e.query, e.doc)
  /\ StaticPolicy(e.doc)
  /\ e.time < e.doc.expires /\ e.head = e.doc.repo

\* A command e in an environment with permits ps is where the guard let it get.
Guarded(e, ps) ==
  /\ e.step \in {"permit", "truncate", "write", "reload"} => e.permit # NoPermit
  /\ e.permit # NoPermit /\ e.step \in Loaded => Holds(e, ps)
  /\ e.permit # NoPermit /\ e.step \in {"write", "guard", "reload", "live"} => Spent(ps[e.permit])
  /\ e.permit = NoPermit /\ e.step # "idle" => e.cmd \notin PermitRequired
  /\ e.step \in {"reload", "live"} =>
       ValidateLiveSatGuard(e.cmd, e.query, e.permit # NoPermit, e.doc.credentials, e.input)

\* A used permit is spent.
UsedIsSpent == \A k \in PermitIds : uses[k] > 0 => permits[k].state # "absent" /\ Spent(permits[k])

PermitInv ==
  /\ TypeOK
  /\ \A p \in Procs : Guarded(exec[p], permits)
  /\ UsedIsSpent
  /\ IssuedIsAcceptable

\* Documents evolve in one direction: they stay, keep their content and stay spent.
Evolves(ps, qs) ==
  \A k \in PermitIds : ps[k].state # "absent" =>
    /\ qs[k].state # "absent"
    /\ SameContent(ps[k], qs[k])
    /\ Spent(ps[k]) => Spent(qs[k])

\* What the guard has established of a command survives what others do to the permits.
LEMMA GuardedSurvives ==
  ASSUME NEW e \in Exec, NEW ps \in [PermitIds -> Document], NEW qs \in [PermitIds -> Document],
         Guarded(e, ps), Evolves(ps, qs)
  PROVE  Guarded(e, qs)
<1>1. e.permit # NoPermit => e.permit \in PermitIds
  BY DEF Exec
<1>2. e.permit # NoPermit /\ Holds(e, ps) => Holds(e, qs) /\ (Spent(ps[e.permit]) => Spent(qs[e.permit]))
  BY <1>1 DEF Holds, Evolves, SameContent
<1> HIDE DEF Holds, Evolves
<1>3. Loaded = {"truncate", "write", "guard", "reload", "live"}
  BY DEF Loaded
<1> QED
  BY <1>2, <1>3 DEF Guarded

\* An idle command claims nothing.
LEMMA IdleGuarded == ASSUME NEW ps PROVE Guarded(Idle, ps)
BY DEF Idle, Guarded, Loaded

\* Creation and use agree: what _validated_request lets through satisfies the static part
\* of _validate_document_policy.
LEMMA CreateUseAgree ==
  ASSUME NEW scope, NEW query, NEW minutes, NEW variant, NEW wcf, NEW now, NEW head,
         ValidatedRequest(scope, query, minutes, variant, wcf)
  PROVE  StaticPolicy(NewDocument(scope, query, minutes, variant, wcf, now, head))
<1>1. scope \in CredentialRequiredScopes \/ scope \in ProbeScopes
  BY DEF ValidatedRequest, AllowedScopes
<1>2. scope \in ProbeScopes => scope \notin CredentialRequiredScopes
  BY DEF ProbeScopes, CredentialRequiredScopes
<1> QED
  BY <1>1, <1>2 DEF ValidatedRequest, StaticPolicy, NewDocument

\* No step takes back a permit or changes its content.
LEMMA PermitsEvolve == PermitInv /\ [Next]_vars => Evolves(permits, permits')
<1> SUFFICES ASSUME PermitInv, [Next]_vars PROVE Evolves(permits, permits')
  OBVIOUS
<1>0. permits \in [PermitIds -> Document]
  BY DEF PermitInv, TypeOK
<1>1. CASE UNCHANGED permits
  BY <1>1 DEF Evolves, SameContent
<1>2. ASSUME NEW k \in PermitIds, NEW scope, NEW query, NEW minutes, NEW variant, NEW wcf,
             CreatePermit(k, scope, query, minutes, variant, wcf)
      PROVE  Evolves(permits, permits')
  BY <1>0, <1>2 DEF CreatePermit, Evolves, SameContent
<1>3. ASSUME NEW p \in Procs, TruncatePermit(p) PROVE Evolves(permits, permits')
  BY <1>0, <1>3 DEF TruncatePermit, Evolves, SameContent, Spent, Document
<1>4. ASSUME NEW p \in Procs, WritePermit(p) PROVE Evolves(permits, permits')
  <2>1. Holds(exec[p], permits) /\ exec[p].permit \in PermitIds /\ exec[p].doc \in Document
    BY <1>4, FieldTypes DEF WritePermit, At, PermitInv, Guarded, Loaded, HasPermit
  <2>2. [exec[p].doc EXCEPT !.consumed = TRUE].consumed
        /\ [exec[p].doc EXCEPT !.consumed = TRUE].state = "whole"
        /\ SameContent(permits[exec[p].permit], [exec[p].doc EXCEPT !.consumed = TRUE])
    BY <2>1 DEF Holds, SameContent, Document
  <2>3. permits' = [permits EXCEPT ![exec[p].permit] = [exec[p].doc EXCEPT !.consumed = TRUE]]
    BY <1>4 DEF WritePermit
  <2> QED
    BY <1>0, <2>1, <2>2, <2>3 DEF Evolves, SameContent, Spent
<1> QED
  BY <1>1, <1>2, <1>3, <1>4 DEF Next, vars, StartCommand, ReadPermit, PassGuard, ReloadPermit,
     LiveOperation, Crash, Checkout, Tick

\* Replacing one command by a guarded one.
LEMMA OthersGuarded ==
  ASSUME PermitInv, TypeOK', Evolves(permits, permits'), NEW p \in Procs, NEW e \in Exec,
         exec' = [exec EXCEPT ![p] = e], Guarded(e, permits')
  PROVE  \A q \in Procs : Guarded(exec'[q], permits')
<1> SUFFICES ASSUME NEW q \in Procs PROVE Guarded(exec'[q], permits')
  OBVIOUS
<1>1. CASE q = p
  BY <1>1 DEF PermitInv, TypeOK
<1>2. CASE q # p
  <2>1. exec'[q] = exec[q] /\ exec[q] \in Exec
    BY <1>2 DEF PermitInv, TypeOK
  <2>2. Guarded(exec[q], permits')
    BY <2>1, GuardedSurvives DEF PermitInv, TypeOK
  <2> QED
    BY <2>1, <2>2
<1> QED
  BY <1>1, <1>2

\* Ending a command leaves guarded commands.
LEMMA QuitGuarded ==
  ASSUME PermitInv, TypeOK', Evolves(permits, permits'), NEW p \in Procs, Quit(p)
  PROVE  \A q \in Procs : Guarded(exec'[q], permits')
BY IdleGuarded, IdleType, OthersGuarded DEF Quit

\* Commands are guarded after every step.
LEMMA GuardedStep ==
  ASSUME PermitInv, TypeOK', Evolves(permits, permits'), [Next]_vars
  PROVE  \A p \in Procs : Guarded(exec'[p], permits')
<1>1. CASE UNCHANGED exec
  BY <1>1, GuardedSurvives DEF PermitInv, TypeOK
<1>2. ASSUME NEW p \in Procs, Quit(p) PROVE \A q \in Procs : Guarded(exec'[q], permits')
  BY <1>2, QuitGuarded
<1>3. ASSUME NEW p \in Procs, NEW cmd \in Commands, NEW query \in Queries,
             NEW k \in PermitIds \cup {NoPermit}, NEW in \in Inputs,
             StartCommand(p, cmd, query, k, in)
      PROVE  \A q \in Procs : Guarded(exec'[q], permits')
  <2> DEFINE e == [Idle EXCEPT !.step = IF k = NoPermit THEN "guard" ELSE "permit",
                               !.cmd = cmd, !.query = query, !.permit = k, !.input = in]
  <2>1. e \in Exec
    BY IdleType DEF Exec, Steps
  <2>2. e.step = (IF k = NoPermit THEN "guard" ELSE "permit") /\ e.permit = k /\ e.cmd = cmd
    BY DEF Idle
  <2>3. cmd \in PermitRequired => k # NoPermit
    BY <1>3 DEF StartCommand
  <2>4. Guarded(e, permits')
    BY <2>2, <2>3 DEF Guarded, Loaded
  <2>5. exec' = [exec EXCEPT ![p] = e]
    BY <1>3 DEF StartCommand
  <2> QED
    BY <2>1, <2>4, <2>5, OthersGuarded
<1>4. ASSUME NEW p \in Procs, ReadPermit(p)
      PROVE  \A q \in Procs : Guarded(exec'[q], permits')
  <2> DEFINE doc == permits[exec[p].permit]
             e == [exec[p] EXCEPT !.step = "truncate", !.doc = doc, !.time = clock, !.head = repo]
  <2>1. exec[p].permit # NoPermit /\ Guarded(exec[p], permits)
    BY <1>4 DEF ReadPermit, At, PermitInv, Guarded
  <2>2. doc \in Document /\ exec[p] \in Exec
    BY <2>1, FieldTypes DEF PermitInv, HasPermit
  <2>3. e \in Exec
    BY <2>2 DEF Exec, Steps, PermitInv, TypeOK
  <2>4. CASE ~Quit(p)
    <3>1. /\ doc.state = "whole"
          /\ MatchesExpectation(exec[p].cmd, exec[p].query, doc)
          /\ ValidateDocumentPolicy(doc, clock, repo)
          /\ exec' = [exec EXCEPT ![p] = e]
          /\ permits' = permits
      BY <1>4, <2>4 DEF ReadPermit
    <3>2. /\ e.step = "truncate" /\ e.doc = doc /\ e.time = clock /\ e.head = repo
          /\ e.cmd = exec[p].cmd /\ e.query = exec[p].query /\ e.permit = exec[p].permit
      BY <2>2 DEF Exec
    <3>3. clock < doc.expires /\ doc.repo = repo /\ StaticPolicy(doc)
      BY <3>1, <2>2 DEF ValidateDocumentPolicy, Document, PermitInv, TypeOK
    <3> HIDE DEF e, doc
    <3>4. SameContent(doc, doc)
      BY DEF SameContent
    <3>5. Holds(e, permits')
      BY <3>1, <3>2, <3>3, <3>4 DEF Holds, doc
    <3>6. Guarded(e, permits')
      BY <2>1, <3>2, <3>5 DEF Guarded
    <3> QED
      BY <2>3, <3>1, <3>6, OthersGuarded DEF e
  <2> QED
    BY <1>2, <2>4
<1>5. ASSUME NEW p \in Procs, TruncatePermit(p)
      PROVE  \A q \in Procs : Guarded(exec'[q], permits')
  <2> DEFINE e == [exec[p] EXCEPT !.step = "write"]
  <2>1. exec[p] \in Exec /\ Guarded(exec[p], permits') /\ exec[p].step = "truncate"
    BY <1>5, GuardedSurvives DEF TruncatePermit, At, PermitInv, TypeOK
  <2>2. e \in Exec /\ e.step = "write" /\ e.permit = exec[p].permit /\ e.doc = exec[p].doc
        /\ e.cmd = exec[p].cmd /\ e.query = exec[p].query /\ e.time = exec[p].time
        /\ e.head = exec[p].head
    BY <2>1 DEF Exec, Steps
  <2>3. exec' = [exec EXCEPT ![p] = e]
    BY <1>5 DEF TruncatePermit, GoTo
  <2> HIDE DEF e
  <2>4. exec[p].permit \in PermitIds
    BY <2>1, FieldTypes DEF Guarded, PermitInv, HasPermit
  <2>5. permits'[exec[p].permit].state = "torn"
    BY <1>5, <2>4 DEF TruncatePermit, PermitInv, TypeOK, Document
  <2>6. Guarded(e, permits')
    BY <2>1, <2>2, <2>5 DEF Guarded, Holds, Loaded, Spent
  <2> QED
    BY <2>2, <2>3, <2>6, OthersGuarded
<1>6. ASSUME NEW p \in Procs, WritePermit(p)
      PROVE  \A q \in Procs : Guarded(exec'[q], permits')
  <2> DEFINE e == [exec[p] EXCEPT !.step = "guard"]
  <2>1. exec[p] \in Exec /\ Guarded(exec[p], permits') /\ exec[p].step = "write"
    BY <1>6, GuardedSurvives DEF WritePermit, At, PermitInv, TypeOK
  <2>2. e \in Exec /\ e.step = "guard" /\ e.permit = exec[p].permit /\ e.doc = exec[p].doc
        /\ e.cmd = exec[p].cmd /\ e.query = exec[p].query /\ e.time = exec[p].time
        /\ e.head = exec[p].head
    BY <2>1 DEF Exec, Steps
  <2>3. exec' = [exec EXCEPT ![p] = e]
    BY <1>6 DEF WritePermit, GoTo
  <2>4. exec[p].permit # NoPermit
    BY <2>1 DEF Guarded
  <2>5. exec[p].permit \in PermitIds /\ exec[p].doc \in Document
    BY <2>4, FieldTypes DEF PermitInv, HasPermit
  <2>6. permits'[exec[p].permit].consumed
    BY <1>6, <2>5 DEF WritePermit, PermitInv, TypeOK, Document
  <2> HIDE DEF e
  <2>7. Guarded(e, permits')
    BY <2>1, <2>2, <2>4, <2>6 DEF Guarded, Holds, Loaded, Spent
  <2> QED
    BY <2>2, <2>3, <2>7, OthersGuarded
<1>7. ASSUME NEW p \in Procs, PassGuard(p)
      PROVE  \A q \in Procs : Guarded(exec'[q], permits')
  <2>1. CASE ~Quit(p)
    <3> DEFINE next == IF exec[p].cmd = "auth-smoke" /\ HasPermit(p) THEN "reload" ELSE "live"
               e == [exec[p] EXCEPT !.step = next]
    <3>1. exec[p] \in Exec /\ Guarded(exec[p], permits') /\ exec[p].step = "guard"
      BY <1>7, GuardedSurvives DEF PassGuard, At, PermitInv, TypeOK
    <3>2. /\ ValidateLiveSatGuard(exec[p].cmd, exec[p].query, exec[p].permit # NoPermit,
                                  exec[p].doc.credentials, exec[p].input)
          /\ exec' = [exec EXCEPT ![p] = e]
      BY <1>7, <2>1 DEF PassGuard, GoTo, HasPermit
    <3>3. /\ e \in Exec /\ e.step = next /\ e.permit = exec[p].permit /\ e.doc = exec[p].doc
          /\ e.cmd = exec[p].cmd /\ e.query = exec[p].query /\ e.time = exec[p].time
          /\ e.head = exec[p].head /\ e.input = exec[p].input
      BY <3>1 DEF Exec, Steps
    <3>4. next \in {"reload", "live"} /\ (next = "reload" => exec[p].permit # NoPermit)
      BY DEF HasPermit
    <3> HIDE DEF e, next
    <3>5. Guarded(e, permits')
      BY <3>1, <3>2, <3>3, <3>4 DEF Guarded, Holds, Loaded
    <3> QED
      BY <3>2, <3>3, <3>5, OthersGuarded
  <2> QED
    BY <1>2, <2>1
<1>8. ASSUME NEW p \in Procs, ReloadPermit(p)
      PROVE  \A q \in Procs : Guarded(exec'[q], permits')
  <2>1. CASE ~Quit(p)
    <3> DEFINE e == [exec[p] EXCEPT !.step = "live"]
    <3>1. exec[p] \in Exec /\ Guarded(exec[p], permits') /\ exec[p].step = "reload"
      BY <1>8, GuardedSurvives DEF ReloadPermit, At, PermitInv, TypeOK
    <3>2. exec' = [exec EXCEPT ![p] = e]
      BY <1>8, <2>1 DEF ReloadPermit, GoTo
    <3>3. /\ e \in Exec /\ e.step = "live" /\ e.permit = exec[p].permit /\ e.doc = exec[p].doc
          /\ e.cmd = exec[p].cmd /\ e.query = exec[p].query /\ e.time = exec[p].time
          /\ e.head = exec[p].head /\ e.input = exec[p].input
      BY <3>1 DEF Exec, Steps
    <3> HIDE DEF e
    <3>4. Guarded(e, permits')
      BY <3>1, <3>3 DEF Guarded, Holds, Loaded
    <3> QED
      BY <3>2, <3>3, <3>4, OthersGuarded
  <2> QED
    BY <1>2, <2>1
<1>9. ASSUME NEW k, NEW scope, NEW query, NEW minutes, NEW variant, NEW wcf,
             CreatePermit(k, scope, query, minutes, variant, wcf)
      PROVE  UNCHANGED exec
  BY <1>9 DEF CreatePermit
<1> QED
  BY <1>1, <1>2, <1>3, <1>4, <1>5, <1>6, <1>7, <1>8, <1>9
     DEF Next, vars, LiveOperation, Crash, Checkout, Tick

\* A permit that was used stays spent, and only a spent one is used.
LEMMA UsedIsSpentStep ==
  ASSUME PermitInv, TypeOK', Evolves(permits, permits'), [Next]_vars
  PROVE  UsedIsSpent'
<1>1. CASE UNCHANGED uses
  BY <1>1 DEF PermitInv, UsedIsSpent, Evolves
<1>2. ASSUME NEW p \in Procs, LiveOperation(p) PROVE UsedIsSpent'
  <2> SUFFICES ASSUME NEW k \in PermitIds, uses'[k] > 0
               PROVE  permits[k].state # "absent" /\ Spent(permits[k])
    BY <1>2 DEF LiveOperation, UsedIsSpent
  <2>1. CASE exec[p].permit = k
    <3>1. Holds(exec[p], permits) /\ Spent(permits[k])
      BY <1>2, <2>1 DEF LiveOperation, At, PermitInv, Guarded, Loaded
    <3> QED
      BY <2>1, <3>1 DEF Holds
  <2>2. CASE exec[p].permit # k
    <3>1. uses'[k] = uses[k]
      BY <1>2, <2>2, FieldTypes DEF LiveOperation, PermitInv, TypeOK
    <3> QED
      BY <3>1 DEF PermitInv, UsedIsSpent
  <2> QED
    BY <2>1, <2>2
<1> QED
  BY <1>1, <1>2 DEF Next, vars, CreatePermit, StartCommand, ReadPermit, TruncatePermit,
     WritePermit, PassGuard, ReloadPermit, Crash, Checkout, Tick

\* The static policy only looks at the content of a document.
LEMMA PolicyOfContent ==
  ASSUME NEW d, NEW e, SameContent(d, e), StaticPolicy(d) PROVE StaticPolicy(e)
BY DEF SameContent, StaticPolicy

\* A permit that was absent before a step and is there after it was created by it.
LEMMA OnlyCreated ==
  ASSUME PermitInv, [Next]_vars, NEW k \in PermitIds,
         permits[k].state = "absent", permits'[k].state # "absent"
  PROVE  StaticPolicy(permits'[k])
<1>0. permits \in [PermitIds -> Document]
  BY DEF PermitInv, TypeOK
<1>1. CASE UNCHANGED permits
  BY <1>1
<1>2. ASSUME NEW j \in PermitIds, NEW scope, NEW query, NEW minutes, NEW variant, NEW wcf,
             CreatePermit(j, scope, query, minutes, variant, wcf)
      PROVE  StaticPolicy(permits'[k])
  <2>1. j = k
    BY <1>0, <1>2 DEF CreatePermit
  <2>2. permits'[k] = NewDocument(scope, query, minutes, variant, wcf, clock, repo)
    BY <1>0, <1>2, <2>1 DEF CreatePermit
  <2>3. ValidatedRequest(scope, query, minutes, variant, wcf)
    BY <1>2 DEF CreatePermit
  <2> QED
    BY <2>2, <2>3, CreateUseAgree
<1>3. ASSUME NEW p \in Procs, TruncatePermit(p) \/ WritePermit(p) PROVE FALSE
  <2>1. Holds(exec[p], permits) /\ exec[p].permit \in PermitIds
    BY <1>3, FieldTypes DEF TruncatePermit, WritePermit, At, PermitInv, Guarded, Loaded, HasPermit
  <2>2. k # exec[p].permit
    BY <2>1 DEF Holds
  <2>3. permits'[k] = permits[k]
    BY <1>0, <1>3, <2>2 DEF TruncatePermit, WritePermit
  <2> QED
    BY <2>3
<1> QED
  BY <1>1, <1>2, <1>3 DEF Next, vars, StartCommand, ReadPermit, PassGuard, ReloadPermit,
     LiveOperation, Crash, Checkout, Tick

\* Every step leaves permits that the policy accepts.
LEMMA AcceptableStep ==
  ASSUME PermitInv, Evolves(permits, permits'), [Next]_vars PROVE IssuedIsAcceptable'
<1> SUFFICES ASSUME NEW k \in PermitIds, permits'[k].state # "absent"
             PROVE  StaticPolicy(permits'[k])
  BY DEF IssuedIsAcceptable
<1>1. CASE permits[k].state = "absent"
  BY <1>1, OnlyCreated
<1>2. CASE permits[k].state # "absent"
  BY <1>2, PolicyOfContent DEF Evolves, PermitInv, IssuedIsAcceptable
<1> QED
  BY <1>1, <1>2

\* The invariant holds initially ...
LEMMA PermitInvInit == Init => PermitInv
<1> SUFFICES ASSUME Init PROVE PermitInv
  OBVIOUS
<1>1. TypeOK
  BY NoDocumentType, IdleType DEF Init, TypeOK
<1>2. \A p \in Procs : Guarded(exec[p], permits)
  BY IdleGuarded DEF Init
<1>3. UsedIsSpent
  BY DEF Init, UsedIsSpent
<1>4. IssuedIsAcceptable
  BY DEF Init, IssuedIsAcceptable, NoDocument
<1> QED
  BY <1>1, <1>2, <1>3, <1>4 DEF PermitInv

\* ... and every step keeps it.
LEMMA PermitInvStep == PermitInv /\ [Next]_vars => PermitInv'
<1> SUFFICES ASSUME PermitInv, [Next]_vars PROVE PermitInv'
  OBVIOUS
<1>1. PermitGiven
  BY DEF PermitInv, Guarded, PermitGiven, HasPermit
<1>2. TypeOK'
  BY <1>1, TypeStep DEF PermitInv
<1>3. Evolves(permits, permits')
  BY PermitsEvolve
<1>4. (\A p \in Procs : Guarded(exec[p], permits))'
  BY <1>2, <1>3, GuardedStep
<1>5. UsedIsSpent'
  BY <1>2, <1>3, UsedIsSpentStep
<1>6. IssuedIsAcceptable'
  BY <1>3, AcceptableStep
<1> QED
  BY <1>2, <1>4, <1>5, <1>6 DEF PermitInv

-----------------------------------------------------------------------------
(* What the invariant says of the properties. *)

\* Spent permits: used ones by UsedIsSpent, those of commands past the write by Guarded.
LEMMA InvConsumed == PermitInv => ConsumedBeforeUse
BY DEF PermitInv, UsedIsSpent, Guarded, Spent, ConsumedBeforeUse

\* A command at "live" has passed validate_live_sat_guard, and its permit still is the
\* one it has read.
LEMMA InvAuthorised == PermitInv => LiveIsAuthorised
<1> SUFFICES ASSUME PermitInv, NEW p \in Procs, At(p, "live") PROVE
    LET e == exec[p]
        needsCredentials == ScopeOf[e.cmd] \in CredentialRequiredScopes
    IN  /\ ~e.input.ci /\ e.input.ready
        /\ e.cmd \notin PeriodFromPermit => e.query.kind = "metadata"
        /\ IF HasPermit(p)
           THEN LET doc == permits[e.permit] IN
                /\ doc.scope = ScopeOf[e.cmd]
                /\ doc.query.profile = e.query.profile
                /\ e.cmd \notin PeriodFromPermit => doc.query = e.query /\ e.query.days \in 1..7
                /\ needsCredentials => doc.credentials
                /\ e.time < doc.expires /\ e.head = doc.repo
           ELSE /\ e.cmd \notin PermitRequired
                /\ e.input.manual /\ e.input.confirmed /\ e.input.allowSat
                /\ needsCredentials => e.input.allowCredentials
                /\ e.cmd \notin PeriodFromPermit => e.query.days = 1
  BY DEF LiveIsAuthorised
<1> DEFINE e == exec[p]
<1>1. ValidateLiveSatGuard(e.cmd, e.query, e.permit # NoPermit, e.doc.credentials, e.input)
  BY DEF PermitInv, Guarded, At
<1>2. CASE HasPermit(p)
  <2>1. Holds(e, permits)
    BY <1>2 DEF PermitInv, Guarded, At, HasPermit, Loaded
  <2>2. e.query \in Queries /\ e.doc \in Document
    BY FieldTypes DEF PermitInv
  <2>3. e.cmd \notin PeriodFromPermit => e.query.days \in 1..7
    <3> SUFFICES ASSUME e.cmd \notin PeriodFromPermit PROVE e.query.days \in 1..7
      OBVIOUS
    <3>1. e.doc.query = e.query /\ ValidRange(e.doc.scope, e.doc.query.days)
      BY <2>1 DEF Holds, MatchesExpectation, StaticPolicy
    <3>2. e.query.days \in Int
      BY <2>2
    <3> QED
      BY <3>1, <3>2 DEF ValidRange, MaxRangeDays
  <2>4. ScopeOf[e.cmd] \in CredentialRequiredScopes => e.doc.credentials
    BY <2>1 DEF Holds, MatchesExpectation, StaticPolicy
  <2> HIDE DEF e
  <2>5. /\ ~e.input.ci /\ e.input.ready
        /\ e.cmd \notin PeriodFromPermit => e.query.kind = "metadata"
    BY <1>1 DEF ValidateLiveSatGuard
  <2>6. /\ permits[e.permit].scope = ScopeOf[e.cmd]
        /\ permits[e.permit].query.profile = e.query.profile
        /\ e.cmd \notin PeriodFromPermit => permits[e.permit].query = e.query
        /\ permits[e.permit].credentials = e.doc.credentials
        /\ e.time < permits[e.permit].expires /\ e.head = permits[e.permit].repo
    BY <2>1 DEF Holds, SameContent, MatchesExpectation
  <2> QED
    BY <1>2, <2>3, <2>4, <2>5, <2>6 DEF e
<1>3. CASE ~HasPermit(p)
  <2>1. e.permit = NoPermit /\ e.cmd \notin PermitRequired
    BY <1>3 DEF PermitInv, Guarded, At, HasPermit
  <2>2. e.cmd \notin WeekCommands
    BY <2>1 DEF PermitRequired, ManualRequired, WeekCommands
  <2> HIDE DEF e
  <2>3. /\ ~e.input.ci /\ e.input.ready /\ e.input.manual /\ e.input.confirmed /\ e.input.allowSat
        /\ ScopeOf[e.cmd] \in CredentialRequiredScopes => e.input.allowCredentials
        /\ e.cmd \notin PeriodFromPermit => e.query.kind = "metadata" /\ e.query.days = 1
    BY <1>1, <2>1, <2>2 DEF ValidateLiveSatGuard, RangeWithinLimit
  <2> QED
    BY <1>3, <2>1, <2>3 DEF e
<1> QED
  BY <1>2, <1>3

-----------------------------------------------------------------------------
(* One command at a time. *)

OneCommand == \A p, q \in Procs : p = q

\* Nothing was done yet under the permit of a command that has read it.
Unused ==
  \A p \in Procs : HasPermit(p) /\ exec[p].step \in Loaded => uses[exec[p].permit] = 0

OneUseInv == OneCommand /\ PermitInv /\ Unused /\ OneUsePerPermit

\* The command that reads a permit finds it unconsumed, so it was not used before.
LEMMA ReadIsUnused ==
  ASSUME PermitInv, NEW p \in Procs, ReadPermit(p), ~Quit(p)
  PROVE  HasPermit(p) /\ uses[exec[p].permit] = 0
<1> DEFINE doc == permits[exec[p].permit]
<1>1. doc.state = "whole" /\ ~doc.consumed
  BY DEF ReadPermit, ValidateDocumentPolicy
<1>2. HasPermit(p)
  BY DEF ReadPermit, At, PermitInv, Guarded, HasPermit
<1>3. exec[p].permit \in PermitIds /\ uses[exec[p].permit] \in Nat
  BY <1>2, FieldTypes DEF PermitInv, TypeOK
<1> QED
  BY <1>1, <1>2, <1>3 DEF PermitInv, UsedIsSpent, Spent

\* The one command there is keeps the bound.
LEMMA OneUseStep == OneUseInv /\ [Next]_vars => OneUseInv'
<1> SUFFICES ASSUME OneUseInv, [Next]_vars PROVE Unused' /\ OneUsePerPermit'
  BY PermitInvStep DEF OneUseInv, OneCommand
<1>0. OneCommand /\ PermitInv /\ TypeOK /\ Unused /\ OneUsePerPermit
  BY DEF OneUseInv, PermitInv
<1>1. ASSUME NEW p \in Procs, exec' = [exec EXCEPT ![p] = Idle] PROVE Unused'
  <2>1. exec'[p] = Idle /\ \A q \in Procs : q = p
    BY <1>0, <1>1 DEF OneCommand, TypeOK
  <2> QED
    BY <2>1 DEF Unused, HasPermit, Idle
<1>2. ASSUME NEW p \in Procs, Quit(p), uses' = uses PROVE Unused' /\ OneUsePerPermit'
  BY <1>0, <1>1, <1>2 DEF Quit, OneUsePerPermit
<1>3. ASSUME NEW p \in Procs, LiveOperation(p) PROVE Unused' /\ OneUsePerPermit'
  <2>1. Unused'
    BY <1>1, <1>3 DEF LiveOperation, Quit
  <2>2. CASE HasPermit(p)
    <3>1. uses[exec[p].permit] = 0 /\ exec[p].permit \in PermitIds
      BY <1>0, <1>3, <2>2, FieldTypes DEF LiveOperation, At, Unused, Loaded
    <3>2. uses' = [uses EXCEPT ![exec[p].permit] = 1]
      BY <1>3, <2>2, <3>1 DEF LiveOperation
    <3> QED
      BY <1>0, <2>1, <3>1, <3>2 DEF OneUsePerPermit, TypeOK
  <2>3. CASE ~HasPermit(p)
    BY <1>0, <1>3, <2>1, <2>3 DEF LiveOperation, OneUsePerPermit
  <2> QED
    BY <2>2, <2>3
<1>4. ASSUME NEW p \in Procs, NEW cmd, NEW query, NEW k, NEW in, StartCommand(p, cmd, query, k, in)
      PROVE  Unused' /\ OneUsePerPermit'
  <2> DEFINE e == [Idle EXCEPT !.step = IF k = NoPermit THEN "guard" ELSE "permit",
                               !.cmd = cmd, !.query = query, !.permit = k, !.input = in]
  <2>1. e.step = (IF k = NoPermit THEN "guard" ELSE "permit") /\ e.permit = k
    BY DEF Idle
  <2>2. exec' = [exec EXCEPT ![p] = e] /\ uses' = uses
    BY <1>4 DEF StartCommand
  <2> HIDE DEF e
  <2>3. exec'[p] = e /\ \A q \in Procs : q = p
    BY <1>0, <2>2 DEF OneCommand, TypeOK
  <2> QED
    BY <1>0, <2>1, <2>2, <2>3 DEF Unused, HasPermit, Loaded, OneUsePerPermit
<1>5. ASSUME NEW p \in Procs, ReadPermit(p) PROVE Unused' /\ OneUsePerPermit'
  <2>1. CASE ~Quit(p)
    <3>1. exec[p] \in Exec /\ uses' = uses /\ \A q \in Procs : q = p
      BY <1>0, <1>5, FieldTypes DEF ReadPermit, OneCommand
    <3> DEFINE e == [exec[p] EXCEPT !.step = "truncate", !.doc = permits[exec[p].permit],
                                    !.time = clock, !.head = repo]
    <3>2. e.permit = exec[p].permit
      BY <3>1 DEF Exec
    <3>3. exec' = [exec EXCEPT ![p] = e]
      BY <1>5, <2>1 DEF ReadPermit
    <3> HIDE DEF e
    <3>4. exec'[p] = e
      BY <1>0, <3>3 DEF TypeOK
    <3>5. uses[exec[p].permit] = 0
      BY <1>0, <1>5, <2>1, ReadIsUnused
    <3> QED
      BY <1>0, <3>1, <3>2, <3>4, <3>5 DEF Unused, OneUsePerPermit
  <2> QED
    BY <1>2, <1>5, <2>1 DEF ReadPermit
<1>6. ASSUME NEW p \in Procs, NEW s, GoTo(p, s), exec[p].step \in Loaded, uses' = uses
      PROVE  Unused' /\ OneUsePerPermit'
  <2>1. exec[p] \in Exec /\ \A q \in Procs : q = p
    BY <1>0, FieldTypes DEF OneCommand
  <2>2. exec'[p].permit = exec[p].permit
    BY <1>0, <1>6, <2>1 DEF GoTo, TypeOK, Exec
  <2> QED
    BY <1>0, <1>6, <2>1, <2>2 DEF Unused, HasPermit, OneUsePerPermit
<1>7. ASSUME NEW p \in Procs, TruncatePermit(p) \/ WritePermit(p) PROVE Unused' /\ OneUsePerPermit'
  BY <1>6, <1>7 DEF TruncatePermit, WritePermit, At, Loaded
<1>8. ASSUME NEW p \in Procs, PassGuard(p) \/ ReloadPermit(p) PROVE Unused' /\ OneUsePerPermit'
  BY <1>2, <1>6, <1>8 DEF PassGuard, ReloadPermit, At, Loaded
<1>9. CASE UNCHANGED <<exec, uses>>
  BY <1>0, <1>9 DEF Unused, HasPermit, OneUsePerPermit
<1>10. ASSUME NEW k, NEW scope, NEW query, NEW minutes, NEW variant, NEW wcf,
              CreatePermit(k, scope, query, minutes, variant, wcf)
       PROVE  UNCHANGED <<exec, uses>>
  BY <1>10 DEF CreatePermit
<1>11. ASSUME NEW p \in Procs, Crash(p) PROVE Unused' /\ OneUsePerPermit'
  BY <1>2, <1>11 DEF Crash
<1> QED
  BY <1>3, <1>4, <1>5, <1>7, <1>8, <1>9, <1>10, <1>11 DEF Next, vars, Checkout, Tick

-----------------------------------------------------------------------------
(* The promise of a one-time permit, for any number of overlapping commands. *)

phases == [k \in PermitIds |-> PhaseOf(permits[k])]
holding == [k \in PermitIds |-> HoldersOf(k)]

\* Whom a step of p leaves with a permit: all others keep theirs.
LEMMA HoldersAfter ==
  ASSUME TypeOK, NEW p \in Procs, NEW e, exec' = [exec EXCEPT ![p] = e], NEW k \in PermitIds
  PROVE  HoldersOf(k)' = IF e.permit = k /\ e.step \in Loaded THEN HoldersOf(k) \cup {p}
                         ELSE HoldersOf(k) \ {p}
<1>1. exec'[p] = e /\ \A q \in Procs \ {p} : exec'[q] = exec[q]
  BY DEF TypeOK
<1> QED
  BY <1>1 DEF HoldersOf, Loaded

\* A command that goes on holds what it held.
LEMMA MoveKeeps ==
  ASSUME TypeOK, NEW p \in Procs, NEW e, exec' = [exec EXCEPT ![p] = e],
         e.permit = exec[p].permit, e.step \in Loaded <=> exec[p].step \in Loaded
  PROVE  holding' = holding
<1>1. ASSUME NEW k \in PermitIds PROVE HoldersOf(k)' = HoldersOf(k)
  <2>1. p \in HoldersOf(k) <=> e.permit = k /\ e.step \in Loaded
    BY DEF HoldersOf, Loaded
  <2>2. HoldersOf(k)' = IF p \in HoldersOf(k) THEN HoldersOf(k) \cup {p} ELSE HoldersOf(k) \ {p}
    BY <2>1, HoldersAfter
  <2> QED
    BY <2>2
<1> QED
  BY <1>1 DEF holding

\* A command that moves from one step of its work under a permit to another.
LEMMA GoKeeps ==
  ASSUME TypeOK, NEW p \in Procs, NEW step \in Loaded, GoTo(p, step), exec[p].step \in Loaded
  PROVE  holding' = holding
<1> DEFINE e == [exec[p] EXCEPT !.step = step]
<1>1. e.step = step /\ e.permit = exec[p].permit
  BY FieldTypes DEF Exec
<1>2. exec' = [exec EXCEPT ![p] = e]
  BY DEF GoTo
<1> HIDE DEF e
<1> QED
  BY <1>1, <1>2, MoveKeeps

\* No command holds two permits.
LEMMA OneHolding ==
  ASSUME NEW p \in Procs, NEW k \in PermitIds, p \in HoldersOf(k), NEW j \in PermitIds, j # k
  PROVE  p \notin HoldersOf(j)
BY DEF HoldersOf

\* A command that ends gives back the permit it held, if any.
LEMMA QuitLeaves ==
  ASSUME TypeOK, NEW p \in Procs, Quit(p)
  PROVE  /\ \A k \in PermitIds : p \in HoldersOf(k) => holding' = [holding EXCEPT ![k] = @ \ {p}]
         /\ (\A k \in PermitIds : p \notin HoldersOf(k)) => holding' = holding
<1>1. ASSUME NEW k \in PermitIds PROVE HoldersOf(k)' = HoldersOf(k) \ {p}
  <2>1. Idle.step \notin Loaded
    BY DEF Idle, Loaded
  <2>2. exec' = [exec EXCEPT ![p] = Idle]
    BY DEF Quit
  <2> QED
    BY <2>1, <2>2, HoldersAfter
<1>2. \A k, j \in PermitIds : p \in HoldersOf(k) /\ j # k => HoldersOf(j) \ {p} = HoldersOf(j)
  BY OneHolding
<1>3. (\A k \in PermitIds : p \notin HoldersOf(k)) => \A k \in PermitIds : HoldersOf(k) \ {p} = HoldersOf(k)
  OBVIOUS
<1> QED
  BY <1>1, <1>2, <1>3 DEF holding

\* A command that ends, and changes nothing else, leaves its permit or had none.
LEMMA QuitIsPermitStep ==
  ASSUME TypeOK, NEW p \in Procs, Quit(p), UNCHANGED <<permits, uses>>
  PROVE  Promise!PermitNext \/ UNCHANGED Promise!permitVars
<1>1. phases' = phases
  BY DEF phases
<1>2. ASSUME NEW k \in PermitIds, p \in HoldersOf(k) PROVE Promise!Leave(k, p)
  BY <1>1, <1>2, QuitLeaves DEF Promise!Leave, phases, holding
<1>3. CASE \A k \in PermitIds : p \notin HoldersOf(k)
  BY <1>1, <1>3, QuitLeaves DEF Promise!permitVars, phases, holding
<1> QED
  BY <1>2, <1>3 DEF Promise!PermitNext

\* live-permit create issues a permit.
LEMMA CreateIsPermitStep ==
  ASSUME TypeOK, NEW k \in PermitIds, NEW scope, NEW query, NEW minutes, NEW variant, NEW wcf,
         CreatePermit(k, scope, query, minutes, variant, wcf)
  PROVE  Promise!Issue(k)
<1> DEFINE d == NewDocument(scope, query, minutes, variant, wcf, clock, repo)
<1>1. d.state = "whole" /\ ~d.consumed
  BY DEF NewDocument
<1>2. permits' = [permits EXCEPT ![k] = d] /\ permits[k].state = "absent" /\ UNCHANGED <<exec, uses>>
  BY DEF CreatePermit
<1> HIDE DEF d
<1>3. PhaseOf(permits[k]) = "unissued" /\ PhaseOf(d) = "valid"
  BY <1>1, <1>2 DEF PhaseOf
<1>4. phases' = [phases EXCEPT ![k] = "valid"]
  BY <1>2, <1>3 DEF phases, TypeOK
<1>5. holding' = holding
  BY <1>2 DEF holding, HoldersOf
<1> QED
  BY <1>2, <1>3, <1>4, <1>5 DEF Promise!Issue, Promise!Becomes, phases, holding

\* A command that finds the permit good is admitted.
LEMMA ReadIsPermitStep ==
  ASSUME PermitInv, NEW p \in Procs, ReadPermit(p), ~Quit(p)
  PROVE  \E k \in PermitIds : Promise!Admit(k, p)
<1>0. exec[p].permit \in PermitIds
  BY FieldTypes DEF PermitInv, Guarded, ReadPermit, At, HasPermit
<1> PICK k \in PermitIds : k = exec[p].permit
  BY <1>0
<1> DEFINE e == [exec[p] EXCEPT !.step = "truncate", !.doc = permits[k], !.time = clock, !.head = repo]
<1>1. TypeOK /\ exec[p] \in Exec
  BY FieldTypes DEF PermitInv
<1>2. /\ exec[p].step = "permit" /\ permits[k].state = "whole" /\ ~permits[k].consumed
      /\ UNCHANGED <<permits, uses>> /\ exec' = [exec EXCEPT ![p] = e]
  BY DEF ReadPermit, At, ValidateDocumentPolicy
<1>3. e.step = "truncate" /\ e.permit = k
  BY <1>1 DEF Exec
<1> HIDE DEF e
<1>4. \A j \in PermitIds : p \notin HoldersOf(j)
  BY <1>2 DEF HoldersOf
<1>5. HoldersOf(k)' = HoldersOf(k) \cup {p}
  BY <1>1, <1>2, <1>3, HoldersAfter DEF Loaded
<1>6. ASSUME NEW j \in PermitIds, j # k PROVE HoldersOf(j)' = HoldersOf(j)
  <2>1. HoldersOf(j)' = HoldersOf(j) \ {p}
    BY <1>1, <1>2, <1>3, <1>6, HoldersAfter
  <2> QED
    BY <1>4, <2>1
<1>7. holding' = [holding EXCEPT ![k] = @ \cup {p}]
  BY <1>1, <1>5, <1>6 DEF holding
<1>8. phases' = phases /\ PhaseOf(permits[k]) = "valid"
  BY <1>2 DEF phases, PhaseOf
<1>9. Promise!Admit(k, p)
  BY <1>1, <1>2, <1>4, <1>7, <1>8 DEF Promise!Admit, phases, holding
<1> QED
  BY <1>1, <1>9

\* The write begins by spending the permit, if no other command was faster.
LEMMA TruncateIsPermitStep ==
  ASSUME PermitInv, NEW p \in Procs, TruncatePermit(p)
  PROVE  Promise!PermitNext \/ UNCHANGED Promise!permitVars
<1> DEFINE k == exec[p].permit
           d == [permits[k] EXCEPT !.state = "torn"]
<1>1. TypeOK /\ k \in PermitIds /\ permits[k] \in Document
  BY FieldTypes DEF PermitInv, Guarded, TruncatePermit, At, HasPermit
<1>2. /\ permits' = [permits EXCEPT ![k] = d] /\ uses' = uses
      /\ exec[p].step = "truncate" /\ GoTo(p, "write")
  BY DEF TruncatePermit, At
<1>3. holding' = holding
  BY <1>1, <1>2, GoKeeps DEF Loaded
<1>4. p \in HoldersOf(k) /\ permits[k].state # "absent"
  BY <1>2, <1>1 DEF HoldersOf, PermitInv, Guarded, Holds, Loaded
<1>5. PhaseOf(d) = "spent"
  BY <1>1 DEF PhaseOf, Document
<1> HIDE DEF d
<1>6. phases' = [phases EXCEPT ![k] = "spent"]
  BY <1>1, <1>2, <1>5 DEF phases, TypeOK
<1>7. PhaseOf(permits[k]) \in {"valid", "spent"}
  BY <1>4 DEF PhaseOf
<1>8. CASE PhaseOf(permits[k]) = "valid"
  <2>1. Promise!Spend(k, p)
    BY <1>1, <1>2, <1>3, <1>4, <1>6, <1>8 DEF Promise!Spend, Promise!Becomes, phases, holding
  <2> QED
    BY <1>1, <2>1 DEF Promise!PermitNext
<1>9. CASE PhaseOf(permits[k]) = "spent"
  <2>1. phases' = phases
    BY <1>1, <1>6, <1>9 DEF phases
  <2> QED
    BY <1>2, <1>3, <2>1 DEF Promise!permitVars, phases, holding
<1> QED
  BY <1>7, <1>8, <1>9

\* The rest of the write tells a reader nothing new.
LEMMA WriteIsPermitStep ==
  ASSUME PermitInv, NEW p \in Procs, WritePermit(p)
  PROVE  UNCHANGED Promise!permitVars
<1> DEFINE k == exec[p].permit
           d == [exec[p].doc EXCEPT !.consumed = TRUE]
<1>1. TypeOK /\ k \in PermitIds /\ exec[p].doc \in Document
  BY FieldTypes DEF PermitInv, Guarded, WritePermit, At, HasPermit
<1>2. /\ permits' = [permits EXCEPT ![k] = d] /\ uses' = uses
      /\ exec[p].step = "write" /\ GoTo(p, "guard")
  BY DEF WritePermit, At
<1>3. holding' = holding
  BY <1>1, <1>2, GoKeeps DEF Loaded
<1>4. exec[p].doc.state = "whole" /\ permits[k].state # "absent" /\ Spent(permits[k])
  <2>1. Guarded(exec[p], permits) /\ k # NoPermit
    BY <1>1 DEF PermitInv
  <2> QED
    BY <1>2, <2>1 DEF Guarded, Holds, Loaded
<1>5. PhaseOf(d) = "spent" /\ PhaseOf(permits[k]) = "spent"
  BY <1>1, <1>4 DEF PhaseOf, Document, Spent
<1> HIDE DEF d
<1>6. phases' = phases
  BY <1>1, <1>2, <1>5 DEF phases, TypeOK
<1> QED
  BY <1>2, <1>3, <1>6 DEF Promise!permitVars, phases, holding

\* The remaining gates and the second read let a command go on or end it.
LEMMA GuardIsPermitStep ==
  ASSUME TypeOK, NEW p \in Procs, PassGuard(p) \/ ReloadPermit(p)
  PROVE  Promise!PermitNext \/ UNCHANGED Promise!permitVars
<1>1. UNCHANGED <<permits, uses>> /\ exec[p].step \in Loaded
  BY DEF PassGuard, ReloadPermit, At, Loaded
<1>2. Quit(p) \/ GoTo(p, "reload") \/ GoTo(p, "live")
  BY DEF PassGuard, ReloadPermit
<1>3. CASE ~Quit(p)
  <2>1. holding' = holding
    BY <1>1, <1>2, <1>3, GoKeeps DEF Loaded
  <2> QED
    BY <1>1, <2>1 DEF Promise!permitVars, holding
<1> QED
  BY <1>1, <1>3, QuitIsPermitStep

\* The operation on SAT is the one use of its command, under a permit that is spent.
LEMMA LiveIsPermitStep ==
  ASSUME PermitInv, NEW p \in Procs, LiveOperation(p)
  PROVE  Promise!PermitNext \/ UNCHANGED Promise!permitVars
<1> DEFINE k == exec[p].permit
<1>1. TypeOK /\ permits' = permits /\ Quit(p) /\ exec[p].step = "live"
  BY DEF PermitInv, LiveOperation, At
<1>2. CASE HasPermit(p)
  <2>1. k \in PermitIds /\ uses' = [uses EXCEPT ![k] = @ + 1]
    BY <1>1, <1>2, FieldTypes DEF LiveOperation
  <2>2. p \in HoldersOf(k)
    BY <1>1 DEF HoldersOf
  <2>3. PhaseOf(permits[k]) = "spent"
    BY <1>1, <1>2 DEF PermitInv, Guarded, Holds, Loaded, HasPermit, PhaseOf, Spent
  <2>4. Promise!Use(k, p)
    BY <1>1, <2>1, <2>2, <2>3, QuitLeaves DEF Promise!Use, phases, holding
  <2> QED
    BY <2>1, <2>4 DEF Promise!PermitNext
<1>3. CASE ~HasPermit(p)
  BY <1>1, <1>3, QuitIsPermitStep DEF LiveOperation
<1> QED
  BY <1>2, <1>3

\* Starting a command admits it to nothing.
LEMMA StartIsPermitStep ==
  ASSUME TypeOK, NEW p \in Procs, NEW cmd, NEW query, NEW k \in PermitIds \cup {NoPermit}, NEW in,
         StartCommand(p, cmd, query, k, in)
  PROVE  UNCHANGED Promise!permitVars
<1> DEFINE e == [Idle EXCEPT !.step = IF k = NoPermit THEN "guard" ELSE "permit",
                             !.cmd = cmd, !.query = query, !.permit = k, !.input = in]
<1>1. e.step = (IF k = NoPermit THEN "guard" ELSE "permit") /\ e.permit = k
  BY DEF Idle
<1>2. exec' = [exec EXCEPT ![p] = e] /\ UNCHANGED <<permits, uses>> /\ exec[p].step = "idle"
  BY DEF StartCommand, At
<1> HIDE DEF e
<1>3. ASSUME NEW j \in PermitIds PROVE HoldersOf(j)' = HoldersOf(j)
  <2>1. p \notin HoldersOf(j)
    BY <1>2 DEF HoldersOf
  <2>2. ~(e.permit = j /\ e.step \in Loaded)
    BY <1>1 DEF Loaded
  <2>3. HoldersOf(j)' = HoldersOf(j) \ {p}
    BY <1>2, <2>2, HoldersAfter
  <2> QED
    BY <2>1, <2>3
<1> QED
  BY <1>2, <1>3 DEF Promise!permitVars

LEMMA PermitStarts == Init => Promise!PermitInit
<1> SUFFICES ASSUME Init PROVE Promise!PermitInit
  OBVIOUS
<1>1. \A k \in PermitIds : PhaseOf(permits[k]) = "unissued"
  BY DEF Init, PhaseOf, NoDocument
<1>2. \A k \in PermitIds : HoldersOf(k) = {}
  BY DEF Init, HoldersOf, Idle
<1> QED
  BY <1>1, <1>2 DEF Promise!PermitInit, Init

LEMMA PermitStep == PermitInv /\ [Next]_vars => [Promise!PermitNext]_Promise!permitVars
<1> SUFFICES ASSUME PermitInv, [Next]_vars PROVE Promise!PermitNext \/ UNCHANGED Promise!permitVars
  OBVIOUS
<1>0. TypeOK
  BY DEF PermitInv
<1>1. ASSUME NEW k \in PermitIds, NEW scope, NEW query, NEW minutes, NEW variant, NEW wcf,
             CreatePermit(k, scope, query, minutes, variant, wcf)
      PROVE  Promise!PermitNext
  BY <1>0, <1>1, CreateIsPermitStep DEF Promise!PermitNext
<1>2. ASSUME NEW p \in Procs, NEW cmd, NEW query, NEW k \in PermitIds \cup {NoPermit}, NEW in,
             StartCommand(p, cmd, query, k, in)
      PROVE  UNCHANGED Promise!permitVars
  BY <1>0, <1>2, StartIsPermitStep
<1>3. ASSUME NEW p \in Procs, ReadPermit(p)
      PROVE  Promise!PermitNext \/ UNCHANGED Promise!permitVars
  <2>1. CASE Quit(p)
    BY <1>0, <1>3, <2>1, QuitIsPermitStep DEF ReadPermit
  <2>2. CASE ~Quit(p)
    BY <1>3, <2>2, ReadIsPermitStep DEF Promise!PermitNext
  <2> QED
    BY <2>1, <2>2
<1>4. ASSUME NEW p \in Procs, Crash(p) PROVE Promise!PermitNext \/ UNCHANGED Promise!permitVars
  BY <1>0, <1>4, QuitIsPermitStep DEF Crash
<1>5. CASE UNCHANGED <<permits, exec, uses>>
  BY <1>5 DEF Promise!permitVars, HoldersOf
<1> QED
  BY <1>0, <1>1, <1>2, <1>3, <1>4, <1>5, TruncateIsPermitStep, WriteIsPermitStep, GuardIsPermitStep,
     LiveIsPermitStep DEF Next, vars, Checkout, Tick

-----------------------------------------------------------------------------
(* How often a permit can be used when commands overlap: this follows from the promise *)
(* alone, so the lemmas speak of its steps.                                             *)

FinitelyMany == IsFiniteSet(Procs)

\* Nothing is done under a permit that is not spent; once it is, every use takes one of
\* the commands that were admitted away, and none is added.
BoundInv ==
  \A k \in PermitIds :
    /\ uses[k] \in Nat
    /\ phases[k] # "spent" => uses[k] = 0
    /\ phases[k] = "spent" => uses[k] + Cardinality(holding[k]) <= Cardinality(Procs)

OverlapInv == FinitelyMany /\ PermitInv /\ BoundInv

\* The commands that hold a permit are commands.
LEMMA HoldersFinite ==
  ASSUME FinitelyMany, NEW S \in SUBSET Procs
  PROVE  /\ IsFiniteSet(S) /\ Cardinality(S) \in Nat /\ Cardinality(Procs) \in Nat
         /\ Cardinality(S) <= Cardinality(Procs)
         /\ \A p \in S : Cardinality(S \ {p}) = Cardinality(S) - 1
BY FS_Subset, FS_CardinalityType, FS_RemoveElement DEF FinitelyMany

\* Every step of the promise keeps the bound.
LEMMA PromiseKeepsBound ==
  ASSUME FinitelyMany, TypeOK, BoundInv, Promise!PermitNext PROVE BoundInv'
<1>0. /\ \A k \in PermitIds : holding[k] \in SUBSET Procs
      /\ DOMAIN phases = PermitIds /\ DOMAIN holding = PermitIds /\ DOMAIN uses = PermitIds
  BY DEF holding, phases, HoldersOf, TypeOK
<1>1. \A S \in SUBSET Procs : Cardinality(S) \in Nat /\ Cardinality(S) <= Cardinality(Procs)
  BY HoldersFinite
<1>2. Cardinality(Procs) \in Nat
  BY HoldersFinite
<1>3. PICK k \in PermitIds :
        Promise!Issue(k) \/ \E p \in Procs : \/ Promise!Admit(k, p) \/ Promise!Spend(k, p)
                                             \/ Promise!Leave(k, p) \/ Promise!Use(k, p)
  BY DEF Promise!PermitNext
<1>4. CASE Promise!Issue(k)
  <2>1. phases' = [phases EXCEPT ![k] = "valid"] /\ holding' = holding /\ uses' = uses
        /\ phases[k] = "unissued"
    BY <1>4 DEF Promise!Issue, Promise!Becomes, phases, holding
  <2> QED
    BY <1>0, <2>1 DEF BoundInv
<1>5. ASSUME NEW p \in Procs, Promise!Admit(k, p) PROVE BoundInv'
  <2>1. phases' = phases /\ uses' = uses /\ phases[k] = "valid"
        /\ \A j \in PermitIds \ {k} : holding'[j] = holding[j]
    BY <1>5 DEF Promise!Admit, phases, holding
  <2> QED
    BY <1>0, <2>1 DEF BoundInv
<1>6. ASSUME NEW p \in Procs, Promise!Spend(k, p) PROVE BoundInv'
  <2>1. phases' = [phases EXCEPT ![k] = "spent"] /\ holding' = holding /\ uses' = uses
        /\ phases[k] = "valid"
    BY <1>6 DEF Promise!Spend, Promise!Becomes, phases, holding
  <2>2. uses[k] = 0 /\ Cardinality(holding[k]) \in Nat /\ Cardinality(holding[k]) <= Cardinality(Procs)
    BY <1>0, <1>1, <2>1 DEF BoundInv
  <2> QED
    BY <1>0, <2>1, <2>2 DEF BoundInv
<1>7. ASSUME NEW p \in Procs, Promise!Leave(k, p) \/ Promise!Use(k, p) PROVE BoundInv'
  <2>1. /\ phases' = phases /\ p \in holding[k] /\ holding' = [holding EXCEPT ![k] = @ \ {p}]
        /\ \/ uses' = uses
           \/ phases[k] = "spent" /\ uses' = [uses EXCEPT ![k] = @ + 1]
    BY <1>7 DEF Promise!Leave, Promise!Use, phases, holding
  <2>2. holding'[k] = holding[k] \ {p} /\ \A j \in PermitIds \ {k} : holding'[j] = holding[j]
    BY <1>0, <2>1
  <2>3. /\ Cardinality(holding[k]) \in Nat /\ Cardinality(holding[k] \ {p}) \in Nat
        /\ Cardinality(holding[k] \ {p}) = Cardinality(holding[k]) - 1
    BY <1>0, <2>1, HoldersFinite
  <2>4. uses[k] \in Nat /\ uses'[k] \in {uses[k], uses[k] + 1}
        /\ (uses'[k] # uses[k] => phases[k] = "spent")
        /\ \A j \in PermitIds \ {k} : uses'[j] = uses[j]
    BY <1>0, <2>1 DEF BoundInv
  <2>5. phases[k] = "spent" => uses'[k] + Cardinality(holding'[k]) <= Cardinality(Procs)
    BY <1>2, <2>2, <2>3, <2>4 DEF BoundInv
  <2>6. phases[k] # "spent" => uses'[k] = 0
    BY <2>4 DEF BoundInv
  <2>7. phases' = phases /\ uses'[k] \in Nat
    BY <2>1, <2>4
  <2>8. ASSUME NEW j \in PermitIds \ {k}
        PROVE  /\ uses'[j] \in Nat
               /\ phases[j] # "spent" => uses'[j] = 0
               /\ phases[j] = "spent" => uses'[j] + Cardinality(holding'[j]) <= Cardinality(Procs)
    BY <2>2, <2>4 DEF BoundInv
  <2>9. ASSUME NEW j \in PermitIds
        PROVE  /\ uses'[j] \in Nat
               /\ phases'[j] # "spent" => uses'[j] = 0
               /\ phases'[j] = "spent" => uses'[j] + Cardinality(holding'[j]) <= Cardinality(Procs)
    BY <2>5, <2>6, <2>7, <2>8
  <2> QED
    BY <2>9 DEF BoundInv
<1> QED
  BY <1>3, <1>4, <1>5, <1>6, <1>7

\* Every step of the commands does.
LEMMA BoundStep == OverlapInv /\ [Next]_vars => OverlapInv'
<1> SUFFICES ASSUME FinitelyMany, PermitInv, BoundInv, [Next]_vars PROVE BoundInv'
  BY PermitInvStep DEF OverlapInv, FinitelyMany
<1>1. CASE Promise!PermitNext
  BY <1>1, PromiseKeepsBound DEF PermitInv
<1>2. CASE UNCHANGED Promise!permitVars
  BY <1>2 DEF Promise!permitVars, BoundInv, phases, holding
<1> QED
  BY <1>1, <1>2, PermitStep

\* The bound of the invariant is that of the property.
LEMMA BoundGivesProperty == OverlapInv => UsesWithinOverlap
<1> SUFFICES ASSUME FinitelyMany, BoundInv, NEW k \in PermitIds PROVE uses[k] <= Cardinality(Procs)
  BY DEF UsesWithinOverlap, OverlapInv
<1>1. holding[k] \in SUBSET Procs
  BY DEF holding, HoldersOf
<1>2. Cardinality(holding[k]) \in Nat /\ Cardinality(Procs) \in Nat
  BY <1>1, HoldersFinite
<1> QED
  BY <1>2 DEF BoundInv

-----------------------------------------------------------------------------
(* Theorems. *)

\* Permits, commands, repository, clock and counters keep their types, whatever
\* live-permit create and the live commands of cli.py do.
THEOREM PermitTypes == Spec => []TypeOK
<1>1. PermitInv => TypeOK
  BY DEF PermitInv
<1> QED
  BY <1>1, PermitInvInit, PermitInvStep, PTL DEF Spec

\* validate_and_consume_live_permit: under any interleaving of any number of commands
\* and with crashes at any step, a permit is spent before anything is done on SAT under it.
THEOREM PermitsAreSpentFirst == Spec => []ConsumedBeforeUse
BY InvConsumed, PermitInvInit, PermitInvStep, PTL DEF Spec

\* The guards of cli.py: every command that gets to SAT is authorised, whatever else runs.
THEOREM LiveCommandsAuthorised == Spec => []LiveIsAuthorised
BY InvAuthorised, PermitInvInit, PermitInvStep, PTL DEF Spec

\* _validated_request and _validate_document_policy agree: no issued permit is ever
\* refused for its content.
THEOREM IssuedPermitsAcceptable == Spec => []IssuedIsAcceptable
<1>1. PermitInv => IssuedIsAcceptable
  BY DEF PermitInv
<1> QED
  BY <1>1, PermitInvInit, PermitInvStep, PTL DEF Spec

\* "One-time local permits": as long as commands do not overlap, a permit authorises at
\* most one live operation, with crashes at any step.
THEOREM OneTimePermits == OneCommand /\ Spec => []OneUsePerPermit
<1>1. OneCommand /\ Init => OneUseInv
  <2> SUFFICES ASSUME OneCommand, Init PROVE OneUseInv
    OBVIOUS
  <2>1. Unused /\ OneUsePerPermit
    BY DEF Init, Unused, HasPermit, Idle, OneUsePerPermit
  <2> QED
    BY <2>1, PermitInvInit DEF OneUseInv
<1>2. OneUseInv => OneUsePerPermit
  BY DEF OneUseInv
<1> QED
  BY <1>1, <1>2, OneUseStep, PTL DEF Spec

\* ImplementsPermit for every number of commands, with races and crashes anywhere: the
\* permits of live_permit.py and the commands under the guards of cli.py implement
\* OneTimePermit.
THEOREM CommandsKeepPermitPromise == Spec => ImplementsPermit
<1>1. Spec => Promise!PermitInit /\ [][Promise!PermitNext]_Promise!permitVars
  BY PermitStarts, PermitStep, PermitInvInit, PermitInvStep, PTL DEF Spec
<1> QED
  BY <1>1 DEF ImplementsPermit, Promise!OneTime

\* validate_and_consume_live_permit under races: although nothing locks the document, the
\* first write closes it, so a permit is used at most once by each command that can run.
THEOREM OverlapBoundsUses == FinitelyMany /\ Spec => []UsesWithinOverlap
<1>1. FinitelyMany /\ Init => OverlapInv
  <2> SUFFICES ASSUME FinitelyMany, Init PROVE BoundInv
    BY PermitInvInit DEF OverlapInv
  <2>1. \A k \in PermitIds : phases[k] = "unissued" /\ uses[k] = 0
    BY DEF Init, phases, PhaseOf, NoDocument
  <2> QED
    BY <2>1 DEF BoundInv
<1> QED
  BY <1>1, BoundStep, BoundGivesProperty, PTL DEF Spec
=============================================================================

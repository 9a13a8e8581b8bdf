----------------------------- MODULE LivePermit -----------------------------
(***************************************************************************)
(* One-time permits for live SAT operations (live_permit.py) and the guard *)
(* every live command passes before it may talk to SAT (cli.py,            *)
(* sat_transport.py).  A permit is a JSON document under AppData.  The     *)
(* guard reads it, compares it with the command, writes it back as         *)
(* consumed and only then evaluates the remaining gates; the write is not  *)
(* atomic (it truncates, then writes) and nothing locks the document       *)
(* between the read and the write.                                         *)
(***************************************************************************)
EXTENDS Integers, FiniteSets, AuthEnvelope

CONSTANTS
  Procs,       \* live commands that may run at the same time
  PermitIds,   \* permit identifiers, fresh for every permit created
  NoPermit,    \* a command started without --permit
  Queries,     \* operations: profile, kind, period and its length in days
  Inputs,      \* what a command finds in its environment (GateInput)
  Commands,    \* the live commands in use
  Commits,     \* repository identities (git rev-parse HEAD)
  Minutes,     \* values of --expires-minutes an operator tries
  MaxClock,    \* the clock, in minutes, stops here
  MaxCrashes   \* bound on crashes

\* ALLOWED_SCOPES and CREDENTIAL_REQUIRED_SCOPES.
ProbeScopes == {"transport_probe", "auth_post_probe", "verify_post_probe", "auth_matrix_probe"}
CredentialRequiredScopes ==
  {"auth_live_smoke", "metadata_live_smoke", "metadata_backfill_submit", "package_download_smoke"}
AllowedScopes == ProbeScopes \cup CredentialRequiredScopes

\* Queries and gates: manual is --manual-real-sat, confirmed an interactive terminal
\* with the typed confirmation, ready the conjunction of profile, credentials, doctor,
\* scanner and clean checkout, ci and allow* the environment variables.
Kinds == {"metadata", "cfdi"}
GateInput == [manual : BOOLEAN, confirmed : BOOLEAN, ready : BOOLEAN, ci : BOOLEAN,
              allowSat : BOOLEAN, allowCredentials : BOOLEAN]

\* The scope of the permit a command asks for.
ScopeOf == [c \in {"probe-transport", "probe-auth-post", "probe-verify-post",
                   "probe-auth-matrix", "auth-smoke", "live-smoke", "diagnose-live",
                   "metadata-request-smoke", "metadata-verify-smoke", "verify-due",
                   "backfill-submit", "package-download-smoke"} |->
  CASE c = "probe-transport"        -> "transport_probe"
    [] c = "probe-auth-post"        -> "auth_post_probe"
    [] c = "probe-verify-post"      -> "verify_post_probe"
    [] c = "probe-auth-matrix"      -> "auth_matrix_probe"
    [] c = "auth-smoke"             -> "auth_live_smoke"
    [] c = "backfill-submit"        -> "metadata_backfill_submit"
    [] c = "package-download-smoke" -> "package_download_smoke"
    [] OTHER                        -> "metadata_live_smoke"]
AllCommands == DOMAIN ScopeOf

\* Commands that refuse to start without --permit, or without --manual-real-sat.
ManualRequired == {"verify-due", "backfill-submit", "package-download-smoke"}
PermitRequired == ManualRequired \cup {"probe-auth-post", "probe-verify-post", "probe-auth-matrix"}

\* diagnose-live has no --permit option; with live-smoke it leaves the kind to the guard.
WithoutPermit == {"diagnose-live"}
KindLeftToGuard == {"live-smoke", "diagnose-live"}

\* Commands whose expectation takes the period from the permit itself (probe-transport also
\* compares --from and --to when they are given, which can only refuse more).
PeriodFromPermit == {"probe-transport", "probe-auth-post", "probe-verify-post",
                     "probe-auth-matrix", "auth-smoke"}
WeekCommands == {"verify-due", "backfill-submit", "package-download-smoke"}

ASSUME PermitAssumption ==
  /\ Procs # {} /\ Queries # {} /\ Commits # {}
  /\ NoPermit \notin PermitIds
  /\ \A q \in Queries : q.kind \in Kinds /\ q.days \in Int
  /\ Inputs \subseteq GateInput
  /\ Commands \subseteq AllCommands
  /\ Minutes \subseteq Int /\ MaxClock \in Nat /\ MaxCrashes \in Nat

\* A permit document; "torn" is a document truncated by an unfinished write.
Document == [state : {"absent", "torn", "whole"}, scope : AllowedScopes, query : Queries,
             credentials : BOOLEAN, expires : Int, consumed : BOOLEAN, repo : Commits,
             variant : Optional(Variants), wcf : Optional(Flags)]
-----------------------------------------------------------------------------
\* Policy.

\* _max_range_days
MaxRangeDays(scope) ==
  IF scope \in {"metadata_backfill_submit", "metadata_live_smoke", "package_download_smoke"}
  THEN 7 ELSE 1

\* _validate_date_range; a period that ends before it starts has no days.
ValidRange(scope, days) == 1 <= days /\ days <= MaxRangeDays(scope)

\* Mutant: a permit is issued for any range and envelope.
UnvalidatedRequest(scope, query, minutes, variant, wcf) ==
  query.kind = "metadata" /\ 1 <= minutes /\ minutes <= 15

\* _validated_request
ValidatedRequest(scope, query, minutes, variant, wcf) ==
  /\ scope \in AllowedScopes
  /\ query.kind = "metadata"
  /\ ValidRange(scope, query.days)
  /\ 1 <= minutes /\ minutes <= 15
  /\ EnvelopeOK(scope, RequestedVariant(scope, variant), RequestedWcf(scope, variant, wcf))

\* The document create_live_execution_permit writes.
NewDocument(scope, query, minutes, variant, wcf, now, repo) ==
  [state |-> "whole", scope |-> scope, query |-> query,
   credentials |-> scope \in CredentialRequiredScopes,
   expires |-> now + minutes, consumed |-> FALSE, repo |-> repo,
   variant |-> RequestedVariant(scope, variant), wcf |-> RequestedWcf(scope, variant, wcf)]

\* The part of _validate_document_policy that no later event can change.
StaticPolicy(doc) ==
  /\ doc.query.kind = "metadata"
  /\ ValidRange(doc.scope, doc.query.days)
  /\ doc.scope \in CredentialRequiredScopes => doc.credentials
  /\ doc.scope \in ProbeScopes => ~doc.credentials
  /\ EnvelopeOK(doc.scope, doc.variant, doc.wcf)

\* _validate_document_policy
ValidateDocumentPolicy(doc, now, repo) ==
  /\ ~doc.consumed
  /\ doc.expires > now
  /\ StaticPolicy(doc)
  /\ doc.repo = repo

\* Mutant: only the scope is compared.
ScopeMatches(cmd, query, doc) == doc.scope = ScopeOf[cmd]

\* The expectation of a command (permit_expectation_from_query and its variants)
\* against the document.
MatchesExpectation(cmd, query, doc) ==
  /\ doc.scope = ScopeOf[cmd]
  /\ doc.query.profile = query.profile
  /\ cmd \notin PeriodFromPermit => doc.query = query

\* _is_minimal_live_smoke_range and _is_backfill_submit_range, by days.
RangeWithinLimit(cmd, query) ==
  \/ cmd \in PeriodFromPermit
  \/ cmd \in WeekCommands /\ query.days <= 7
  \/ query.days = 1

\* validate_live_sat_guard, as the guards of cli.py call it.
ValidateLiveSatGuard(cmd, query, permitted, credentials, in) ==
  /\ ~in.ci
  /\ in.allowSat \/ permitted
  /\ ScopeOf[cmd] \in CredentialRequiredScopes => in.allowCredentials \/ (permitted /\ credentials)
  /\ ~permitted => in.manual /\ in.confirmed
  /\ in.ready
  /\ cmd \notin PeriodFromPermit => query.kind = "metadata"
  /\ RangeWithinLimit(cmd, query)
-----------------------------------------------------------------------------
VARIABLES
  permits,   \* [PermitIds -> Document]
  exec,      \* [Procs -> Exec]
  repo,      \* the commit that is checked out
  clock,     \* wall clock in minutes
  crashes,   \* crashes so far
  uses       \* history: live operations carried out under each permit

vars == <<permits, exec, repo, clock, crashes, uses>>

AnyQuery == CHOOSE q \in Queries : TRUE
NoDocument == [state |-> "absent", scope |-> "transport_probe", query |-> AnyQuery,
               credentials |-> FALSE, expires |-> 0, consumed |-> FALSE,
               repo |-> CHOOSE c \in Commits : TRUE, variant |-> "none", wcf |-> "none"]
NoInput == [manual |-> FALSE, confirmed |-> FALSE, ready |-> FALSE, ci |-> FALSE,
            allowSat |-> FALSE, allowCredentials |-> FALSE]

\* A live command at work.  doc is the document it has read, time and head the clock
\* and the commit it was validated at.
Steps == {"idle", "permit", "truncate", "write", "guard", "reload", "live"}
Exec == [step : Steps, cmd : AllCommands, query : Queries, permit : PermitIds \cup {NoPermit},
         input : GateInput, doc : Document, time : Nat, head : Commits]

Idle == [step |-> "idle", cmd |-> "auth-smoke", query |-> AnyQuery, permit |-> NoPermit,
         input |-> NoInput, doc |-> NoDocument, time |-> 0, head |-> NoDocument.repo]

Init ==
  /\ permits = [k \in PermitIds |-> NoDocument]
  /\ exec = [p \in Procs |-> Idle]
  /\ repo \in Commits
  /\ clock = 0 /\ crashes = 0
  /\ uses = [k \in PermitIds |-> 0]

At(p, step) == exec[p].step = step
GoTo(p, step) == exec' = [exec EXCEPT ![p].step = step]
Quit(p) == exec' = [exec EXCEPT ![p] = Idle]
HasPermit(p) == exec[p].permit # NoPermit

\* live-permit create
CreatePermit(k, scope, query, minutes, variant, wcf) ==
  /\ permits[k].state = "absent"
  /\ ValidatedRequest(scope, query, minutes, variant, wcf)
  /\ permits' = [permits EXCEPT ![k] =
                   NewDocument(scope, query, minutes, variant, wcf, clock, repo)]
  /\ UNCHANGED <<exec, repo, clock, crashes, uses>>

\* A live command passes its own early checks and samples the gates.
StartCommand(p, cmd, query, k, in) ==
  /\ At(p, "idle")
  /\ cmd \in PermitRequired => k # NoPermit
  /\ cmd \in WithoutPermit => k = NoPermit
  /\ cmd \in ManualRequired => in.manual
  /\ cmd \notin KindLeftToGuard => query.kind = "metadata"
  /\ exec' = [exec EXCEPT ![p] = [Idle EXCEPT
       !.step = IF k = NoPermit THEN "guard" ELSE "permit",
       !.cmd = cmd, !.query = query, !.permit = k, !.input = in]]
  /\ UNCHANGED <<permits, repo, clock, crashes, uses>>

\* Mutant: the permit is validated, but not consumed.
ReadOnlyPermit(p) ==
  LET doc == permits[exec[p].permit] IN
  /\ At(p, "permit")
  /\ IF /\ doc.state = "whole"
        /\ MatchesExpectation(exec[p].cmd, exec[p].query, doc)
        /\ ValidateDocumentPolicy(doc, clock, repo)
     THEN exec' = [exec EXCEPT ![p].step = "guard", ![p].doc = doc,
                               ![p].time = clock, ![p].head = repo]
     ELSE Quit(p)
  /\ UNCHANGED <<permits, repo, clock, crashes, uses>>

\* validate_and_consume_live_permit up to the write.  (The commands that build the
\* expectation from the permit read it twice; nothing it compares can differ.)
ReadPermit(p) ==
  LET doc == permits[exec[p].permit] IN
  /\ At(p, "permit")
  /\ IF /\ doc.state = "whole"
        /\ MatchesExpectation(exec[p].cmd, exec[p].query, doc)
        /\ ValidateDocumentPolicy(doc, clock, repo)
     THEN exec' = [exec EXCEPT ![p].step = "truncate", ![p].doc = doc,
                               ![p].time = clock, ![p].head = repo]
     ELSE Quit(p)
  /\ UNCHANGED <<permits, repo, clock, crashes, uses>>

\* Path.write_text of _write_permit_document truncates the document, ...
TruncatePermit(p) ==
  /\ At(p, "truncate")
  /\ permits' = [permits EXCEPT ![exec[p].permit].state = "torn"]
  /\ GoTo(p, "write")
  /\ UNCHANGED <<repo, clock, crashes, uses>>

\* Mutant: the document is written back as it was read.
WriteUnchanged(p) ==
  /\ At(p, "write")
  /\ permits' = [permits EXCEPT ![exec[p].permit] = exec[p].doc]
  /\ GoTo(p, "guard")
  /\ UNCHANGED <<repo, clock, crashes, uses>>

\* ... and writes the consumed one.
WritePermit(p) ==
  /\ At(p, "write")
  /\ permits' = [permits EXCEPT ![exec[p].permit] = [exec[p].doc EXCEPT !.consumed = TRUE]]
  /\ GoTo(p, "guard")
  /\ UNCHANGED <<repo, clock, crashes, uses>>

\* The remaining gates: a denial here leaves a consumed permit behind.
PassGuard(p) ==
  /\ At(p, "guard")
  /\ IF ValidateLiveSatGuard(exec[p].cmd, exec[p].query, HasPermit(p),
                             exec[p].doc.credentials, exec[p].input)
     THEN GoTo(p, IF exec[p].cmd = "auth-smoke" /\ HasPermit(p) THEN "reload" ELSE "live")
     ELSE Quit(p)
  /\ UNCHANGED <<permits, repo, clock, crashes, uses>>

\* auth-smoke reads the permit once more for the envelope variant.
ReloadPermit(p) ==
  /\ At(p, "reload")
  /\ IF permits[exec[p].permit].state = "whole" THEN GoTo(p, "live") ELSE Quit(p)
  /\ UNCHANGED <<permits, repo, clock, crashes, uses>>

\* The operation on SAT, whatever its result.
LiveOperation(p) ==
  /\ At(p, "live")
  /\ uses' = IF HasPermit(p) THEN [uses EXCEPT ![exec[p].permit] = @ + 1] ELSE uses
  /\ Quit(p)
  /\ UNCHANGED <<permits, repo, clock, crashes>>

Crash(p) ==
  /\ ~At(p, "idle")
  /\ crashes < MaxCrashes
  /\ crashes' = crashes + 1
  /\ Quit(p)
  /\ UNCHANGED <<permits, repo, clock, uses>>

\* Another commit is checked out.
Checkout ==
  /\ repo' \in Commits \ {repo}
  /\ UNCHANGED <<permits, exec, clock, crashes, uses>>

Tick ==
  /\ clock < MaxClock
  /\ clock' = clock + 1
  /\ UNCHANGED <<permits, exec, repo, crashes, uses>>

Next ==
  \/ \E k \in PermitIds, scope \in AllowedScopes, query \in Queries, minutes \in Minutes,
        variant \in Optional(Variants), wcf \in Optional(Flags) :
       CreatePermit(k, scope, query, minutes, variant, wcf)
  \/ \E p \in Procs :
       \/ \E cmd \in Commands, query \in Queries, k \in PermitIds \cup {NoPermit}, in \in Inputs :
            StartCommand(p, cmd, query, k, in)
       \/ ReadPermit(p) \/ TruncatePermit(p) \/ WritePermit(p) \/ PassGuard(p)
       \/ ReloadPermit(p) \/ LiveOperation(p) \/ Crash(p)
  \/ Checkout
  \/ Tick

Spec == Init /\ [][Next]_vars
-----------------------------------------------------------------------------
\* Permits, commands in execution, repository, clock and counters keep their types.
TypeOK ==
  /\ permits \in [PermitIds -> Document]
  /\ exec \in [Procs -> Exec]
  /\ repo \in Commits
  /\ clock \in Nat /\ crashes \in 0..MaxCrashes
  /\ uses \in [PermitIds -> Nat]

\* "consume the permit before live I/O": once something was done on SAT under a permit,
\* or is about to be, no reader of the document can find it unconsumed, although the
\* write is not atomic, commands race and any of them can crash.
ConsumedBeforeUse ==
  \A k \in PermitIds :
    uses[k] > 0 \/ (\E p \in Procs : exec[p].permit = k /\ exec[p].step \in {"guard", "reload", "live"})
      => permits[k].consumed \/ permits[k].state = "torn"

\* Every command that reaches SAT is authorised: its permit names its scope, profile and
\* period, had not expired and belonged to the commit checked out when it was read, and
\* allows credentials if the command needs them; without a permit, an operator has
\* confirmed at a terminal and the environment allows it.  No gate is skipped either way.
LiveIsAuthorised ==
  \A p \in Procs : At(p, "live") =>
    LET e == exec[p]
        needsCredentials == ScopeOf[e.cmd] \in CredentialRequiredScopes
    IN  /\ ~e.input.ci /\ e.input.ready
        /\ e.cmd \notin PeriodFromPermit => e.query.kind = "metadata"
        /\ IF HasPermit(p)
           THEN LET doc == permits[e.permit] IN
                /\ doc.scope = ScopeOf[e.cmd]
                /\ doc.query.profile = e.query.profile
                /\ e.cmd \notin PeriodFromPermit => doc.query = e.query /\ e.query.days \in 1..7
                /\ needsCredentials => doc.credentials
                /\ e.time < doc.expires /\ e.head = doc.repo
           ELSE /\ e.cmd \notin PermitRequired
                /\ e.input.manual /\ e.input.confirmed /\ e.input.allowSat
                /\ needsCredentials => e.input.allowCredentials
                /\ e.cmd \notin PeriodFromPermit => e.query.days = 1

\* Creation and use agree: a permit that was issued is never refused for its own content
\* (_validated_request against _validate_document_policy), so a refusal means that it is
\* consumed, expired, of another commit, or for another operation.
IssuedIsAcceptable ==
  \A k \in PermitIds : permits[k].state # "absent" => StaticPolicy(permits[k])

\* A permit authorises one live operation ("One-time local permits", live_permit.py):
\* one command at a time, crashes at any step included.
OneUsePerPermit == \A k \in PermitIds : uses[k] <= 1

\* What overlapping commands still guarantee: a permit is used at most once by each command
\* that was running when it was spent, because the first write closes it to all others.
UsesWithinOverlap == \A k \in PermitIds : uses[k] <= Cardinality(Procs)

\* The permit as its holders see it: a torn document is as spent as a consumed one.
PhaseOf(doc) ==
  IF doc.state = "absent" THEN "unissued"
  ELSE IF doc.consumed \/ doc.state = "torn" THEN "spent" ELSE "valid"
HoldersOf(k) ==
  {p \in Procs : exec[p].permit = k /\ exec[p].step \in {"truncate", "write", "guard", "reload", "live"}}

Promise == INSTANCE OneTimePermit WITH
  Permits <- PermitIds, Commands <- Procs,
  phase <- [k \in PermitIds |-> PhaseOf(permits[k])],
  holders <- [k \in PermitIds |-> HoldersOf(k)],
  used <- uses

\* The documents, the guard and the commands implement the promise of live_permit.py,
\* however many commands overlap and wherever they crash: no permit is reopened, no command
\* is admitted once it is spent, and none acts without having been admitted.
ImplementsPermit == Promise!OneTime
=============================================================================

------------------------- MODULE RequestOrchestrator ------------------------
(***************************************************************************)
(* The offline orchestration of SAT requests: the registry of submitted    *)
(* requests with its two indexes and the service that submits and polls    *)
(* through it, the metadata-first run that goes from reconciliation        *)
(* decisions to downloaded packages (sat_orchestration.py), the cached     *)
(* authentication session both rest on (sat_auth.py) and the simulated SAT *)
(* they talk to (sat_simulator.py).  Calls are sequential; SAT's answers   *)
(* change from call to call.                                               *)
(***************************************************************************)
EXTENDS Integers, Sequences, FiniteSets, SequencesExt, SatContract

CONSTANTS
  Criteria,        \* tenant and criteria hash of a query
  Packages,        \* SAT's package identifiers
  NoRow,           \* nothing registered
  RefreshMargin,   \* refresh_margin of the session manager
  Lifetimes,       \* how long SAT makes a token valid, when it says so
  MaxClock,        \* the clock stops here
  MaxPolls,        \* bound on verifications
  MaxRuns          \* bound on metadata-first runs

ASSUME OrchestratorAssumption ==
  /\ NoRow \notin Criteria
  /\ RefreshMargin \in Nat /\ MaxClock \in Nat /\ MaxPolls \in Nat /\ MaxRuns \in Nat
  /\ Lifetimes \subseteq Nat

\* expires_at may be missing from the answer.
NoExpiry == -1

\* FakeSatScenario, as far as requests, verifications and downloads tell them apart.
Scenarios == {"request_accepted", "request_duplicate", "unauthorized", "verify_in_process",
              "package_expired", "downloads_exhausted", "internal_retryable_error"}

\* Request identifiers: one per criteria, and one text per refusal, whatever was asked.
IdOf(c) == <<"request", c>>
SharedIds == {<<"refused", s>> : s \in {"request_duplicate", "unauthorized", "internal_retryable_error"}}
RequestIds == {IdOf(c) : c \in Criteria} \cup SharedIds

-----------------------------------------------------------------------------
\* FakeSatScenarioClient: submit_request, verify_request, download_package.

RequestResult(id, code) == [id |-> id, action |-> ClassifySatOutcome("request", code, NoState)]
FakeSubmit(s, c) ==
  CASE s = "request_duplicate"        -> RequestResult(<<"refused", s>>, "5005")
    [] s = "unauthorized"             -> RequestResult(<<"refused", s>>, "5001")
    [] s = "internal_retryable_error" -> RequestResult(<<"refused", s>>, "404")
    [] OTHER                          -> RequestResult(IdOf(c), "5000")

\* VerificationResult with the packages it names.
Answer(state, code, packages) ==
  [state |-> state, action |-> VerificationResult(state, code).action, packages |-> packages]
FakeVerify(s, packages) ==
  CASE s = "verify_in_process"        -> Answer("in_process", "5000", <<>>)
    [] s = "internal_retryable_error" -> Answer("error", "404", <<>>)
    [] OTHER                          -> Answer("finished", "5000", packages)

FakeDownload(s) ==
  ClassifySatOutcome("download",
    CASE s = "package_expired"          -> "5007"
      [] s = "downloads_exhausted"      -> "5008"
      [] s = "internal_retryable_error" -> "404"
      [] OTHER                          -> "5000", NoState)

\* Package lists of an answer, and the answers of a verifier: the simulator's, and those
\* of a client that reports any other state, packages included (as the tests' own does).
PackageLists == {<<>>} \cup {<<p>> : p \in Packages} \cup {<<p, q>> : p, q \in Packages}
Verifications ==
  {FakeVerify(s, ps) : s \in Scenarios, ps \in PackageLists}
    \cup {Answer(st, "5000", ps) :
            st \in {"accepted", "rejected", "expired"}, ps \in PackageLists}

VARIABLES
  service,      \* which of the two services the process drives
  byCriteria,   \* [Criteria -> row or NoRow]
  byRequestId,  \* [RequestIds -> row or NoRow]
  polls,
  submitted,    \* history: [Criteria -> number of submissions by submit_once]
  reported,     \* history: [RequestIds -> packages in its finished answers]
  clock,
  session,      \* the cached session: when it was created and when it expires
  handed,       \* history: the session authenticate returned last, when, and reused or new
  run,          \* the metadata-first run, see Runs
  runs

registryVars == <<byCriteria, byRequestId, polls, submitted, reported>>
sessionVars == <<session, handed>>
runVars == <<run, runs>>
orchVars == <<service, registryVars, clock, sessionVars, runVars>>

Row == [criteria : Criteria, id : RequestIds, submission : SatActions,
        state : RequestStates \cup {NoState}, action : SatActions, packages : Seq(Packages)]
ASSUME RowAssumption == NoRow \notin Row

NoSession == [created |-> 0, expires |-> 0, exists |-> FALSE]
IdleRun(status) == [step |-> "idle", criteria |-> NoRow, needed |-> FALSE, id |-> <<>>,
                    todo |-> <<>>, promised |-> {}, downloaded |-> {}, status |-> status]

OrchInit ==
  /\ service \in {"requests", "metadata_first"}
  /\ byCriteria = [c \in Criteria |-> NoRow] /\ byRequestId = [i \in RequestIds |-> NoRow]
  /\ polls = 0
  /\ submitted = [c \in Criteria |-> 0] /\ reported = [i \in RequestIds |-> {}]
  /\ clock = 0
  /\ session = NoSession
  /\ handed = [session |-> NoSession, at |-> 0, reused |-> FALSE]
  /\ run = IdleRun("none") /\ runs = 0
-----------------------------------------------------------------------------
\* InMemorySatRequestRegistry and DownloadRequestOrchestrator.

\* Mutant: the row is stored under its request id only.
StoreById(row) ==
  /\ byRequestId' = [byRequestId EXCEPT ![row.id] = row]
  /\ byCriteria' = IF byCriteria[row.criteria] = NoRow
                   THEN [byCriteria EXCEPT ![row.criteria] = row] ELSE byCriteria

\* _store
Store(row) ==
  /\ byCriteria' = [byCriteria EXCEPT ![row.criteria] = row]
  /\ byRequestId' = [byRequestId EXCEPT ![row.id] = row]

\* submit_once and register_submission: refused submissions are registered as well, and
\* criteria that are registered are never submitted again.
SubmitOnce(c, s) ==
  /\ byCriteria[c] = NoRow
  /\ LET result == FakeSubmit(s, c)
     IN  Store([criteria |-> c, id |-> result.id, submission |-> result.action,
                state |-> NoState, action |-> result.action, packages |-> <<>>])
  /\ submitted' = [submitted EXCEPT ![c] = @ + 1]
  /\ UNCHANGED <<polls, reported, clock, sessionVars, runVars>>

\* Mutant: the ids of the latest answer replace the known ones.
LatestOnly(existing, incoming) == incoming

\* _append_unique
AppendUnique(existing, incoming) ==
  FoldLeft(LAMBDA known, p : IF Contains(known, p) THEN known ELSE Append(known, p),
           existing, incoming)

\* record_verification: state and action are those of the latest answer; ids are added
\* only when it is finished.
Recorded(row, v) ==
  [row EXCEPT !.state = v.state, !.action = v.action,
              !.packages = IF v.action = "finished" THEN AppendUnique(row.packages, v.packages)
                                                    ELSE row.packages]

\* poll_once, for an id that is registered (any other ends in a KeyError).
PollOnce(id, v) ==
  /\ byRequestId[id] # NoRow
  /\ polls < MaxPolls
  /\ polls' = polls + 1
  /\ Store(Recorded(byRequestId[id], v))
  /\ reported' = IF v.action = "finished" THEN [reported EXCEPT ![id] = @ \cup ToSet(v.packages)]
                 ELSE reported
  /\ UNCHANGED <<submitted, clock, sessionVars, runVars>>

-----------------------------------------------------------------------------
\* SatAuthSessionManager.

\* Mutant: a session that expires exactly at the margin is still good.
RefreshLate(s, now) == s.expires # NoExpiry /\ s.expires < now + RefreshMargin

\* _needs_refresh
NeedsRefresh(s, now) == s.expires # NoExpiry /\ s.expires <= now + RefreshMargin

Reusable == session.exists /\ ~NeedsRefresh(session, clock)
HandOut(s, reused) == handed' = [session |-> s, at |-> clock, reused |-> reused]

ReuseSession ==
  /\ Reusable
  /\ HandOut(session, TRUE)
  /\ UNCHANGED session

\* The authenticator (SatSoapAuthenticator) got a token from SAT.
NewSession(lifetime) ==
  LET new == [created |-> clock, exists |-> TRUE,
              expires |-> IF lifetime = NoExpiry THEN NoExpiry ELSE clock + lifetime]
  IN  /\ ~Reusable
      /\ session' = new
      /\ HandOut(new, FALSE)

\* authenticate() called for itself; when SAT refuses, the old session stays cached.
Authenticate ==
  /\ ReuseSession \/ \E l \in Lifetimes \cup {NoExpiry} : NewSession(l)
  /\ UNCHANGED <<registryVars, clock, runVars>>

Invalidate ==
  /\ session.exists
  /\ session' = NoSession
  /\ UNCHANGED <<registryVars, clock, handed, runVars>>

Tick ==
  /\ clock < MaxClock
  /\ clock' = clock + 1
  /\ UNCHANGED <<registryVars, sessionVars, runVars>>

-----------------------------------------------------------------------------
\* MetadataFirstSatOrchestrator.run

Finish(status) == run' = [run EXCEPT !.step = "idle", !.status = status]

\* _result_from_action
StatusOf(action) == IF action = "retry" THEN "retry" ELSE "terminal"

\* needed: some decision says should_download_xml.
StartRun(c, needed) ==
  /\ run.step = "idle"
  /\ runs < MaxRuns
  /\ runs' = runs + 1
  /\ run' = [IdleRun(IF needed THEN "none" ELSE "skipped") EXCEPT
               !.criteria = c, !.needed = needed, !.step = IF needed THEN "auth" ELSE "idle"]
  /\ UNCHANGED <<registryVars, clock, sessionVars>>

RunAuthenticate ==
  /\ run.step = "auth"
  /\ \/ /\ ReuseSession \/ \E l \in Lifetimes \cup {NoExpiry} : NewSession(l)
        /\ run' = [run EXCEPT !.step = "submit"]
     \/ ~Reusable /\ Finish("error") /\ UNCHANGED sessionVars
  /\ UNCHANGED <<registryVars, clock, runs>>

RunSubmit(s) ==
  /\ run.step = "submit"
  /\ LET result == FakeSubmit(s, run.criteria)
     IN  IF result.action = "accepted" THEN run' = [run EXCEPT !.step = "verify", !.id = result.id]
         ELSE Finish(StatusOf(result.action))
  /\ UNCHANGED <<registryVars, clock, sessionVars, runs>>

RunVerify(v) ==
  /\ run.step = "verify"
  /\ CASE v.action \in {"accepted", "in_progress"} -> Finish("waiting")
       [] v.action = "finished" ->
            run' = [run EXCEPT !.step = "download", !.todo = v.packages, !.promised = ToSet(v.packages)]
       [] OTHER -> Finish(StatusOf(v.action))
  /\ UNCHANGED <<registryVars, clock, sessionVars, runs>>

\* Mutant: a package that cannot be had is passed over.
SkipFailedDownload(s) ==
  /\ run.step = "download" /\ run.todo # <<>>
  /\ run' = [run EXCEPT !.todo = Tail(@),
       !.downloaded = IF FakeDownload(s) = "finished" THEN @ \cup {Head(run.todo)} ELSE @]
  /\ UNCHANGED <<registryVars, clock, sessionVars, runs>>

\* The first package that cannot be had ends the run.
RunDownload(s) ==
  /\ run.step = "download" /\ run.todo # <<>>
  /\ IF FakeDownload(s) = "finished"
     THEN run' = [run EXCEPT !.todo = Tail(@), !.downloaded = @ \cup {Head(run.todo)}]
     ELSE Finish(StatusOf(FakeDownload(s)))
  /\ UNCHANGED <<registryVars, clock, sessionVars, runs>>

RunDone ==
  /\ run.step = "download" /\ run.todo = <<>>
  /\ Finish("downloaded")
  /\ UNCHANGED <<registryVars, clock, sessionVars, runs>>

RequestsNext ==
  \/ \E c \in Criteria, s \in Scenarios : SubmitOnce(c, s)
  \/ \E i \in RequestIds, v \in Verifications : PollOnce(i, v)

MetadataFirstNext ==
  \/ Authenticate \/ Invalidate \/ Tick
  \/ \E c \in Criteria, needed \in BOOLEAN : StartRun(c, needed)
  \/ RunAuthenticate \/ RunDone
  \/ \E s \in Scenarios : RunSubmit(s) \/ RunDownload(s)
  \/ \E v \in Verifications : RunVerify(v)

OrchNext ==
  /\ IF service = "requests" THEN RequestsNext ELSE MetadataFirstNext
  /\ UNCHANGED service

OrchSpec == OrchInit /\ [][OrchNext]_orchVars

-----------------------------------------------------------------------------
\* The two indexes of the registry tell the same story of every request SAT accepted:
\* looked up by its criteria or by its id, it is the same row.  (Refused requests may
\* share an id, and then only the latest of them is found by it.)
IndexesAgree ==
  \A c \in Criteria :
    byCriteria[c] # NoRow /\ byCriteria[c].submission = "accepted"
      => byRequestId[byCriteria[c].id] = byCriteria[c]

\* Package ids are neither lost, nor doubled, nor invented by the answers that follow:
\* an accepted request holds exactly the ids of its finished answers, each once, even
\* when later answers say that it expired or failed.
PackagesAreKept ==
  \A c \in Criteria :
    LET row == byCriteria[c]
    IN  row # NoRow /\ row.submission = "accepted" =>
          /\ ToSet(row.packages) = reported[row.id]
          /\ Len(row.packages) = Cardinality(reported[row.id])

\* A session taken from the cache does not expire within the refresh margin of the
\* moment it was handed out, so a call that takes less than the margin never presents an
\* expired token, whatever refreshes, failures and invalidations came before.
ReusedSessionOutlivesMargin ==
  handed.reused /\ clock <= handed.at + RefreshMargin =>
    handed.session.expires = NoExpiry \/ handed.session.expires > clock

\* A run that reports "downloaded" has all the packages of SAT's finished answer, and a
\* run takes packages only when reconciliation asked for XML.
DownloadedMeansAll ==
  /\ run.status = "downloaded" => run.downloaded = run.promised
  /\ run.downloaded # {} => run.needed /\ run.downloaded \subseteq run.promised
=============================================================================

--------------------------- MODULE VerifyScheduler ---------------------------
(***************************************************************************)
(* The life of a live SAT metadata request, from the command that submits  *)
(* it to the command that downloads its packages, driven by one-shot CLI   *)
(* processes that share nothing but the JSON state file:                   *)
(*                                                                         *)
(*   sat metadata-request-smoke, sat backfill submit   (cli.py)            *)
(*   sat verify-due, with the fake verifier or live    (cli.py,            *)
(*                                                      sat_async_verify.py) *)
(*   sat package-download-smoke                        (cli.py)            *)
(*                                                                         *)
(* The file is replaced atomically (os.replace) but nothing locks it       *)
(* between the read and the write of an upsert, so both are steps of their *)
(* own; so is every answer of SAT.  A process can crash, or give up on an  *)
(* I/O error, between any two of its steps.                                *)
(***************************************************************************)
EXTENDS LiveRequestState

CONSTANTS
  Procs,          \* CLI processes that may run at the same time
  Commands,       \* the commands in use: "smoke", "backfill", "verify", "live", "download"
  Criteria,       \* criteria hashes of the queries an operator submits
  NoCriteria,     \* "SAT has not issued this reference"
  LegacyRefs,     \* references found at the start in a file of an older version
  VerifyResults,  \* what the live verifier may answer
  MaxLimit,       \* largest --limit used
  MaxClock,       \* the clock stops here
  LastSubmit,     \* bound on the time of a submission
  MaxCrashes      \* bound on crashes and I/O errors

ASSUME SchedulerAssumption ==
  /\ Procs # {}
  /\ NoCriteria \notin Criteria
  /\ Criteria # {}
  /\ LegacyRefs \subseteq Refs
  /\ VerifyResults \subseteq
       [state : RequestStates, code : SatCodes, action : SatActions]
  /\ MaxLimit \in Nat \ {0}
  /\ MaxClock \in Nat /\ LastSubmit \in Nat /\ MaxCrashes \in Nat

VARIABLES
  file,      \* [Refs -> Record], the state file
  clock,     \* wall clock
  run,       \* [Procs -> Run], the command each process is executing
  crashes,   \* crashes so far
  issued,    \* [Refs -> criteria SAT accepted it for, or NoCriteria]
  lost,      \* history: accepted references whose command ended without storing them
  stored,    \* [Refs -> packages whose bytes are in local storage]
  calls,     \* history: live verifications SAT was asked for
  lastCall   \* history: the run time of the latest of them, or NoTime

vars == <<file, clock, run, crashes, issued, lost, stored, calls, lastCall>>

-----------------------------------------------------------------------------
\* A command in execution.  cur and rec are the reference and the record the
\* next upsert stores, buf what that upsert has read, then where it continues.
Steps == {"idle", "submit", "guard", "batch", "call", "download", "read", "write"}
Run == [step : Steps,
        then : {"idle", "batch", "call"},
        live : BOOLEAN,
        now  : Nat,                    \* `now` of run_verify_due
        todo : SUBSET Refs,            \* selected records not yet verified
        snap : [Refs -> Record],       \* the selected records as run_verify_due read them
        cur  : Refs,
        pkg  : SUBSET Packages,        \* package being downloaded
        rec  : Record,
        buf  : [Refs -> Record],
        crit : Criteria \cup {NoCriteria}]

EmptyFile == [r \in Refs |-> Absent]

IdleRun == [step |-> "idle", then |-> "idle", live |-> FALSE, now |-> 0, todo |-> {},
            snap |-> EmptyFile, cur |-> CHOOSE r \in Refs : TRUE, pkg |-> {},
            rec |-> Absent, buf |-> EmptyFile, crit |-> NoCriteria]

At(p, step) == run[p].step = step
Set(p, r) == run' = [run EXCEPT ![p] = r]
Quit(p) == Set(p, IdleRun)

\* Store rec under reference r, then continue with step `then`.
StartUpsert(p, r, rec, then) ==
  Set(p, [run[p] EXCEPT !.step = "read", !.cur = r, !.rec = rec, !.then = then])

\* A record written before statuses were normalised and checks were scheduled.
LegacyRecord == [Absent EXCEPT !.status = "accepted"]

Init ==
  /\ file = [r \in Refs |-> IF r \in LegacyRefs THEN LegacyRecord ELSE Absent]
  /\ clock = 0
  /\ run = [p \in Procs |-> IdleRun]
  /\ crashes = 0
  /\ issued \in {f \in [Refs -> Criteria \cup {NoCriteria}] :
                   \A r \in Refs : f[r] # NoCriteria <=> r \in LegacyRefs}
  /\ lost = {}
  /\ stored = [r \in Refs |-> {}]
  /\ calls = [r \in Refs |-> 0]
  /\ lastCall = [r \in Refs |-> NoTime]

history == <<calls, lastCall>>
-----------------------------------------------------------------------------
\* Submission.

\* sat metadata-request-smoke goes straight to SAT; it never looks at the file.
SmokeSubmit(p, c) ==
  /\ "smoke" \in Commands
  /\ At(p, "idle")
  /\ Set(p, [IdleRun EXCEPT !.step = "submit", !.crit = c])
  /\ UNCHANGED <<file, clock, crashes, issued, lost, stored, history>>

\* Mutant: the plan looks at requests still pending only.
HasPendingRequest(c) ==
  \E r \in Refs : file[r].status \in PendingVerifyStatuses /\ issued[r] = c

\* build_backfill_plan: a window whose criteria hash already has a record is skipped.
HasRequest(c) == \E r \in Refs : Exists(file, r) /\ issued[r] = c

\* sat backfill submit
BackfillSubmit(p, c) ==
  /\ "backfill" \in Commands
  /\ At(p, "idle")
  /\ ~HasRequest(c)
  /\ Set(p, [IdleRun EXCEPT !.step = "submit", !.crit = c])
  /\ UNCHANGED <<file, clock, crashes, issued, lost, stored, history>>

\* SAT accepts the request under a fresh IdSolicitud and the command goes on to
\* persist it (_run_live_metadata_request_smoke, persist_live_metadata_request).
SubmitAccepted(p, r) ==
  /\ At(p, "submit")
  /\ issued[r] = NoCriteria
  /\ clock <= LastSubmit
  /\ issued' = [issued EXCEPT ![r] = run[p].crit]
  /\ StartUpsert(p, r, NewRecord(clock), "idle")
  /\ UNCHANGED <<file, clock, crashes, lost, stored, history>>

\* SAT accepts the request, but the answer does not arrive: the send times out, or what
\* arrives cannot be parsed, or the process dies.  Nothing is persisted (SatLiveSmokeError).
AnswerLost(p, r) ==
  /\ At(p, "submit")
  /\ issued[r] = NoCriteria
  /\ clock <= LastSubmit
  /\ issued' = [issued EXCEPT ![r] = run[p].crit]
  /\ lost' = lost \cup {r}
  /\ Quit(p)
  /\ UNCHANGED <<file, clock, crashes, stored, history>>

\* A guard denies, SAT refuses, or the request does not reach it: nothing is persisted.
SubmitRefused(p) ==
  /\ At(p, "submit")
  /\ Quit(p)
  /\ UNCHANGED <<file, clock, crashes, issued, lost, stored, history>>

-----------------------------------------------------------------------------
\* The upsert every command ends in.

UpsertRead(p) ==
  /\ At(p, "read")
  /\ Set(p, [run[p] EXCEPT !.step = "write", !.buf = ReadState(file)])
  /\ UNCHANGED <<file, clock, crashes, issued, lost, stored, history>>

UpsertWrite(p) ==
  /\ At(p, "write")
  /\ file' = UpsertInto(run[p].buf, run[p].cur, run[p].rec)
  /\ IF run[p].then = "idle"
     THEN Quit(p)
     ELSE Set(p, [run[p] EXCEPT !.step = run[p].then, !.buf = EmptyFile])
  /\ UNCHANGED <<clock, crashes, issued, lost, stored, history>>

-----------------------------------------------------------------------------
\* Verification.

\* run_verify_due up to its loop: the time and the records are read once.
Select(p, scope, limit, live) ==
  LET snap == ReadState(file)
      due  == DueRefs(snap, scope, clock)
  IN  /\ due # {}
      /\ \E todo \in FirstDue(due, snap, limit) :
           Set(p, [IdleRun EXCEPT !.step = "batch", !.live = live, !.now = clock,
                                  !.todo = todo,
                                  !.snap = [r \in Refs |-> IF r \in todo THEN snap[r] ELSE Absent]])

\* sat verify-due without a permit: FakeSatScenarioClient(VERIFY_IN_PROCESS)
\* stands in for SAT, for all requests or for the one of --request-ref.
VerifyDue(p, scope, limit) ==
  /\ "verify" \in Commands
  /\ At(p, "idle")
  /\ Select(p, scope, limit, FALSE)
  /\ UNCHANGED <<file, clock, crashes, issued, lost, stored, history>>

\* sat verify-due --manual-real-sat --permit: the dry run must select the one
\* request before the permit is spent.
LivePreflight(p, r) ==
  /\ "live" \in Commands
  /\ At(p, "idle")
  /\ IsDue(ReadState(file)[r], clock)
  /\ Set(p, [IdleRun EXCEPT !.step = "guard", !.cur = r])
  /\ UNCHANGED <<file, clock, crashes, issued, lost, stored, history>>

\* The guard passes and run_verify_due reads the file again.
LiveVerifyDue(p) ==
  /\ At(p, "guard")
  /\ Select(p, {run[p].cur}, 1, TRUE)
  /\ UNCHANGED <<file, clock, crashes, issued, lost, stored, history>>

\* The guard denies, or the second read no longer finds the request due.
LiveDenied(p) ==
  /\ At(p, "guard")
  /\ Quit(p)
  /\ UNCHANGED <<file, clock, crashes, issued, lost, stored, history>>

\* _verify_one up to the call of the verifier, on the record of the snapshot.
VerifyOne(p, r) ==
  LET rec == run[p].snap[r]
      now == run[p].now
  IN
  /\ At(p, "batch")
  /\ r \in run[p].todo
  /\ \A other \in run[p].todo \ {r} : Earlier(run[p].snap, r, other)
  /\ Set(p, [run[p] EXCEPT
       !.step = "read", !.cur = r, !.todo = @ \ {r},
       !.rec  = IF IsExpired(rec, now) THEN Rewrite(rec, "VERIFY_EXPIRED", now, 0)
                ELSE IF AttemptsExhausted(rec.attempts)
                     THEN Rewrite(rec, "VERIFY_FAILED_PERMANENT", now, 0)
                ELSE InProgress(rec),
       !.then = IF IsExpired(rec, now) \/ AttemptsExhausted(rec.attempts)
                THEN "batch" ELSE "call"])
  /\ UNCHANGED <<file, clock, crashes, issued, lost, stored, history>>

\* The loop of run_verify_due is over.
BatchDone(p) ==
  /\ At(p, "batch")
  /\ run[p].todo = {}
  /\ Quit(p)
  /\ UNCHANGED <<file, clock, crashes, issued, lost, stored, history>>

\* A live verification is about to be recorded: SAT has been asked once more.
CountCall(p) ==
  IF run[p].live
  THEN /\ calls' = [calls EXCEPT ![run[p].cur] = @ + 1]
       /\ lastCall' = [lastCall EXCEPT ![run[p].cur] = run[p].now]
  ELSE UNCHANGED history

\* Mutant: the fake verifier runs another scenario.
AnswersAlike(p) == VerifyResults

\* The live verifier, or FakeSatScenarioClient(VERIFY_IN_PROCESS).
Answers(p) == IF run[p].live THEN VerifyResults
              ELSE {VerificationResult("in_process", "5000")}

\* The verifier answers (_record_result).
VerifierAnswers(p) ==
  /\ At(p, "call")
  /\ \E result \in Answers(p),
        packages \in SUBSET Packages,
        delay \in NextDelays(run[p].rec.attempts + 1) :
       StartUpsert(p, run[p].cur,
                   RecordResult(run[p].rec, result, packages, run[p].now, delay), "batch")
  /\ CountCall(p)
  /\ UNCHANGED <<file, clock, crashes, issued, lost, stored>>

\* The live verifier raises: transport, authentication or parse failure.
VerifierRaises(p) ==
  /\ At(p, "call")
  /\ run[p].live
  /\ \E delay \in NextDelays(run[p].rec.attempts + 1) :
       StartUpsert(p, run[p].cur,
                   RetryOrPermanent(run[p].rec, run[p].now, delay), "batch")
  /\ CountCall(p)
  /\ UNCHANGED <<file, clock, crashes, issued, lost, stored>>

-----------------------------------------------------------------------------
\* Package download.

\* sat package-download-smoke: the request must be PACKAGE_READY and the
\* reference must name one of its packages.
DownloadPackage(p, r, k) ==
  LET rec == ReadState(file)[r] IN
  /\ "download" \in Commands
  /\ At(p, "idle")
  /\ rec.status = "PACKAGE_READY"
  /\ k \in rec.packages
  /\ Set(p, [IdleRun EXCEPT !.step = "download", !.cur = r, !.pkg = {k}, !.rec = rec])
  /\ UNCHANGED <<file, clock, crashes, issued, lost, stored, history>>

\* Mutant: the status is updated without storing the package.
PackageNotStored(p) ==
  /\ At(p, "download")
  /\ StartUpsert(p, run[p].cur,
                 [run[p].rec EXCEPT !.status = "PACKAGE_DOWNLOADED"], "idle")
  /\ UNCHANGED <<file, clock, crashes, issued, lost, stored, history>>

\* SAT delivers, the ZIP and its entries are stored and the metadata parses:
\* the record loaded before the download is stored as PACKAGE_DOWNLOADED.
PackageDelivered(p) ==
  /\ At(p, "download")
  /\ stored' = [stored EXCEPT ![run[p].cur] = @ \cup run[p].pkg]
  /\ StartUpsert(p, run[p].cur,
                 [run[p].rec EXCEPT !.status = "PACKAGE_DOWNLOADED"], "idle")
  /\ UNCHANGED <<file, clock, crashes, issued, lost, history>>

\* SAT does not deliver, or the package is rejected before or after it is
\* stored: the command fails and the request stays PACKAGE_READY.
DownloadFails(p) ==
  /\ At(p, "download")
  /\ \/ UNCHANGED stored
     \/ stored' = [stored EXCEPT ![run[p].cur] = @ \cup run[p].pkg]
  /\ Quit(p)
  /\ UNCHANGED <<file, clock, crashes, issued, lost, history>>

-----------------------------------------------------------------------------
\* The upsert of process p is to store a reference that is not on file.
StoresNew(p) == run[p].step \in {"read", "write"} /\ ~Exists(file, run[p].cur)

\* A crash, or an I/O error that ends the command (LiveRequestStateError).
Crash(p) ==
  /\ ~At(p, "idle")
  /\ crashes < MaxCrashes
  /\ crashes' = crashes + 1
  /\ lost' = IF StoresNew(p) THEN lost \cup {run[p].cur} ELSE lost
  /\ Quit(p)
  /\ UNCHANGED <<file, clock, issued, stored, history>>

Tick ==
  /\ clock < MaxClock
  /\ clock' = clock + 1
  /\ UNCHANGED <<file, run, crashes, issued, lost, stored, history>>

\* The steps a started command takes by itself.
Proceed(p) ==
  \/ \E r \in Refs : SubmitAccepted(p, r) \/ AnswerLost(p, r) \/ VerifyOne(p, r)
  \/ SubmitRefused(p)
  \/ UpsertRead(p) \/ UpsertWrite(p)
  \/ LiveVerifyDue(p) \/ LiveDenied(p)
  \/ BatchDone(p) \/ VerifierAnswers(p) \/ VerifierRaises(p)
  \/ PackageDelivered(p) \/ DownloadFails(p)

\* The commands an operator or the task scheduler starts.
Command(p) ==
  \/ \E c \in Criteria : SmokeSubmit(p, c) \/ BackfillSubmit(p, c)
  \/ \E limit \in 1..MaxLimit : VerifyDue(p, Refs, limit)
  \/ \E r \in Refs : VerifyDue(p, {r}, 1) \/ LivePreflight(p, r)
  \/ \E r \in Refs, k \in Packages : DownloadPackage(p, r, k)

Next ==
  \/ Tick
  \/ \E p \in Procs : Command(p) \/ Proceed(p) \/ Crash(p)

Spec == Init /\ [][Next]_vars

\* The periodic task of the operating system keeps starting
\* `sat verify-due --limit 1`, a started command runs to its end, time passes.
Fairness ==
  /\ WF_vars(Tick)
  /\ \A p \in Procs : WF_vars(Proceed(p)) /\ SF_vars(VerifyDue(p, Refs, 1))

FairSpec == Spec /\ Fairness
-----------------------------------------------------------------------------
\* Every variable keeps its type; in particular every record of the file, of a
\* snapshot and of an upsert in progress is a LiveMetadataRequestRecord.
TypeOK ==
  /\ file \in [Refs -> Record]
  /\ clock \in Nat
  /\ run \in [Procs -> Run]
  /\ crashes \in Nat
  /\ issued \in [Refs -> Criteria \cup {NoCriteria}]
  /\ lost \in SUBSET Refs
  /\ stored \in [Refs -> SUBSET Packages]
  /\ calls \in [Refs -> Nat]
  /\ lastCall \in [Refs -> Times]

\* A record as the scheduler may hold it: a pending one has a next check no later
\* than its expiry, so it always comes due; a closed one has none; the attempt
\* budget of the policy is never exceeded and is not spent while a verification
\* is under way; packages are known only once SAT has finished.
Schedulable(rec) ==
  /\ rec.status \in PendingVerifyStatuses => rec.next \in 0..rec.expires
  /\ rec.status \in TerminalVerifyStatuses => rec.next = NoTime
  /\ rec.status = "VERIFY_IN_PROGRESS" => rec.attempts < MaxAttempts
  /\ rec.attempts <= MaxAttempts
  /\ rec.packages # {} => rec.status \in {"PACKAGE_READY", "PACKAGE_DOWNLOADED"}

\* Whatever the interleaving of processes, lost updates and crashes included, every
\* record a reader of the file sees is schedulable (from_document, _verify_one,
\* _record_result, _retry_or_permanent, _next_check_at).
ScheduleConsistent == \A r \in Refs : Exists(file, r) => Schedulable(ReadState(file)[r])

\* A request is PACKAGE_DOWNLOADED only if one of its packages is in local storage:
\* _run_live_package_download_smoke stores before it updates the state file, so a
\* crash in between loses the status, never the evidence.
EvidenceBeforeDownloaded ==
  \A r \in Refs : file[r].status = "PACKAGE_DOWNLOADED" => stored[r] \cap file[r].packages # {}

\* "Download all packages before marking the request complete"
\* (docs/sat-download/user-facing-errors.md).
AllPackagesStored ==
  \A r \in Refs : file[r].status = "PACKAGE_DOWNLOADED" => file[r].packages \subseteq stored[r]

\* The fake verifier of a permit-less verify-due can delay a request or use up its
\* attempts, but only SAT can settle it: a request with an outcome of SAT in its
\* status has been verified live at least once.
OutcomeComesFromSat ==
  \A r \in Refs :
    file[r].status \in {"PACKAGE_READY", "PACKAGE_DOWNLOADED", "VERIFY_NO_DATA", "VERIFY_REJECTED"}
      => calls[r] > 0

MinBackoff == CHOOSE d \in {SecondDelay, ThirdDelay, FourthDelay, LaterMinDelay} :
                \A e \in {SecondDelay, ThirdDelay, FourthDelay, LaterMinDelay} : d <= e

\* One process at a time: two live verifications of a request are at least the
\* shortest delay of the policy apart, however often verify-due is started and
\* although next_check_at is cut at the expiry (_next_check_at, _due_records).
BackoffRespected ==
  [][\A r \in Refs : calls'[r] > calls[r] /\ lastCall[r] # NoTime
                       => lastCall'[r] >= lastCall[r] + MinBackoff]_vars

\* The phase of a request that its record on file stands for.
Phase(rec) ==
  CASE rec.status = "ABSENT"             -> "untracked"
    [] rec.status = "PACKAGE_READY"      -> "ready"
    [] rec.status = "PACKAGE_DOWNLOADED" -> "downloaded"
    [] rec.status \in TerminalVerifyStatuses \ {"PACKAGE_READY", "PACKAGE_DOWNLOADED"} -> "closed"
    [] OTHER                             -> "open"

Abstract == INSTANCE RequestLifecycle WITH
  Requests <- Refs, Budget <- MaxAttempts,
  phase <- [r \in Refs |-> Phase(file[r])], asked <- calls, evidence <- stored

\* One process at a time: whatever the commands do with the file, and wherever they crash,
\* a request lives as RequestLifecycle says.  SAT is asked about it at most max_attempts
\* times and only while it is open ("prevents endless retries",
\* docs/sat-download/async-verify-scheduler.md), a settled request is never reopened, and
\* a package is stored before the request is PACKAGE_DOWNLOADED.
ImplementsLifecycle == Abstract!Lifecycle

\* One process at a time: no upsert drops the record of another request or takes
\* back an attempt that was already counted.
ProgressKept ==
  [][\A r \in Refs : Exists(file, r) =>
       Exists(file', r) /\ file'[r].attempts >= file[r].attempts]_vars

\* One process at a time: a request SAT has accepted is in the file, or the process that
\* submitted it is about to write it there, unless its answer was lost or the process died
\* first; and what was lost that way is never found again.
AcceptedIsTracked ==
  \A r \in Refs : issued[r] # NoCriteria =>
    (Exists(file, r) \/ \E p \in Procs : run[p].step \in {"read", "write"} /\ run[p].cur = r)
      <=> r \notin lost

\* A backfill asks SAT once per criteria hash ("Detect criteria hash and avoid duplicate
\* request", docs/sat-download/user-facing-errors.md), lost requests apart: of two requests
\* for the same window one at least was lost before it was on file.
OneRequestPerCriteria ==
  \A r, s \in Refs :
    issued[r] = issued[s] /\ issued[r] # NoCriteria /\ r # s => r \in lost \/ s \in lost

\* A process died while it was verifying: no later verify-due selects the record.
Stranded(r) ==
  /\ crashes > 0 /\ file[r].status = "VERIFY_IN_PROGRESS"
  /\ \A p \in Procs : At(p, "idle") \/ run[p].cur # r

\* Every request on file is eventually settled: it expires, its attempts run out, or
\* SAT settles it, as long as verify-due keeps being started; only a crash in the middle of
\* its own verification strands a request.
RequestsSettle ==
  \A r \in Refs :
    Exists(file, r) ~> file[r].status \in TerminalVerifyStatuses \/ Stranded(r)

\* "Expired work becomes terminal" (docs/sat-download/async-verify-scheduler.md).
ExpiredBecomesTerminal ==
  \A r \in Refs : (Exists(file, r) /\ clock >= ReadState(file)[r].expires)
                    ~> file[r].status \in TerminalVerifyStatuses
=============================================================================

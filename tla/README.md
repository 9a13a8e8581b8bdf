# Formal models of cfdi-vault

TLA+ models of the parts of `cfdi-vault` whose correctness depends on order, overlap,
failure or time: the scheduler of live SAT requests, the one-time permits that gate live
operations, the setup of credentials and the exchanges that use them, the recovery jobs of
the offline pipeline, the metadata ledger, the offline orchestration, and the local parts
(package extraction, XML vault, configuration, backfill plan). TLC checks them on small
instances; TLAPS proves their safety for every size: every invariant, action property and
refinement that holds in the runs is a theorem, and only liveness is not.
`PROJECT.json` lists components, runs, the source lines behind every definition, findings,
hazards, theorems and, for every checked property, a plausible programming error that it
catches.

## The system

The program recovers Mexican electronic invoices (CFDI) from the tax authority (SAT). It is
a command-line tool (`cli.py`) around files, a database and a broker.

| Component | State | Operations | Works with |
|---|---|---|---|
| Outcome policy (`sat_contract.py`, `sat_soap_parse.py`) | none | classify a SAT answer | everything that talks to SAT |
| Live request state (`sat_live_request_state.py`) | `live-metadata-requests.json`, one record per accepted request | persist, upsert, list, normalise old records | submit, verify and download commands |
| Verify scheduler (`sat_async_verify.py`) | the records above | select due records, verify, count attempts, back off, expire | started again and again by the task scheduler of the OS |
| Live commands (`cli.py`) | none of their own | metadata-request-smoke, backfill submit, verify-due, package-download-smoke | state file, permits, SAT |
| Live permits and guard (`live_permit.py`, `sat_transport.py`) | one JSON document per permit | create, validate and consume, evaluate gates | every live command |
| Credential setup (`setup_*.py`, `secrets.py`, `windows_secrets.py`) | staged, backed-up and final credential files, phrase, profile | discover, stage, commit, finalize, roll back | live commands |
| Live adapter (`sat_live_smoke.py`, `sat_auth_http.py`, `sat_soap.py`) | the material one command has loaded | load, authenticate, request, verify, download | profile, secret store, SAT |
| Probes (`sat_*_probe.py`) | none | classify exceptions and answers | operators compare them with the adapter |
| Backfill (`sat_backfill.py`) | none of its own | cut a range into windows, skip known ones, submit the next | state file |
| Recovery jobs and worker (`recovery_service.py`, `queueing.py`, `worker.py`) | job, request and package rows; queue `sat.request` | sync, publish, consume, process, acknowledge | database, RabbitMQ, storage |
| Evidence storage (`storage.py`) | files under keys made of their hashes | `write_bytes_idempotent` | jobs, imports, package download |
| Metadata ledger (`reconciliation.py`, `recovery_service.py`) | ledger, document, evidence and event rows | upsert metadata, store XML, reconcile | jobs, metadata import, `reconcile` command |
| Orchestration and simulator (`sat_orchestration.py`, `sat_auth.py`, `sat_simulator.py`) | in-memory registry, cached session | submit once, poll once, run | SAT ports |
| Package and metadata processing (`package_processor.py`, `metadata_parser.py`) | extracted files | validate, extract, parse rows | storage |
| XML vault (`service.py`, `db.py`, parsers) | SQLite invoices | import a file or a ZIP | none |
| Configuration and onboarding (`config.py`, `onboarding.py`) | one JSON document of profiles | read, validate, add or replace, rewrite | setup, operators |
| Progress cache, lints, oracle | one key or one text each | | |

What is hard in it: the tool runs as many one-shot processes that share files nobody locks;
SAT is asynchronous and answers late, differently, or not at all; attempts, delays and
expiry decide how often it is asked; a setup replaces several files one after the other and
has to undo that when a step fails; a worker can die between a file, a commit and an
acknowledgement; the broker may deliver again while the first handler is still running; and
transactions of overlapping jobs write states computed from rows they read earlier. What
makes each part correct is stated with its properties; the list of hazards, each at its
line, is in `PROJECT.json`.

## Modules

Live requests:

`SatContract` - the outcome policy, operators only. A code stands for its class; `"other"`
is any code the classifier does not name.

`LiveRequestState` - the record of a live request and the pure functions on it: what reading
does to it, who is due and in which order, and how a verification rewrites it. A record keeps
the fields some branch reads; times are ticks; a reference that is not on file has status
`ABSENT`. The jitter of late retries is any value of its range.

`VerifyScheduler` - the commands over the state file. Variables: `file` (the JSON file),
`clock`, `run` (what each process is doing: step, snapshot, record to store, content read by
the upsert), `issued` (which criteria SAT accepted a reference for), `lost` (the accepted
references whose answer never got to the file), `stored` (packages in storage) and histories
of live calls. One action per step that other processes can see or come between: submit and
its answer, which may be lost after SAT has accepted (a timeout, an answer that cannot be
parsed: nothing is persisted), the read and the write of an upsert (the write is
`os.replace`, hence atomic; nothing locks the pair), the preflight, selection, the call of
the verifier with every answer or an exception, the download with its storage and status
update, and a crash anywhere. `verify-due` without a permit uses the fake verifier, which
always says "in process": it consumes attempts and moves the schedule, as in the code.

`RequestLifecycle` - the abstract specification of a request: tracked, asked within a budget,
settled once, and a package stored before it counts as downloaded. `VerifyScheduler`
instantiates it with `phase` computed from the status on file, `asked` from its history of
live calls and `evidence` from `stored`; `ImplementsLifecycle` is the refinement. It holds
for one process at a time: two overlapping ones can exceed the budget and take a settled
request back (see known limits). No weaker budget holds for them either: a lost update takes
back any number of counted attempts, so that the number of calls is bounded by nothing.

Permits, credentials and exchanges:

`LivePermit` - permits and the guard. `permits` holds the documents, `exec` the commands:
read and compare, truncate, write as consumed (`Path.write_text` is not atomic), the
remaining gates, the second read of auth-smoke, the live operation. A gate that fails after
the permit is consumed leaves it consumed. Profile, credentials, doctor, scanner and clean
checkout are one boolean `ready`, environment variables are booleans. The transport
evaluates the guard again for every send, with the same inputs; that is folded into the
first evaluation. All twelve live commands are there; diagnose-live takes no permit. The
write that creates a permit is one step: a permit nobody has seen yet may be torn like any
other, and is refused.

`OneTimePermit` - the abstract promise of a permit: issued once, held by the commands it has
admitted, spent by the first of them before anything is done under it, never valid again.
`LivePermit` instantiates it with `phase` computed from the document (a torn one counts as
spent), `holders` from the commands between their check of the document and their end, and
`used` from the history of live operations. The promise does not say one use: that is what
overlapping commands break. It says which use each of them may still make.

`AuthEnvelope` - the options of the authentication envelope as permit, builder and readiness
check see them; shared by `LivePermit` and `LiveExchange`.

`CredentialSetup` - `setup` as a transaction of file operations: `final`, `staged` and
`backup` files per slot, `phrase`, `profile`, and `setup`, the step the command is at. What it
is given is a certificate, a key and a phrase of any sets, the first two possibly unreadable:
intake looks at names, places and emptiness only. Every operation may fail, the ones of a
rollback too, and a crash may come between any two or into a copy or an `rmtree`, which then
leaves some of its files. Histories record what was there before, which kind of accident has
happened, and what the latest setup that succeeded was given.

`TransportErrors` - the tables by which the adapter and four probes name an exception or an
HTTP answer, with the order of their rules. The adapter parses an answer for a Fault element,
the probes look for the word; the adapter renames a timeout of the verify message.

`LiveExchange` - composes `CredentialSetup` with a live command: inspection of the profile,
loading of certificate, key and phrase one after the other, every message with its readiness
check, transport failure, HTTP error and parse failure, and the stage and kind reported.
`wire` is the history of what was sent, with which material it was signed and whether SAT has
answered it. The transport may fail before the message is on the wire or after; the command
reports the same.

Offline pipeline:

`RecoveryJobs` - jobs from `sync` to acknowledgement. A database transaction is one step, a file
three (look, truncate, write), the progress cache, written after the commit, one more. An
exception may end the handler at any of them, in the middle of a file as well. `held` is an
unacknowledged delivery: a crash and an exception give it back, and so does a lost connection,
under which the handler runs on. SAT, the extraction of packages and XML content are reduced to
the file they end in; the fake client gives a query one package. The constraint on
`id_solicitud` makes the second of two overlapping transactions wait and then fail.

`JobDelivery` - the abstract promise of the queue: a job is published once, a worker holds one
delivery at a time, a delivery ends by being given back or, when its job is recorded, by being
settled, and what is recorded stays so. `RecoveryJobs` instantiates it with `waiting` counted
from the queue, `holds` from the unacknowledged deliveries and `recorded` from the request rows.

`Ledger` - the tables a reconciliation reads and writes. A transaction reads at its
beginning, computes, and commits the columns it changed; inserting a row someone else has
inserted rolls it back. (The session reads row by row; reading everything at the beginning
is the case in which what it computes is oldest.) Statuses stand for their class. The
history `overlapped` separates what holds for one transaction at a time from what overlap
cannot break. `retry_action_for_state` is used for rows without attempts or error codes,
because the tables have no columns for them and no code passes any.

`RequestOrchestrator` - the registry with its two indexes, `submit_once`, `poll_once`, the
cached session with its refresh margin, the metadata-first run step by step, and the
simulator's scenarios as SAT's answers.

Local parts:

`PackageExtraction` - validation of a ZIP, idempotent storage of the ZIP and its members (look,
truncate, write), reading back and counting of rows. `VaultImport` - lookup and insert of each
file in a transaction of its own. `ConfigOnboarding` - the rules of the schema by what they
accept, request to profile, and the read, validate and rewrite of the file. `Backfill` - the
windows as a recursive function and the submissions made from plans. `MCLocalParts` puts them,
the orchestration and the diagnoses of `TransportErrors` side by side: they share no state, so a
behaviour is about one of them.

`MCVerifyScheduler`, `MCLivePermit`, `MCLiveExchange` and `MCLedger` only add finite sets of
answers, operations, environments and folders, a symmetry and, in `MCLedger`, a state
constraint. The theorems are in `VerifyScheduler_proofs` (any number of processes),
`OneProcess_proofs` (one process), `LivePermit_proofs`, `RecoveryJobs_proofs`,
`Ledger_proofs`, `RequestOrchestrator_proofs`, `LiveExchange_proofs` (setup and exchanges)
and `LocalParts_proofs` (the four local parts).

Operators introduced by a comment `Mutant:` belong to no specification; each is the wrong
variant of the definition after it that `PROJECT.json` names.

## Runs

| Run | Instance | Shows |
|---|---|---|
| `VS_one_process` | 1 process, 2 requests (one legacy), batches of 2, 2 attempts, every answer of the port, 1 crash | `TypeOK`; `ScheduleConsistent`, `OutcomeComesFromSat`, `EvidenceBeforeDownloaded`; `BackoffRespected`: SAT is not asked too early, errors and crashes included; `ProgressKept`; `ImplementsLifecycle` |
| `VS_settles` | 1 process, 3 references (one legacy), 2 criteria, lost answers, 1 crash, fairness | for backfill `AcceptedIsTracked`: only a lost answer leaves an accepted request off the file; `OneRequestPerCriteria`: nothing else lets a window be submitted again; `RequestsSettle`: what is on file is settled unless a crash stranded it |
| `RJ_faults` | 2 processes, 2 jobs (one with XML), 1 failure at any step, 1 crash, 1 lost connection, fairness | `RowsHaveFiles`; `RecordedOnce`: no commit repeats another; `OnlyAccidentsStrand`: an unfinished job is worked on, has a message, or is of one of the two kinds an accident strands; `ImplementsDelivery`: one message per published job, kept until it was done; `PublishedSucceeds`: a published job succeeds unless a message of the queue has become poison |
| `LP_one_at_a_time` | 1 command at a time, 12 kinds, 4 operations, 7 environments, 2 commits, 1 crash | `LiveIsAuthorised`, `OneUsePerPermit`, `IssuedIsAcceptable`; `ImplementsPermit`: a use happens only under a permit that was spent before, and what is spent stays spent |
| `LX_setup_overlap` | 3 credential sets (`.key` or `.pem`, encrypted or plain) and offers that fit, mix two sets or are unreadable, 2 setups, 2 failing operations, 1 crash, 1 command that may overlap a setup | `SetupIsAtomic`, `OldFilesSurvive`; `InstalledProfileWorks`: what was given is what signs, and it fails only where it did not fit; `OneIdentityPerCommand`; `StageIsTruthful`: what an operator may conclude from stage and kind |
| `LG_histories` | 1 uuid in 2 directions, 4 statuses, 2 transactions | one at a time: `DownloadedIsFinal`; overlapping: `NoPhantomXml`, `EventsExplainLedger`, and `ReconcileRepairs` for a reconcile during which nothing else commits |
| `LC_local_parts` | 5 ZIPs (one good, four ways to be refused) and 2 commands; 2 batches and 3 imports; 18 onboarding requests, 13 files of an operator and 3 onboardings; ranges within 9 days and 3 submissions; 2 criteria, 2 packages, tokens shorter and longer than the margin or without expiry, 4 polls and 2 runs of the orchestration; all exceptions, HTTP statuses and kinds of body; 1 crash each | `StorageMatchesReports`; `ReportsAreTrue`, `CompletedIsComplete`; `ConfigStaysLoadable`, `ProfilesPreserved`; `BackfillCovers`; `IndexesAgree`, `PackagesAreKept`, `ReusedSessionOutlivesMargin`, `DownloadedMeansAll`; `DiagnosesAgree` |

Runs that must fail, each with a finding that quotes what the repository says:

| Run | Disagreement |
|---|---|
| `VS_stranded` | a process that dies while a verification is in progress leaves a request that is never looked at again, although expired work should become terminal |
| `VS_all_packages` | a request with several packages counts as downloaded after the first |
| `LP_two_uses` | two commands that read a permit at the same time both use it |
| `LG_changed` | a reconcile makes a row whose changed status is to be confirmed one to download, without a confirmation |
| `CS_rollback` | when two file operations fail, the second of two rollbacks deletes the old certificate the first has restored |

Bounds. Requests, jobs and permits of different identity meet only in the shared file, the
queue and the database, so two of each show every way they can disturb one another; two
processes show every overlap of one read-compute-write with another. Delays of 1 to 4 ticks
within a life of 3 to 6 ticks make every position of a check relative to the expiry occur,
and two attempts the first, the last and the one too many. The clock stops after the
last expiry. One crash at any step suffices for the properties: what a second one meets is a
state an idle system can also be in. Two setups are the one that is replaced and the one that
replaces; two failing operations are the failure and one inside the rollback it causes. Three
references are a legacy request, one that is lost and one submitted after it. One failing
handler and one crash are two accidents of a job: one cut between its steps and the redelivery
that is cut again. Three
imports and three onboardings are two that overlap and one that comes after. Nine days hold a
range of the longest window, a shorter rest, and ranges that begin elsewhere; three
submissions finish a plan after a foreign one. Tokens expire before, at and after the margin.
Permits are asked for 1 minute and for 16, one more than the longest permitted; the clock
moves once, past the first. `OverlapBound` stops the exploration of a
history in which
transactions have overlapped as soon as it involves more than received documents that are
valid or cancelled. Histories without overlap are complete.

`CHECK_DEADLOCK FALSE` is set where all jobs, requests, setups or commands may be done.

Fairness. `VerifyScheduler`: time passes, a started command runs to its end, and the
periodic task keeps starting `verify-due --limit 1`; it is strong because commands in
between disable it for a while. Nothing is assumed of SAT or of live commands. `RecoveryJobs`:
a started process runs on, and a worker polls (`worker run --loop`). The loop does not catch
exceptions, so this assumes an operator, or a service manager, that starts it again.

## Proofs

All theorems hold for every value of the constants that satisfies the assumptions of the
modules (`RequestStateAssumption`, `SchedulerAssumption`, `PermitAssumption`,
`JobsAssumption` and so on): any number of processes, requests, permits, files, crashes and
failures, any backoff policy and any answers. Where a theorem needs more, it says so as a
hypothesis. Every proof follows one pattern: an invariant that is inductive, established by
`Init`, preserved by one step per action, and stronger than the property. What the
invariants add to the properties is where the argument lies.

| Module | Theorems | Inductive invariant |
|---|---|---|
| `VerifyScheduler_proofs` | `TypeCorrect`, `ScheduleIsConsistent`, `EvidenceFirst`, `OutcomesAreReal` | `ScheduleInv`, `JustifiedInv`: what the property says of the file holds of every copy in flight too (snapshots, records about to be stored, what an upsert has read), since any of them may become the file; what is stored and asked only grows, so an old copy written back stays justified |
| `OneProcess_proofs` | `CommandsImplementLifecycle`, `CallsAreSpaced`, `UpsertsKeepProgress`, `AcceptedRequestsAreTracked` and `QueriesAreAskedOnce` | `AloneInv`: the copies of the one process agree with the file, and attempts on file count the calls made; `TrackedInv`: a request SAT accepted is lost, or on file or in the hands of the process, and only accepted ones are lost; `CriteriaInv`: what is about to be submitted has no request yet but lost ones |
| `LivePermit_proofs` | `PermitTypes`, `PermitsAreSpentFirst`, `LiveCommandsAuthorised`, `IssuedPermitsAcceptable`; `CommandsKeepPermitPromise`; for finitely many commands `OverlapBoundsUses`; for one command at a time `OneTimePermits` | `PermitInv`: a document never changes its content, the copy a command holds has passed the comparison and the policy, and a command past its write finds the document consumed or torn; `OneUseInv`: under a permit that was read and not yet spent nothing was done; `OverlapInv`: what was done under a permit and what its holders may still do add up to no more than the commands there are |
| `RecoveryJobs_proofs` | `OneMessage`, `MessagesRemembered`, `RowsAreBacked`, `JobsAreDelivered`, `JobsAreRecordedOnce`, `AccidentsExplainStranding` | `MessageInv`: queue and deliveries hold a job's message exclusively; `FileInv`: until a delivery is handed out twice, a transaction about to commit has written all its files; `TransactionInv`: one open transaction per job, and none for a recorded one; `StrandInv`: a job that was not published has no message and one process at most, a torn file without a crash or a failure is being written, and until a connection is lost a published job is handled under its delivery and has succeeded when it is acknowledged |
| `Ledger_proofs` | `XmlIsReal`, `EventsExplain`, `ReconcileWorks`; without overlap `DownloadedStays` | `LedgerInv`: what a transaction has read is no further than the tables, so what it computes claims nothing the tables lack; without overlap it has read the tables as they are |
| `RequestOrchestrator_proofs` | `RegistryIndexesAgree`, `PackageIdsAreKept`, `ReusedSessionsOutliveMargin`, `DownloadedIsComplete` | `RegistryInv`, `SessionInv`, `RunInv`: every criterion is filed under its request id, package lists have no duplicates and hold what was reported, and a run has downloaded only what the answer promised |
| `LiveExchange_proofs` | `SetupsAreAtomic`, `ReplacedFilesSurvive`, `CommandsHaveOneIdentity`, `StagesAreTruthful`, `InstalledProfilesWork` | `SetupInv`: at each step of commit, rollback and finalize, which of final, staged and backup files exist and whose they are; `CommandInv`: what was sent so far is what the step of the command implies, and all but the last message were answered; `FitsInv`: what is installed is what the latest setup was given, which is not refused for a plain `.pem`; `LoadedInv`: the pieces an undisturbed command has loaded are those that were given |
| `LocalParts_proofs` | `ImportReportsAreTrue`, `CompletedImportsAreComplete`, `ReportedPackagesAreStored`, `ConfigurationStaysLoadable`, `ProfilesArePreserved`, `ExhaustedPlansCover`, `DiagnosesAreConsistent` | `ImportInv`: what a command has got through of its batch is in the table; `ExtractInv`: the files behind a command are there, or someone is rewriting the same bytes or died doing so; `ConfigInv`: documents about to be written are valid and keep what the file had, with the new version of one profile; for the backfill, the recursive function computes the windows given by arithmetic |

Three theorems are refinements: initial states map to initial states of the abstract
specification, and every step to one of its steps or a stutter. `CommandsKeepPermitPromise` and
`JobsAreDelivered` hold for any number of commands and processes, whatever overlaps, fails or
crashes. The first needs of `PermitInv` that a command past its write finds the document spent;
`OverlapBoundsUses` is then a consequence of the abstract steps alone. The second needs
`MessageInv`, to know that a queue without repetition loses or gains exactly the one message
of the step. `CommandsImplementLifecycle` needs one process at a time, as `CallsAreSpaced` and
`UpsertsKeepProgress` do: two that overlap can exceed the budget and take a settled request
back (see known limits).

So do `AcceptedRequestsAreTracked` and `QueriesAreAskedOnce`, which allow lost answers and
crashes: they say that nothing else loses a request or has it submitted twice. The latter
excludes the smoke command, which submits without looking at the file, and a file that holds
duplicates to begin with.
Properties of `Ledger` and `ConfigOnboarding` that speak of one transaction or command at a
time carry that condition themselves (`overlapped`).

Each part of `LocalParts_proofs` has its own specification (`ImportSpec`, `ExtractSpec`,
`ConfigSpec`, `BackfillSpec`); `LC_local_parts` runs the same `Init` and `Next` side by side.

Loops over lists are folds or recursive functions. What they compute for lists and ranges of
any length is proved by induction over a set of numbers (`SetInduction`, from the
well-foundedness of `<` on `Nat`): `AppendUniqueAdds` for `_append_unique`, and
`PeriodsAreWindows` for `generate_backfill_periods`, where the function is shown to exist and
to be the only one that unfolds as the loop does. The tables of `TransportErrors` are unfolded
rule by rule (`FirstRule`), and the answers compared for every exception and HTTP status.

Only proved: the type invariant of `LivePermit`; `UsesWithinOverlap`, for commands that
overlap (`LP_two_uses` shows two of them, and `ImplementsPermit` is checked for one at a
time); `ConsumedBeforeUse`, `OneMessagePerJob` and `PublishedNotForgotten`, which are what the
refinements `ImplementsPermit` and `ImplementsDelivery` promise, said of the detailed state.

Only model-checked:

- liveness (`RequestsSettle`, `PublishedSucceeds`), because fairness rests on `ENABLED`, which
  the prover does not handle;
- the four properties of the runs that must fail, which are false.

## Known limits of the code

Met while modelling, beside the five findings, and not the subject of a run:

- an answer of SAT that is lost (a timeout, an answer that cannot be parsed, a crash before the
  upsert) leaves an accepted request off the file: it is never verified or downloaded, and
  `backfill submit` submits its window again;
- a message whose handler failed or died after its commit (the write of the progress cache,
  `recovery_service.py:492`), or in the middle of a file, can never be handled successfully:
  the first meets the constraint on `id_solicitud`, the second a storage collision. It goes back
  to the head of the queue each time, where it may hold up the others, although
  `docs/foundation/storage-and-retention.md:45` expects that replaying the same work is safe;
- setup installs and reports as ready what cannot be used: a certificate or key that cannot be
  read, a key of another e.firma, a phrase that does not open it, a plain `.key` file. The
  command that loads it finds out; a key of another e.firma only SAT does;
- a live command reports the same stage and kind whether its message went out or not; an error
  while the body of an HTTP error is read ends it with a traceback;

- overlapping `verify-due` processes can both ask SAT about a request (the backoff is a
  property of one process at a time), and `metadata-request-smoke` submits a period again
  without looking for its criteria hash;
- a job that was committed but not published stays `pending`, and a local sync that fails
  stays `running`: a second sync returns either as it is;
- a message delivered again sets a succeeded job back to running (`recovery_service.py:376`),
  where `docs/foundation/flows-and-states.md:91` has `succeeded --> [*]`;
- a package whose job was rolled back is on disk without a row and is downloaded again;
- two handlers of one delivery can truncate each other's evidence files
  (`RowsHaveFiles` holds until a delivery is handed out twice), and so can two extractions of
  one package, one of which dies while it rewrites what the other has reported;
- a metadata or reconcile transaction that overlaps with one that stores XML can write an
  older state over `XML_DOWNLOADED`; a second metadata file takes a row that waits for
  confirmation of a changed status to `XML_PENDING`, as `reconcile` does (`LG_changed`);
- `metadata-verify-smoke`, `download live-smoke` and `diagnose-live` talk to SAT without
  touching the state file: their calls are not counted as attempts and a request of the latter
  two is not tracked;
- a setup that crashes after it has moved the old files to `.incoming` leaves them there, and
  the next setup clears that directory: the only copy of the old set is gone
  (`OldFilesSurvive` speaks of the setup that crashed, not of the one after it);
- `submit_once` registers a refused submission like an accepted one and never submits these
  criteria again; refused requests share an id and are found by it only as the latest;
- the vault compares UUIDs as they are written; another XML with a known UUID is reported as
  a duplicate, and the loser of two imports of a UUID ends with an uncaught `IntegrityError`;
- a crash while the configuration is rewritten leaves a file no command accepts, and of two
  overlapping onboardings one can lose its profile;
- backfill recognises a window by its exact period: ranges that begin elsewhere request days
  twice.

## Not modelled

The wire: SOAP, canonicalisation, signatures, certificates and XML parsing are data; a message
has the outcomes the parsers let through. What the progress cache holds is shown and never read
by a decision; that writing it can fail is modelled. The envelope lints and the oracle are
functions from one XML text to a report, below the abstraction of the envelope. `custody
register` and `custody delete` by hand, the vault's `summary`, search and export, and the doctor
commands read, or write one entry.

## Plan

Done: all modules above, the three refinements, and a theorem for every safety property that
a passing run checks. What could follow: fairness-free progress of the scheduler (a request
that is due is selected within a bounded number of runs), and the parts listed as not modelled.

----------------------- MODULE VerifyScheduler_proofs -----------------------
(***************************************************************************)
(* Theorems about VerifyScheduler, for every number of processes, requests *)
(* and attempts and for every backoff policy.                              *)
(***************************************************************************)
EXTENDS VerifyScheduler, TLAPS

USE RequestStateAssumption, SchedulerAssumption

-----------------------------------------------------------------------------
(* Types of the operators of LiveRequestState. *)

\* Reading a document gives a record (from_document).
LEMMA FromDocumentType == ASSUME NEW rec \in Record PROVE FromDocument(rec) \in Record
<1>1. rec.created \in Nat /\ rec.expires \in Times /\ rec.next \in Times
  BY DEF Record
<1>2. rec.created + MaxAge \in Times /\ rec.created + InitialDelay \in Times
  BY <1>1 DEF Times
<1>3. NormalizeStatus(rec.status) \in Statuses
  BY DEF NormalizeStatus, Record, Statuses, PendingVerifyStatuses
<1> QED
  BY <1>1, <1>2, <1>3 DEF FromDocument, Record

\* An absent record is a record of the model.
LEMMA AbsentType == Absent \in Record
BY DEF Absent, Record, Times, NoTime, Statuses

\* Reading the file gives a file (_read_state).
LEMMA ReadStateType ==
  ASSUME NEW f \in [Refs -> Record] PROVE ReadState(f) \in [Refs -> Record]
BY FromDocumentType, AbsentType DEF ReadState

\* persist_live_metadata_request builds a record.
LEMMA NewRecordType == ASSUME NEW t \in Nat PROVE NewRecord(t) \in Record
BY DEF NewRecord, NormalizeStatus, Record, Times, NoTime, Statuses, PendingVerifyStatuses

\* Every delay of the policy is a positive time (next_delay).
LEMMA DelayType == ASSUME NEW n \in Nat PROVE NextDelays(n) \subseteq Nat \ {0}
BY DEF NextDelays

\* Rewriting a record with a known status gives a record.
LEMMA RewriteType ==
  ASSUME NEW rec \in Record, NEW status \in Statuses, NEW now \in Nat, NEW d \in Nat
  PROVE  Rewrite(rec, status, now, d) \in Record
<1>1. NextCheckAt(rec, now, d) \in Times
  BY DEF NextCheckAt, Record, Times
<1>2. NoTime \in Times
  BY DEF Times
<1> QED
  BY <1>1, <1>2 DEF Rewrite, Record

\* Counting an attempt gives a record.
LEMMA AttemptedType == ASSUME NEW rec \in Record PROVE Attempted(rec) \in Record
BY DEF Attempted, Record

\* Every branch of _record_result stores a known status.
LEMMA ResultStatusType ==
  ASSUME NEW result, NEW n \in Nat PROVE ResultStatus(result, n) \in Statuses
BY DEF ResultStatus, Statuses, PendingVerifyStatuses, TerminalVerifyStatuses

\* _record_result stores a record.
LEMMA RecordResultType ==
  ASSUME NEW rec \in Record, NEW result, NEW packages \in SUBSET Packages,
         NEW now \in Nat, NEW d \in Nat
  PROVE  RecordResult(rec, result, packages, now, d) \in Record
<1>1. rec.attempts + 1 \in Nat
  BY DEF Record
<1> DEFINE status == ResultStatus(result, rec.attempts + 1)
           base == Rewrite(Attempted(rec), status, now, d)
<1>2. status \in Statuses
  BY <1>1, ResultStatusType
<1>3. base \in Record
  BY <1>2, AttemptedType, RewriteType
<1> HIDE DEF base, status
<1>4. [base EXCEPT !.packages = IF status = "PACKAGE_READY" THEN packages ELSE @] \in Record
  BY <1>3 DEF Record
<1> QED
  BY <1>4 DEF RecordResult, base, status

\* _retry_or_permanent stores a record.
LEMMA RetryType ==
  ASSUME NEW rec \in Record, NEW now \in Nat, NEW d \in Nat
  PROVE  RetryOrPermanent(rec, now, d) \in Record
<1> DEFINE status == IF AttemptsExhausted(rec.attempts + 1)
                     THEN "VERIFY_FAILED_PERMANENT" ELSE "VERIFY_FAILED_RETRYABLE"
<1>1. status \in Statuses
  BY DEF Statuses, PendingVerifyStatuses, TerminalVerifyStatuses
<1> HIDE DEF status
<1> QED
  BY <1>1, AttemptedType, RewriteType DEF RetryOrPermanent, status

\* A file that does not exist yet reads as a well-typed one.
LEMMA EmptyFileType == EmptyFile \in [Refs -> Record]
BY AbsentType DEF EmptyFile

\* An idle process is a well-typed command.
LEMMA IdleRunType == IdleRun \in Run
<1>1. (CHOOSE r \in Refs : TRUE) \in Refs
  OBVIOUS
<1> QED
  BY <1>1, AbsentType, EmptyFileType DEF IdleRun, Run, Steps

-----------------------------------------------------------------------------
(* Type correctness of the specification. *)

\* Replacing the command of one process.
LEMMA SetType ==
  ASSUME NEW p \in Procs, run \in [Procs -> Run], NEW u \in Run, Set(p, u)
  PROVE  run' \in [Procs -> Run]
BY DEF Set

\* Starting an upsert keeps the type of the command.
LEMMA StartUpsertType ==
  ASSUME NEW p \in Procs, run \in [Procs -> Run], NEW r \in Refs, NEW rec \in Record,
         NEW then \in {"idle", "batch", "call"}, StartUpsert(p, r, rec, then)
  PROVE  run' \in [Procs -> Run]
<1>1. run[p] \in Run
  OBVIOUS
<1>2. [run[p] EXCEPT !.step = "read", !.cur = r, !.rec = rec, !.then = then] \in Run
  BY <1>1 DEF Run, Steps
<1> QED
  BY <1>2, SetType DEF StartUpsert

\* Ending a command keeps the type.
LEMMA QuitType ==
  ASSUME NEW p \in Procs, run \in [Procs -> Run], Quit(p)
  PROVE  run' \in [Procs -> Run]
BY IdleRunType DEF Quit, Set

\* Selecting the due records keeps the type (run_verify_due).
LEMMA SelectType ==
  ASSUME TypeOK, NEW p \in Procs, NEW scope \in SUBSET Refs, NEW limit, NEW live \in BOOLEAN,
         Select(p, scope, limit, live)
  PROVE  run' \in [Procs -> Run]
<1> DEFINE snap == ReadState(file)
<1>1. snap \in [Refs -> Record]
  BY ReadStateType DEF TypeOK
<1> HIDE DEF snap
<1>2. PICK todo \in SUBSET Refs :
        Set(p, [IdleRun EXCEPT !.step = "batch", !.live = live, !.now = clock, !.todo = todo,
                  !.snap = [r \in Refs |-> IF r \in todo THEN snap[r] ELSE Absent]])
  BY DEF Select, FirstDue, DueRefs, snap
<1>3. [r \in Refs |-> IF r \in todo THEN snap[r] ELSE Absent] \in [Refs -> Record]
  BY <1>1, AbsentType
<1> QED
  BY <1>2, <1>3, IdleRunType DEF Set, Run, Steps, TypeOK

\* One step keeps the types.
LEMMA TypeStep == TypeOK /\ [Next]_vars => TypeOK'
<1> SUFFICES ASSUME TypeOK, [Next]_vars PROVE TypeOK'
  OBVIOUS
<1>0. run \in [Procs -> Run] /\ \A p \in Procs : run[p] \in Run
  BY DEF TypeOK
<1>1. CASE Tick
  BY <1>1 DEF TypeOK, Tick, history
<1>2. ASSUME NEW p \in Procs, Command(p) PROVE TypeOK'
  <2>1. UNCHANGED <<file, clock, crashes, issued, lost, stored, history>>
    BY <1>2 DEF Command, SmokeSubmit, BackfillSubmit, VerifyDue, LivePreflight, DownloadPackage
  <2>2. ASSUME NEW c \in Criteria, SmokeSubmit(p, c) \/ BackfillSubmit(p, c)
        PROVE  run' \in [Procs -> Run]
    <3>1. [IdleRun EXCEPT !.step = "submit", !.crit = c] \in Run
      BY IdleRunType DEF Run, Steps
    <3> QED
      BY <1>0, <2>2, <3>1, SetType DEF SmokeSubmit, BackfillSubmit
  <2>3. ASSUME NEW scope \in SUBSET Refs, NEW limit, VerifyDue(p, scope, limit)
        PROVE  run' \in [Procs -> Run]
    BY <2>3, SelectType DEF VerifyDue
  <2>4. ASSUME NEW r \in Refs, LivePreflight(p, r)
        PROVE  run' \in [Procs -> Run]
    <3>1. [IdleRun EXCEPT !.step = "guard", !.cur = r] \in Run
      BY IdleRunType DEF Run, Steps
    <3> QED
      BY <1>0, <2>4, <3>1, SetType DEF LivePreflight
  <2>5. ASSUME NEW r \in Refs, NEW k \in Packages, DownloadPackage(p, r, k)
        PROVE  run' \in [Procs -> Run]
    <3>1. ReadState(file)[r] \in Record
      BY ReadStateType DEF TypeOK
    <3>2. [IdleRun EXCEPT !.step = "download", !.cur = r, !.pkg = {k},
                          !.rec = ReadState(file)[r]] \in Run
      BY <3>1, IdleRunType DEF Run, Steps
    <3> QED
      BY <1>0, <2>5, <3>2, SetType DEF DownloadPackage
  <2>6. run' \in [Procs -> Run]
    BY <1>2, <2>2, <2>3, <2>4, <2>5 DEF Command
  <2> QED
    BY <2>1, <2>6 DEF TypeOK, history
<1>3. ASSUME NEW p \in Procs, Proceed(p) PROVE TypeOK'
  <2>0. run[p] \in Run
    BY <1>0
  <2>1. ASSUME NEW r \in Refs, SubmitAccepted(p, r) PROVE TypeOK'
    <3>1. NewRecord(clock) \in Record
      BY NewRecordType DEF TypeOK
    <3>2. run' \in [Procs -> Run]
      BY <1>0, <2>1, <3>1, StartUpsertType DEF SubmitAccepted
    <3> QED
      BY <2>0, <2>1, <3>2 DEF SubmitAccepted, TypeOK, history, Run
  <2>2. ASSUME NEW r \in Refs, VerifyOne(p, r) PROVE TypeOK'
    <3> DEFINE rec == run[p].snap[r]
               now == run[p].now
               new == IF IsExpired(rec, now) THEN Rewrite(rec, "VERIFY_EXPIRED", now, 0)
                      ELSE IF AttemptsExhausted(rec.attempts)
                           THEN Rewrite(rec, "VERIFY_FAILED_PERMANENT", now, 0)
                      ELSE InProgress(rec)
    <3>1. rec \in Record /\ now \in Nat
      BY <2>0 DEF Run
    <3>2. InProgress(rec) \in Record
      BY <3>1 DEF InProgress, Record, Statuses
    <3>3. "VERIFY_EXPIRED" \in Statuses /\ "VERIFY_FAILED_PERMANENT" \in Statuses /\ 0 \in Nat
      BY DEF Statuses, TerminalVerifyStatuses
    <3>4. new \in Record
      BY <3>1, <3>2, <3>3, RewriteType
    <3> DEFINE then == IF IsExpired(rec, now) \/ AttemptsExhausted(rec.attempts)
                       THEN "batch" ELSE "call"
    <3>5. then \in {"idle", "batch", "call"}
      OBVIOUS
    <3> HIDE DEF new, then
    <3>6. [run[p] EXCEPT !.step = "read", !.cur = r, !.todo = @ \ {r},
                         !.rec = new, !.then = then] \in Run
      BY <2>0, <3>4, <3>5 DEF Run, Steps
    <3>7. run' \in [Procs -> Run]
      BY <1>0, <2>2, <3>6, SetType DEF VerifyOne, new, then
    <3> QED
      BY <2>2, <3>7 DEF VerifyOne, TypeOK, history
  <2>3. CASE UpsertRead(p)
    <3>1. ReadState(file) \in [Refs -> Record]
      BY ReadStateType DEF TypeOK
    <3>2. [run[p] EXCEPT !.step = "write", !.buf = ReadState(file)] \in Run
      BY <2>0, <3>1 DEF Run, Steps
    <3>3. run' \in [Procs -> Run]
      BY <1>0, <2>3, <3>2, SetType DEF UpsertRead
    <3> QED
      BY <2>3, <3>3 DEF UpsertRead, TypeOK, history
  <2>4. CASE UpsertWrite(p)
    <3>1. file' \in [Refs -> Record]
      BY <2>0, <2>4 DEF UpsertWrite, UpsertInto, Run
    <3>2. run' \in [Procs -> Run]
      <4>1. [run[p] EXCEPT !.step = run[p].then, !.buf = EmptyFile] \in Run
        BY <2>0, EmptyFileType DEF Run, Steps
      <4> QED
        BY <1>0, <2>4, <4>1, QuitType, SetType DEF UpsertWrite
    <3> QED
      BY <2>4, <3>1, <3>2 DEF UpsertWrite, TypeOK, history
  <2>5. CASE LiveVerifyDue(p)
    <3>1. {run[p].cur} \in SUBSET Refs
      BY <2>0 DEF Run
    <3>2. run' \in [Procs -> Run]
      BY <2>5, <3>1, SelectType DEF LiveVerifyDue
    <3> QED
      BY <2>5, <3>2 DEF LiveVerifyDue, TypeOK, history
  <2>6. CASE SubmitRefused(p) \/ LiveDenied(p) \/ BatchDone(p)
    BY <1>0, <2>6, QuitType DEF SubmitRefused, LiveDenied, BatchDone, TypeOK, history
  <2>10. ASSUME NEW r \in Refs, AnswerLost(p, r) PROVE TypeOK'
    BY <1>0, <2>0, <2>10, QuitType DEF AnswerLost, TypeOK, history, Run
  <2>7. CASE VerifierAnswers(p) \/ VerifierRaises(p)
    <3>1. run[p].rec \in Record /\ run[p].now \in Nat /\ run[p].cur \in Refs
      BY <2>0 DEF Run
    <3>2. run[p].rec.attempts + 1 \in Nat
      BY <3>1 DEF Record
    <3>3. NextDelays(run[p].rec.attempts + 1) \subseteq Nat
      BY <3>2, DelayType
    <3>4. PICK new \in Record : StartUpsert(p, run[p].cur, new, "batch")
      BY <2>7, <3>1, <3>3, RecordResultType, RetryType DEF VerifierAnswers, VerifierRaises
    <3>5. run' \in [Procs -> Run]
      BY <1>0, <3>1, <3>4, StartUpsertType
    <3>6. calls' \in [Refs -> Nat] /\ lastCall' \in [Refs -> Times]
      BY <2>7, <3>1 DEF VerifierAnswers, VerifierRaises, CountCall, TypeOK, history, Times
    <3> QED
      BY <2>7, <3>5, <3>6 DEF VerifierAnswers, VerifierRaises, TypeOK
  <2>8. CASE PackageDelivered(p)
    <3>1. [run[p].rec EXCEPT !.status = "PACKAGE_DOWNLOADED"] \in Record
      BY <2>0 DEF Run, Record, Statuses, TerminalVerifyStatuses
    <3>2. run[p].cur \in Refs /\ run[p].pkg \in SUBSET Packages
      BY <2>0 DEF Run
    <3>3. run' \in [Procs -> Run]
      BY <1>0, <2>8, <3>1, <3>2, StartUpsertType DEF PackageDelivered
    <3> QED
      BY <2>8, <3>2, <3>3 DEF PackageDelivered, TypeOK, history
  <2>9. CASE DownloadFails(p)
    <3>1. run[p].cur \in Refs /\ run[p].pkg \in SUBSET Packages
      BY <2>0 DEF Run
    <3> QED
      BY <1>0, <2>9, <3>1, QuitType DEF DownloadFails, TypeOK, history
  <2> QED
    BY <1>3, <2>1, <2>2, <2>3, <2>4, <2>5, <2>6, <2>7, <2>8, <2>9, <2>10 DEF Proceed
<1>4. ASSUME NEW p \in Procs, Crash(p) PROVE TypeOK'
  <2>1. run[p].cur \in Refs
    BY <1>0 DEF Run
  <2>2. lost' \in SUBSET Refs
    BY <1>4, <2>1 DEF Crash, TypeOK
  <2>3. run' \in [Procs -> Run]
    BY <1>0, <1>4, QuitType DEF Crash
  <2> QED
    BY <1>4, <2>2, <2>3 DEF Crash, TypeOK, history
<1>5. CASE UNCHANGED vars
  BY <1>5 DEF TypeOK, vars
<1> QED
  BY <1>1, <1>2, <1>3, <1>4, <1>5 DEF Next

\* The initial file, legacy records included, is well typed.
LEMMA TypeInit == Init => TypeOK
<1> SUFFICES ASSUME Init PROVE TypeOK
  OBVIOUS
<1>1. LegacyRecord \in Record
  BY AbsentType DEF LegacyRecord, Record, Statuses, PendingVerifyStatuses
<1> QED
  BY <1>1, AbsentType, IdleRunType DEF Init, TypeOK, Times

\* Type correctness: no interleaving of the commands over the state file, with
\* crashes, produces anything but well-formed records.
THEOREM TypeCorrect == Spec => []TypeOK
BY TypeInit, TypeStep, PTL DEF Spec

-----------------------------------------------------------------------------
(* The schedule stays consistent.  ScheduleConsistent is not inductive: what a   *)
(* process writes is what it read some steps ago, so the records it carries must *)
(* be sane too.                                                                  *)

Sane(rec) == rec.status # "ABSENT" /\ rec.expires \in Nat /\ Schedulable(rec)

\* What a command in execution carries.
SaneRun(u) ==
  /\ u.step \in {"read", "write"} =>
       Sane(u.rec) /\ (u.then = "call" => u.rec.status = "VERIFY_IN_PROGRESS")
  /\ u.step = "call" => Sane(u.rec) /\ u.rec.status = "VERIFY_IN_PROGRESS"
  /\ u.step = "download" => Sane(u.rec) /\ u.rec.status = "PACKAGE_READY"
  /\ u.step = "write" => \A s \in Refs : u.buf[s].status # "ABSENT" => Sane(u.buf[s])
  /\ \A s \in u.todo : Sane(u.snap[s]) /\ u.snap[s].status \in PendingVerifyStatuses

ScheduleInv ==
  /\ TypeOK
  /\ \A r \in Refs : Exists(file, r) => Sane(FromDocument(file[r]))
  /\ \A p \in Procs : SaneRun(run[p])

\* Reading a sane record again changes nothing that matters (from_document).
LEMMA FromDocumentSane ==
  ASSUME NEW rec \in Record, Sane(rec) PROVE Sane(FromDocument(rec))
<1>1. rec.next \in Times /\ rec.created \in Nat /\ rec.expires \in Nat /\ rec.attempts \in Nat
  BY DEF Record, Sane
<1>2. FromDocument(rec).expires = rec.expires
  BY <1>1 DEF FromDocument, Record, NoTime
<1>3. FromDocument(rec).status = NormalizeStatus(rec.status)
      /\ FromDocument(rec).attempts = rec.attempts /\ FromDocument(rec).packages = rec.packages
  BY DEF FromDocument, Record
<1>4. FromDocument(rec).next = rec.next
  <2>1. CASE rec.next # NoTime
    BY <2>1 DEF FromDocument, Record
  <2>2. CASE rec.next = NoTime
    <3>1. rec.status \notin PendingVerifyStatuses
      BY <2>2, <1>1 DEF Sane, Schedulable, NoTime
    <3>2. NormalizeStatus(rec.status) \notin PendingVerifyStatuses
      BY <3>1 DEF NormalizeStatus, PendingVerifyStatuses
    <3> QED
      BY <2>2, <3>2 DEF FromDocument, Record
  <2> QED
    BY <2>1, <2>2
<1>5. NormalizeStatus(rec.status) # "ABSENT"
      /\ (NormalizeStatus(rec.status) \in PendingVerifyStatuses
            <=> rec.status \in PendingVerifyStatuses)
      /\ (rec.status \notin PendingVerifyStatuses => NormalizeStatus(rec.status) = rec.status)
  BY DEF NormalizeStatus, PendingVerifyStatuses, Sane
<1>6. {"VERIFY_IN_PROGRESS", "PACKAGE_READY", "PACKAGE_DOWNLOADED"} \cap PendingVerifyStatuses = {}
      /\ TerminalVerifyStatuses \cap PendingVerifyStatuses = {}
  BY DEF TerminalVerifyStatuses, PendingVerifyStatuses
<1> QED
  BY <1>2, <1>3, <1>4, <1>5, <1>6 DEF Sane, Schedulable

\* Every record a reader gets from a sane file is sane (_read_state).
LEMMA ReadStateSane ==
  ASSUME ScheduleInv, NEW r \in Refs, ReadState(file)[r].status # "ABSENT"
  PROVE  Sane(ReadState(file)[r])
BY DEF ReadState, ScheduleInv, Absent

\* A fresh record is sane: its first check fits in its life.
LEMMA NewRecordSane == ASSUME NEW t \in Nat PROVE Sane(NewRecord(t))
BY DEF NewRecord, NormalizeStatus, Sane, Schedulable, PendingVerifyStatuses,
       TerminalVerifyStatuses, NoTime

\* Rewriting a record that carries no package keeps it sane when the new status
\* allows it: the next check is cut at the expiry.
LEMMA RewriteSane ==
  ASSUME NEW rec \in Record, NEW status \in Statuses \ {"ABSENT", "VERIFY_IN_PROGRESS"},
         NEW now \in Nat, NEW d \in Nat,
         rec.expires \in Nat, rec.attempts <= MaxAttempts, rec.packages = {}
  PROVE  Sane(Rewrite(rec, status, now, d))
<1> DEFINE new == Rewrite(rec, status, now, d)
<1>1. new.status = status /\ new.expires = rec.expires /\ new.attempts = rec.attempts
      /\ new.packages = {}
  BY DEF Rewrite, Record
<1>2. new.next = IF status \in PendingVerifyStatuses THEN NextCheckAt(rec, now, d) ELSE NoTime
  BY DEF Rewrite, Record
<1>3. NextCheckAt(rec, now, d) \in 0..rec.expires
  BY DEF NextCheckAt
<1>4. TerminalVerifyStatuses \cap PendingVerifyStatuses = {}
  BY DEF TerminalVerifyStatuses, PendingVerifyStatuses
<1> HIDE DEF new
<1>5. Sane(new)
  BY <1>1, <1>2, <1>3, <1>4 DEF Sane, Schedulable
<1> QED
  BY <1>5 DEF new

\* The record of a verification under way has spent less than its budget.
LEMMA InProgressFacts ==
  ASSUME NEW rec \in Record, Sane(rec), rec.status = "VERIFY_IN_PROGRESS"
  PROVE  /\ Attempted(rec) \in Record
         /\ Attempted(rec).expires \in Nat
         /\ Attempted(rec).attempts <= MaxAttempts
         /\ Attempted(rec).packages = {}
         /\ rec.attempts + 1 \in Nat
BY AttemptedType DEF Attempted, Record, Sane, Schedulable

\* _record_result keeps the schedule, whatever SAT answers.
LEMMA RecordResultSane ==
  ASSUME NEW rec \in Record, Sane(rec), rec.status = "VERIFY_IN_PROGRESS",
         NEW result, NEW packages \in SUBSET Packages, NEW now \in Nat, NEW d \in Nat
  PROVE  Sane(RecordResult(rec, result, packages, now, d))
<1> DEFINE status == ResultStatus(result, rec.attempts + 1)
           base == Rewrite(Attempted(rec), status, now, d)
           new == [base EXCEPT !.packages = IF status = "PACKAGE_READY" THEN packages ELSE @]
<1>1. status \in Statuses \ {"ABSENT", "VERIFY_IN_PROGRESS"}
  BY DEF ResultStatus, Statuses, PendingVerifyStatuses, TerminalVerifyStatuses
<1> HIDE DEF status
<1>2. base \in Record /\ Sane(base)
  BY <1>1, InProgressFacts, RewriteSane, RewriteType
<1>3. base.status = status
  BY InProgressFacts DEF Rewrite, Record
<1> HIDE DEF base
<1>4. /\ new.status = base.status /\ new.next = base.next /\ new.expires = base.expires
      /\ new.attempts = base.attempts
      /\ new.packages = IF status = "PACKAGE_READY" THEN packages ELSE base.packages
  BY <1>2 DEF Record
<1> HIDE DEF new
<1>5. Sane(new)
  BY <1>2, <1>3, <1>4 DEF Sane, Schedulable
<1> QED
  BY <1>5 DEF RecordResult, new, base, status

\* _retry_or_permanent keeps the schedule.
LEMMA RetrySane ==
  ASSUME NEW rec \in Record, Sane(rec), rec.status = "VERIFY_IN_PROGRESS",
         NEW now \in Nat, NEW d \in Nat
  PROVE  Sane(RetryOrPermanent(rec, now, d))
<1> DEFINE status == IF AttemptsExhausted(rec.attempts + 1)
                     THEN "VERIFY_FAILED_PERMANENT" ELSE "VERIFY_FAILED_RETRYABLE"
<1>1. status \in Statuses \ {"ABSENT", "VERIFY_IN_PROGRESS"}
  BY DEF Statuses, PendingVerifyStatuses, TerminalVerifyStatuses
<1> HIDE DEF status
<1> QED
  BY <1>1, InProgressFacts, RewriteSane DEF RetryOrPermanent, status

\* The record _verify_one stores before it calls the verifier.
VerifyRecord(rec, now) ==
  IF IsExpired(rec, now) THEN Rewrite(rec, "VERIFY_EXPIRED", now, 0)
  ELSE IF AttemptsExhausted(rec.attempts) THEN Rewrite(rec, "VERIFY_FAILED_PERMANENT", now, 0)
  ELSE InProgress(rec)

\* The record _verify_one stores for a due record is sane: expired, out of budget or in progress.
LEMMA VerifyRecordSane ==
  ASSUME NEW rec \in Record, Sane(rec), rec.status \in PendingVerifyStatuses, NEW now \in Nat
  PROVE  /\ Sane(VerifyRecord(rec, now))
         /\ ~(IsExpired(rec, now) \/ AttemptsExhausted(rec.attempts))
              => VerifyRecord(rec, now).status = "VERIFY_IN_PROGRESS"
<1>1. rec.expires \in Nat /\ rec.attempts \in Nat /\ rec.attempts <= MaxAttempts
      /\ rec.packages = {}
  BY DEF Sane, Schedulable, Record, PendingVerifyStatuses
<1>2. {"VERIFY_EXPIRED", "VERIFY_FAILED_PERMANENT"}
        \subseteq Statuses \ {"ABSENT", "VERIFY_IN_PROGRESS"}
  BY DEF Statuses, TerminalVerifyStatuses
<1>3. Sane(Rewrite(rec, "VERIFY_EXPIRED", now, 0))
      /\ Sane(Rewrite(rec, "VERIFY_FAILED_PERMANENT", now, 0))
  BY <1>1, <1>2, RewriteSane
<1>4. InProgress(rec).status = "VERIFY_IN_PROGRESS"
      /\ InProgress(rec).attempts = rec.attempts /\ InProgress(rec).packages = {}
      /\ InProgress(rec).expires = rec.expires
  BY <1>1 DEF InProgress, Record
<1>5. ~AttemptsExhausted(rec.attempts) => Sane(InProgress(rec))
  BY <1>1, <1>4 DEF AttemptsExhausted, Sane, Schedulable, PendingVerifyStatuses,
                    TerminalVerifyStatuses
<1> QED
  BY <1>3, <1>4, <1>5 DEF VerifyRecord

\* An idle process carries nothing.
LEMMA IdleRunSane == SaneRun(IdleRun)
BY DEF SaneRun, IdleRun

\* Replacing the command of one process by a sane one.
LEMMA SetSane ==
  ASSUME ScheduleInv, NEW p \in Procs, NEW u, SaneRun(u), Set(p, u)
  PROVE  \A q \in Procs : SaneRun(run'[q])
<1> SUFFICES ASSUME NEW q \in Procs PROVE SaneRun(run'[q])
  OBVIOUS
<1>1. run'[q] = IF q = p THEN u ELSE run[q]
  BY DEF Set, ScheduleInv, TypeOK
<1> QED
  BY <1>1 DEF ScheduleInv

\* Starting the upsert of a sane record.
LEMMA StartUpsertSane ==
  ASSUME ScheduleInv, NEW p \in Procs, NEW r \in Refs, NEW rec \in Record, Sane(rec),
         NEW then \in {"idle", "batch"}, StartUpsert(p, r, rec, then)
  PROVE  \A q \in Procs : SaneRun(run'[q])
<1> DEFINE u == [run[p] EXCEPT !.step = "read", !.cur = r, !.rec = rec, !.then = then]
<1>1. run[p] \in Run /\ SaneRun(run[p])
  BY DEF ScheduleInv, TypeOK
<1>2. u.step = "read" /\ u.rec = rec /\ u.then = then /\ u.todo = run[p].todo
      /\ u.snap = run[p].snap
  BY <1>1 DEF Run
<1> HIDE DEF u
<1>3. SaneRun(u)
  BY <1>1, <1>2 DEF SaneRun
<1> QED
  BY <1>3, SetSane DEF StartUpsert, u

\* The records a batch starts from are sane and pending (_due_records).
LEMMA SelectSane ==
  ASSUME ScheduleInv, NEW p \in Procs, NEW scope \in SUBSET Refs, NEW limit,
         NEW live \in BOOLEAN, Select(p, scope, limit, live)
  PROVE  \A q \in Procs : SaneRun(run'[q])
<1> DEFINE snap == ReadState(file)
           new(todo) == [IdleRun EXCEPT !.step = "batch", !.live = live, !.now = clock,
                  !.todo = todo,
                  !.snap = [r \in Refs |-> IF r \in todo THEN snap[r] ELSE Absent]]
<1>1. PICK todo \in SUBSET DueRefs(snap, scope, clock) : Set(p, new(todo))
  BY DEF Select, FirstDue
<1>2. \A r \in todo : r \in Refs /\ snap[r].status \in PendingVerifyStatuses
  BY <1>1 DEF DueRefs, IsDue
<1>3. \A r \in todo : Sane(snap[r])
  <2> TAKE r \in todo
  <2>1. snap[r].status # "ABSENT"
    BY <1>2 DEF PendingVerifyStatuses
  <2> QED
    BY <1>2, <2>1, ReadStateSane
<1> HIDE DEF snap
<1>4. new(todo).step = "batch" /\ new(todo).todo = todo
      /\ \A r \in todo : new(todo).snap[r] = snap[r]
  BY <1>2, IdleRunType DEF Run
<1> HIDE DEF new
<1>5. SaneRun(new(todo))
  BY <1>2, <1>3, <1>4 DEF SaneRun
<1> QED
  BY <1>1, <1>5, SetSane

\* Only UpsertWrite touches the file.
LEMMA OnlyWriteChangesFile ==
  ASSUME [Next]_vars, file' # file
  PROVE  \E p \in Procs : UpsertWrite(p)
BY DEF Next, vars, Tick, Command, Proceed, Crash, SmokeSubmit, BackfillSubmit, VerifyDue,
       LivePreflight, DownloadPackage, SubmitAccepted, AnswerLost, VerifyOne, SubmitRefused, UpsertRead,
       LiveVerifyDue, LiveDenied, BatchDone, VerifierAnswers, VerifierRaises,
       PackageDelivered, DownloadFails

\* A write replaces the file by sane records.
LEMMA WriteSane ==
  ASSUME ScheduleInv, NEW p \in Procs, UpsertWrite(p), NEW r \in Refs, Exists(file', r)
  PROVE  Sane(FromDocument(file'[r]))
<1>1. run[p] \in Run /\ SaneRun(run[p]) /\ run[p].step = "write"
  BY DEF ScheduleInv, TypeOK, UpsertWrite, At
<1>2. file'[r] = IF r = run[p].cur THEN run[p].rec ELSE run[p].buf[r]
  BY <1>1 DEF UpsertWrite, UpsertInto, Run
<1>3. file'[r] \in Record
  BY <1>1, <1>2 DEF Run
<1>4. Sane(file'[r])
  BY <1>1, <1>2 DEF SaneRun, Exists
<1> QED
  BY <1>3, <1>4, FromDocumentSane

\* One step keeps the schedule consistent.
LEMMA ScheduleStep == ScheduleInv /\ [Next]_vars => ScheduleInv'
<1> SUFFICES ASSUME ScheduleInv, [Next]_vars PROVE ScheduleInv'
  OBVIOUS
<1>1. TypeOK'
  BY TypeStep DEF ScheduleInv
<1>2. \A r \in Refs : Exists(file', r) => Sane(FromDocument(file'[r]))
  <2>1. CASE file' = file
    BY <2>1 DEF ScheduleInv, Exists
  <2>2. CASE file' # file
    BY <2>2, OnlyWriteChangesFile, WriteSane
  <2> QED
    BY <2>1, <2>2
<1>3. \A p \in Procs : run[p] \in Run /\ SaneRun(run[p])
  BY DEF ScheduleInv, TypeOK
<1> DEFINE Goal == \A q \in Procs : SaneRun(run'[q])
<1>4. ASSUME Tick \/ UNCHANGED vars PROVE Goal
  BY <1>3, <1>4 DEF Tick, vars
<1>5. ASSUME NEW p \in Procs, Command(p) PROVE Goal
  <2>1. ASSUME NEW c \in Criteria, SmokeSubmit(p, c) \/ BackfillSubmit(p, c) PROVE Goal
    <3>1. SaneRun([IdleRun EXCEPT !.step = "submit", !.crit = c])
      BY DEF SaneRun, IdleRun
    <3> QED
      BY <2>1, <3>1, SetSane DEF SmokeSubmit, BackfillSubmit
  <2>2. ASSUME NEW scope \in SUBSET Refs, NEW limit, VerifyDue(p, scope, limit) PROVE Goal
    BY <2>2, SelectSane DEF VerifyDue
  <2>3. ASSUME NEW r \in Refs, LivePreflight(p, r) PROVE Goal
    <3>1. SaneRun([IdleRun EXCEPT !.step = "guard", !.cur = r])
      BY DEF SaneRun, IdleRun
    <3> QED
      BY <2>3, <3>1, SetSane DEF LivePreflight
  <2>4. ASSUME NEW r \in Refs, NEW k \in Packages, DownloadPackage(p, r, k) PROVE Goal
    <3> DEFINE rec == ReadState(file)[r]
    <3>1. rec.status = "PACKAGE_READY" /\ Sane(rec)
      BY <2>4, ReadStateSane DEF DownloadPackage
    <3> HIDE DEF rec
    <3>2. SaneRun([IdleRun EXCEPT !.step = "download", !.cur = r, !.pkg = {k}, !.rec = rec])
      BY <3>1 DEF SaneRun, IdleRun
    <3> QED
      BY <2>4, <3>2, SetSane DEF DownloadPackage, rec
  <2> QED
    BY <1>5, <2>1, <2>2, <2>3, <2>4 DEF Command
<1>6. ASSUME NEW p \in Procs, Proceed(p) PROVE Goal
  <2>0. run[p] \in Run /\ SaneRun(run[p])
    BY <1>3
  <2>1. ASSUME NEW r \in Refs, SubmitAccepted(p, r) PROVE Goal
    <3>1. clock \in Nat
      BY DEF ScheduleInv, TypeOK
    <3>2. NewRecord(clock) \in Record /\ Sane(NewRecord(clock))
      BY <3>1, NewRecordType, NewRecordSane
    <3> QED
      BY <2>1, <3>2, StartUpsertSane DEF SubmitAccepted
  <2>2. ASSUME NEW r \in Refs, VerifyOne(p, r) PROVE Goal
    <3> DEFINE rec == run[p].snap[r]
               now == run[p].now
               over == IsExpired(rec, now) \/ AttemptsExhausted(rec.attempts)
               then == IF over THEN "batch" ELSE "call"
               new == VerifyRecord(rec, now)
               u == [run[p] EXCEPT !.step = "read", !.cur = r, !.todo = @ \ {r},
                                   !.rec = new, !.then = then]
    <3>1. rec \in Record /\ now \in Nat /\ Sane(rec) /\ rec.status \in PendingVerifyStatuses
      BY <2>0, <2>2 DEF Run, SaneRun, VerifyOne
    <3>2. Sane(new) /\ (~over => new.status = "VERIFY_IN_PROGRESS")
      BY <3>1, VerifyRecordSane
    <3>3. Set(p, u)
      BY <2>2 DEF VerifyOne, VerifyRecord
    <3>4. then = "call" => ~over
      OBVIOUS
    <3> HIDE DEF new, over, then
    <3>5. u.step = "read" /\ u.rec = new /\ u.then = then /\ u.todo = run[p].todo \ {r}
          /\ u.snap = run[p].snap
      BY <2>0 DEF Run
    <3> HIDE DEF u
    <3>6. SaneRun(u)
      BY <2>0, <3>2, <3>4, <3>5 DEF SaneRun
    <3> QED
      BY <3>3, <3>6, SetSane
  <2>3. CASE UpsertRead(p)
    <3> DEFINE u == [run[p] EXCEPT !.step = "write", !.buf = ReadState(file)]
    <3>1. \A s \in Refs : ReadState(file)[s].status # "ABSENT" => Sane(ReadState(file)[s])
      BY ReadStateSane
    <3>2. u.step = "write" /\ u.rec = run[p].rec /\ u.then = run[p].then
          /\ u.todo = run[p].todo /\ u.snap = run[p].snap /\ u.buf = ReadState(file)
      BY <2>0 DEF Run
    <3>3. Set(p, u) /\ run[p].step = "read"
      BY <2>3 DEF UpsertRead, At
    <3> HIDE DEF u
    <3>4. SaneRun(u)
      BY <2>0, <3>1, <3>2, <3>3 DEF SaneRun
    <3> QED
      BY <3>3, <3>4, SetSane
  <2>4. CASE UpsertWrite(p)
    <3> DEFINE u == [run[p] EXCEPT !.step = run[p].then, !.buf = EmptyFile]
    <3>1. u.step = run[p].then /\ u.rec = run[p].rec /\ u.todo = run[p].todo
          /\ u.snap = run[p].snap /\ run[p].then \in {"idle", "batch", "call"}
      BY <2>0 DEF Run
    <3>2. run[p].step = "write" /\ (Quit(p) \/ Set(p, u))
      BY <2>4 DEF UpsertWrite, At
    <3> HIDE DEF u
    <3>3. SaneRun(u)
      BY <2>0, <3>1, <3>2 DEF SaneRun
    <3> QED
      BY <3>2, <3>3, SetSane, IdleRunSane DEF Quit
  <2>5. CASE LiveVerifyDue(p)
    <3>1. {run[p].cur} \in SUBSET Refs
      BY <2>0 DEF Run
    <3> QED
      BY <2>5, <3>1, SelectSane DEF LiveVerifyDue
  <2>6. CASE SubmitRefused(p) \/ LiveDenied(p) \/ BatchDone(p) \/ DownloadFails(p)
    BY <2>6, SetSane, IdleRunSane DEF SubmitRefused, LiveDenied, BatchDone, DownloadFails, Quit
  <2>9. ASSUME NEW r \in Refs, AnswerLost(p, r) PROVE Goal
    BY <2>9, SetSane, IdleRunSane DEF AnswerLost, Quit
  <2>7. CASE VerifierAnswers(p) \/ VerifierRaises(p)
    <3>1. run[p].rec \in Record /\ run[p].now \in Nat /\ run[p].cur \in Refs
      BY <2>0 DEF Run
    <3>2. Sane(run[p].rec) /\ run[p].rec.status = "VERIFY_IN_PROGRESS"
      BY <2>0, <2>7 DEF SaneRun, VerifierAnswers, VerifierRaises, At
    <3>3. run[p].rec.attempts + 1 \in Nat
      BY <3>1 DEF Record
    <3>4. NextDelays(run[p].rec.attempts + 1) \subseteq Nat
      BY <3>3, DelayType
    <3>5. PICK new \in Record : Sane(new) /\ StartUpsert(p, run[p].cur, new, "batch")
      BY <2>7, <3>1, <3>2, <3>4, RecordResultType, RetryType, RecordResultSane, RetrySane
      DEF VerifierAnswers, VerifierRaises
    <3> QED
      BY <3>1, <3>5, StartUpsertSane
  <2>8. CASE PackageDelivered(p)
    <3> DEFINE new == [run[p].rec EXCEPT !.status = "PACKAGE_DOWNLOADED"]
    <3>1. run[p].rec \in Record /\ run[p].cur \in Refs /\ Sane(run[p].rec)
          /\ run[p].rec.status = "PACKAGE_READY"
      BY <2>0, <2>8 DEF Run, SaneRun, PackageDelivered, At
    <3>2. new \in Record
      BY <3>1 DEF Record, Statuses, TerminalVerifyStatuses
    <3>3. Sane(new)
      BY <3>1 DEF Record, Sane, Schedulable, PendingVerifyStatuses, TerminalVerifyStatuses
    <3> QED
      BY <2>8, <3>1, <3>2, <3>3, StartUpsertSane DEF PackageDelivered
  <2> QED
    BY <1>6, <2>1, <2>2, <2>3, <2>4, <2>5, <2>6, <2>7, <2>8, <2>9 DEF Proceed
<1>7. ASSUME NEW p \in Procs, Crash(p) PROVE Goal
  BY <1>7, SetSane, IdleRunSane DEF Crash, Quit
<1>8. Goal
  BY <1>4, <1>5, <1>6, <1>7 DEF Next
<1> QED
  BY <1>1, <1>2, <1>8 DEF ScheduleInv, Exists

\* Legacy records become sane when they are read.
LEMMA ScheduleInit == Init => ScheduleInv
<1> SUFFICES ASSUME Init PROVE ScheduleInv
  OBVIOUS
<1>1. TypeOK
  BY TypeInit
<1>2. Sane(FromDocument(LegacyRecord))
  BY DEF Sane, Schedulable, FromDocument, NormalizeStatus, LegacyRecord, Absent, NoTime,
         PendingVerifyStatuses, TerminalVerifyStatuses
<1>3. \A r \in Refs : Exists(file, r) => file[r] = LegacyRecord
  BY DEF Init, Exists, Absent
<1> QED
  BY <1>1, <1>2, <1>3, IdleRunSane DEF Init, ScheduleInv

\* ScheduleConsistent for any number of concurrent processes, requests and crashes and
\* any backoff policy: although upserts overwrite each other, no record a reader sees
\* is ever without a next check it will reach, over its budget or ahead of SAT.
THEOREM ScheduleIsConsistent == Spec => []ScheduleConsistent
<1>1. ScheduleInv => ScheduleConsistent
  BY DEF ScheduleInv, ScheduleConsistent, ReadState, Sane
<1> QED
  BY <1>1, ScheduleInit, ScheduleStep, PTL DEF Spec

-----------------------------------------------------------------------------
(* What a status claims about the world is true: bytes are stored, SAT was asked. *)

Outcomes == {"PACKAGE_READY", "PACKAGE_DOWNLOADED", "VERIFY_NO_DATA", "VERIFY_REJECTED"}

Justified(r, rec, st, ca) ==
  /\ rec.status = "PACKAGE_DOWNLOADED" => st[r] \cap rec.packages # {}
  /\ rec.status \in Outcomes => ca[r] > 0

\* The records a process will write are justified already.
JustifiedRun(u, st, ca) ==
  /\ u.step \in {"read", "write"} => Justified(u.cur, u.rec, st, ca)
  /\ u.step = "write" => \A s \in Refs : Justified(s, u.buf[s], st, ca)
  /\ u.step = "download" =>
       Justified(u.cur, u.rec, st, ca) /\ u.pkg # {} /\ u.pkg \subseteq u.rec.packages

JustifiedInv ==
  /\ ScheduleInv
  /\ \A r \in Refs : Justified(r, file[r], stored, calls)
  /\ \A p \in Procs : JustifiedRun(run[p], stored, calls)

\* Reading a record does not invent a claim (from_document).
LEMMA ReadStateJustified ==
  ASSUME JustifiedInv, NEW r \in Refs
  PROVE  Justified(r, ReadState(file)[r], stored, calls)
<1>1. file[r] \in Record
  BY DEF JustifiedInv, ScheduleInv, TypeOK
<1>2. FromDocument(file[r]).status = NormalizeStatus(file[r].status)
      /\ FromDocument(file[r]).packages = file[r].packages
  BY <1>1 DEF FromDocument, Record
<1>3. NormalizeStatus(file[r].status) \in Outcomes
        => NormalizeStatus(file[r].status) = file[r].status
  BY DEF NormalizeStatus, Outcomes
<1>4. Justified(r, file[r], stored, calls)
  BY DEF JustifiedInv
<1>5. Justified(r, FromDocument(file[r]), stored, calls)
  BY <1>2, <1>3, <1>4 DEF Justified, Outcomes
<1>6. Justified(r, Absent, stored, calls)
  BY DEF Justified, Outcomes, Absent
<1> QED
  BY <1>5, <1>6 DEF ReadState

\* Storage and the record of calls only grow.
LEMMA EvidenceGrows ==
  ASSUME TypeOK, [Next]_vars, NEW r \in Refs
  PROVE  stored[r] \subseteq stored'[r] /\ calls[r] \in Nat /\ calls'[r] >= calls[r]
<1>1. calls[r] \in Nat /\ \A p \in Procs : run[p] \in Run
  BY DEF TypeOK
<1>2. CASE Tick \/ UNCHANGED vars
  BY <1>1, <1>2 DEF Tick, vars, history
<1>3. ASSUME NEW p \in Procs, Command(p) \/ Crash(p) PROVE UNCHANGED <<stored, calls>>
  BY <1>3 DEF Command, Crash, SmokeSubmit, BackfillSubmit, VerifyDue, LivePreflight,
              DownloadPackage, history
<1>4. ASSUME NEW p \in Procs, Proceed(p)
      PROVE  stored[r] \subseteq stored'[r] /\ calls'[r] >= calls[r]
  <2>1. ASSUME NEW q \in Refs, SubmitAccepted(p, q) \/ AnswerLost(p, q) \/ VerifyOne(p, q)
        PROVE  UNCHANGED <<stored, calls>>
    BY <2>1 DEF SubmitAccepted, AnswerLost, VerifyOne, history
  <2>2. ASSUME \/ SubmitRefused(p) \/ UpsertRead(p) \/ UpsertWrite(p)
               \/ LiveVerifyDue(p) \/ LiveDenied(p) \/ BatchDone(p)
        PROVE  UNCHANGED <<stored, calls>>
    BY <2>2 DEF SubmitRefused, UpsertRead, UpsertWrite, LiveVerifyDue, LiveDenied,
                      BatchDone, history
  <2>3. CASE VerifierAnswers(p) \/ VerifierRaises(p)
    <3>1. stored' = stored /\ CountCall(p)
      BY <2>3 DEF VerifierAnswers, VerifierRaises
    <3>2. calls'[r] = calls[r] \/ calls'[r] = calls[r] + 1
      BY <1>1, <3>1 DEF CountCall, history, TypeOK
    <3> QED
      BY <1>1, <3>1, <3>2
  <2>4. CASE PackageDelivered(p) \/ DownloadFails(p)
    <3>1. stored' = stored \/ stored' = [stored EXCEPT ![run[p].cur] = @ \cup run[p].pkg]
      BY <2>4 DEF PackageDelivered, DownloadFails
    <3>2. stored[r] \subseteq stored'[r]
      BY <3>1 DEF TypeOK
    <3>3. calls' = calls
      BY <2>4 DEF PackageDelivered, DownloadFails, history
    <3> QED
      BY <1>1, <3>2, <3>3
  <2>5. calls'[r] = calls[r] => calls'[r] >= calls[r]
    BY <1>1
  <2> QED
    BY <1>4, <2>1, <2>2, <2>3, <2>4, <2>5 DEF Proceed
<1>5. UNCHANGED <<stored, calls>> => stored[r] \subseteq stored'[r] /\ calls'[r] >= calls[r]
  BY <1>1
<1> QED
  BY <1>1, <1>2, <1>3, <1>4, <1>5 DEF Next

\* What was justified stays justified.
LEMMA JustifiedGrows ==
  ASSUME TypeOK, [Next]_vars, NEW r \in Refs, NEW rec, Justified(r, rec, stored, calls)
  PROVE  Justified(r, rec, stored', calls')
<1>1. stored[r] \subseteq stored'[r] /\ calls[r] \in Nat /\ calls'[r] >= calls[r]
  BY EvidenceGrows
<1>2. calls'[r] \in Nat
  BY TypeStep DEF TypeOK
<1>3. rec.status \in Outcomes => calls'[r] > 0
  BY <1>1, <1>2 DEF Justified
<1>4. rec.status = "PACKAGE_DOWNLOADED" => stored'[r] \cap rec.packages # {}
  BY <1>1 DEF Justified
<1> QED
  BY <1>3, <1>4 DEF Justified

\* The claims of a command in execution stay justified as storage and calls grow.
LEMMA JustifiedRunGrows ==
  ASSUME TypeOK, [Next]_vars, NEW u \in Run, JustifiedRun(u, stored, calls)
  PROVE  JustifiedRun(u, stored', calls')
<1>1. u.cur \in Refs
  BY DEF Run
<1> QED
  BY <1>1, JustifiedGrows DEF JustifiedRun

\* An idle process claims nothing.
LEMMA IdleRunJustified == ASSUME NEW st, NEW ca PROVE JustifiedRun(IdleRun, st, ca)
BY DEF JustifiedRun, IdleRun

\* Replacing the command of one process by a justified one.
LEMMA SetJustified ==
  ASSUME JustifiedInv, [Next]_vars, NEW p \in Procs, NEW u,
         JustifiedRun(u, stored', calls'), Set(p, u)
  PROVE  \A q \in Procs : JustifiedRun(run'[q], stored', calls')
<1> SUFFICES ASSUME NEW q \in Procs PROVE JustifiedRun(run'[q], stored', calls')
  OBVIOUS
<1>1. TypeOK /\ run[q] \in Run /\ JustifiedRun(run[q], stored, calls)
  BY DEF JustifiedInv, ScheduleInv, TypeOK
<1>2. run'[q] = IF q = p THEN u ELSE run[q]
  BY <1>1 DEF Set, TypeOK
<1> QED
  BY <1>1, <1>2, JustifiedRunGrows

\* Starting the upsert of a justified record.
LEMMA StartUpsertJustified ==
  ASSUME JustifiedInv, [Next]_vars, NEW p \in Procs, NEW r \in Refs, NEW rec, NEW then,
         Justified(r, rec, stored', calls'), StartUpsert(p, r, rec, then)
  PROVE  \A q \in Procs : JustifiedRun(run'[q], stored', calls')
<1> DEFINE u == [run[p] EXCEPT !.step = "read", !.cur = r, !.rec = rec, !.then = then]
<1>1. run[p] \in Run
  BY DEF JustifiedInv, ScheduleInv, TypeOK
<1>2. u.step = "read" /\ u.rec = rec /\ u.cur = r
  BY <1>1 DEF Run
<1> HIDE DEF u
<1>3. JustifiedRun(u, stored', calls')
  BY <1>2 DEF JustifiedRun
<1> QED
  BY <1>3, SetJustified DEF StartUpsert, u

\* A command that only starts, or starts a batch, carries no record to write.
LEMMA SelectJustified ==
  ASSUME JustifiedInv, [Next]_vars, NEW p \in Procs, NEW scope, NEW limit, NEW live,
         Select(p, scope, limit, live)
  PROVE  \A q \in Procs : JustifiedRun(run'[q], stored', calls')
<1>1. \A todo, snap :
        JustifiedRun([IdleRun EXCEPT !.step = "batch", !.live = live, !.now = clock,
                        !.todo = todo, !.snap = snap], stored', calls')
  BY DEF JustifiedRun, IdleRun
<1> QED
  BY <1>1, SetJustified DEF Select

\* What _record_result stores is justified by the call that was just made.
LEMMA AnswerJustified ==
  ASSUME JustifiedInv, NEW p \in Procs, At(p, "call"), CountCall(p),
         NEW result \in Answers(p), NEW packages, NEW delay
  PROVE  Justified(run[p].cur, RecordResult(run[p].rec, result, packages, run[p].now, delay),
                   stored', calls')
<1> DEFINE status == ResultStatus(result, run[p].rec.attempts + 1)
           base == Rewrite(Attempted(run[p].rec), status, run[p].now, delay)
           new == RecordResult(run[p].rec, result, packages, run[p].now, delay)
<1>1. run[p] \in Run /\ run[p].cur \in Refs /\ run[p].rec \in Record
  BY DEF JustifiedInv, ScheduleInv, TypeOK, Run
<1>2. Attempted(run[p].rec) \in Record
  BY <1>1, AttemptedType
<1>3. status # "PACKAGE_DOWNLOADED"
  BY DEF ResultStatus
<1>4. new.status = status
  BY <1>2 DEF RecordResult, Rewrite, Record
<1>5. CASE run[p].live
  <2>1. calls[run[p].cur] \in Nat
    BY <1>1 DEF JustifiedInv, ScheduleInv, TypeOK
  <2>2. calls'[run[p].cur] = calls[run[p].cur] + 1
    BY <1>1, <1>5 DEF CountCall, JustifiedInv, ScheduleInv, TypeOK
  <2>3. calls'[run[p].cur] > 0
    BY <2>1, <2>2
  <2> QED
    BY <1>3, <1>4, <2>3 DEF Justified
<1>6. CASE ~run[p].live
  <2>1. result.state = "in_process" /\ result.code = "5000" /\ result.action = "in_progress"
    BY <1>6 DEF Answers, VerificationResult, ClassifySatOutcome, ClassifyState, NoState
  <2>2. status \notin Outcomes
    BY <2>1 DEF ResultStatus, Outcomes, NoDataCodes, EmptyOrInvalidCodes
  <2> QED
    BY <1>4, <2>2 DEF Justified, Outcomes
<1> QED
  BY <1>5, <1>6

\* One step keeps every claim justified.
LEMMA JustifiedStep == JustifiedInv /\ [Next]_vars => JustifiedInv'
<1> SUFFICES ASSUME JustifiedInv, [Next]_vars PROVE JustifiedInv'
  OBVIOUS
<1>0. ScheduleInv /\ TypeOK
      /\ \A p \in Procs : run[p] \in Run /\ SaneRun(run[p]) /\ JustifiedRun(run[p], stored, calls)
  BY DEF JustifiedInv, ScheduleInv, TypeOK
<1>1. ScheduleInv'
  BY <1>0, ScheduleStep
<1>2. \A r \in Refs : Justified(r, file'[r], stored', calls')
  <2> TAKE r \in Refs
  <2>1. Justified(r, file'[r], stored, calls)
    <3>1. CASE file' = file
      BY <3>1 DEF JustifiedInv
    <3>2. CASE file' # file
      <4>1. PICK p \in Procs : UpsertWrite(p)
        BY <3>2, OnlyWriteChangesFile
      <4>2. run[p].step = "write" /\ run[p] \in Run /\ JustifiedRun(run[p], stored, calls)
        BY <1>0, <4>1 DEF UpsertWrite, At
      <4>3. file'[r] = IF r = run[p].cur THEN run[p].rec ELSE run[p].buf[r]
        BY <4>1, <4>2 DEF UpsertWrite, UpsertInto, Run
      <4> QED
        BY <4>2, <4>3 DEF JustifiedRun
    <3> QED
      BY <3>1, <3>2
  <2> QED
    BY <1>0, <2>1, JustifiedGrows
<1> DEFINE Goal == \A q \in Procs : JustifiedRun(run'[q], stored', calls')
<1>3. ASSUME Tick \/ UNCHANGED vars PROVE Goal
  <2>1. run' = run
    BY <1>3 DEF Tick, vars
  <2> QED
    BY <1>0, <2>1, JustifiedRunGrows
<1>4. ASSUME NEW p \in Procs, Command(p) PROVE Goal
  <2>1. ASSUME NEW c \in Criteria, SmokeSubmit(p, c) \/ BackfillSubmit(p, c) PROVE Goal
    <3>1. JustifiedRun([IdleRun EXCEPT !.step = "submit", !.crit = c], stored', calls')
      BY DEF JustifiedRun, IdleRun
    <3> QED
      BY <2>1, <3>1, SetJustified DEF SmokeSubmit, BackfillSubmit
  <2>2. ASSUME NEW scope, NEW limit, VerifyDue(p, scope, limit) PROVE Goal
    BY <2>2, SelectJustified DEF VerifyDue
  <2>3. ASSUME NEW r \in Refs, LivePreflight(p, r) PROVE Goal
    <3>1. JustifiedRun([IdleRun EXCEPT !.step = "guard", !.cur = r], stored', calls')
      BY DEF JustifiedRun, IdleRun
    <3> QED
      BY <2>3, <3>1, SetJustified DEF LivePreflight
  <2>4. ASSUME NEW r \in Refs, NEW k \in Packages, DownloadPackage(p, r, k) PROVE Goal
    <3> DEFINE rec == ReadState(file)[r]
               u == [IdleRun EXCEPT !.step = "download", !.cur = r, !.pkg = {k}, !.rec = rec]
    <3>1. Justified(r, rec, stored', calls')
      BY <1>0, ReadStateJustified, JustifiedGrows
    <3>2. k \in rec.packages /\ Set(p, u)
      BY <2>4 DEF DownloadPackage
    <3> HIDE DEF rec
    <3>3. u.step = "download" /\ u.cur = r /\ u.pkg = {k} /\ u.rec = rec
      BY DEF IdleRun
    <3> HIDE DEF u
    <3>4. JustifiedRun(u, stored', calls')
      BY <3>1, <3>2, <3>3 DEF JustifiedRun
    <3> QED
      BY <3>2, <3>4, SetJustified
  <2> QED
    BY <1>4, <2>1, <2>2, <2>3, <2>4 DEF Command
<1>5. ASSUME NEW p \in Procs, Proceed(p) PROVE Goal
  <2>0. run[p] \in Run /\ SaneRun(run[p]) /\ JustifiedRun(run[p], stored, calls)
        /\ run[p].cur \in Refs /\ run[p].rec \in Record
    BY <1>0 DEF Run
  <2>1. ASSUME NEW r \in Refs, SubmitAccepted(p, r) PROVE Goal
    <3>1. Justified(r, NewRecord(clock), stored', calls')
      BY DEF Justified, NewRecord, NormalizeStatus, Outcomes
    <3> QED
      BY <2>1, <3>1, StartUpsertJustified DEF SubmitAccepted
  <2>2. ASSUME NEW r \in Refs, VerifyOne(p, r) PROVE Goal
    <3> DEFINE rec == run[p].snap[r]
               now == run[p].now
               then == IF IsExpired(rec, now) \/ AttemptsExhausted(rec.attempts)
                       THEN "batch" ELSE "call"
               new == VerifyRecord(rec, now)
               u == [run[p] EXCEPT !.step = "read", !.cur = r, !.todo = @ \ {r},
                                   !.rec = new, !.then = then]
    <3>1. rec \in Record
      BY <2>0, <2>2 DEF Run
    <3>2. new.status \notin Outcomes
      BY <3>1 DEF VerifyRecord, Rewrite, InProgress, Record, Outcomes
    <3>3. Set(p, u)
      BY <2>2 DEF VerifyOne, VerifyRecord
    <3> HIDE DEF new, then
    <3>4. u.step = "read" /\ u.rec = new
      BY <2>0 DEF Run
    <3> HIDE DEF u
    <3>5. JustifiedRun(u, stored', calls')
      BY <3>2, <3>4 DEF JustifiedRun, Justified, Outcomes
    <3> QED
      BY <3>3, <3>5, SetJustified
  <2>3. CASE UpsertRead(p)
    <3> DEFINE u == [run[p] EXCEPT !.step = "write", !.buf = ReadState(file)]
    <3>1. \A s \in Refs : Justified(s, ReadState(file)[s], stored', calls')
      BY <1>0, ReadStateJustified, JustifiedGrows
    <3>2. u.step = "write" /\ u.rec = run[p].rec /\ u.cur = run[p].cur
          /\ u.buf = ReadState(file)
      BY <2>0 DEF Run
    <3>3. Set(p, u) /\ run[p].step = "read"
      BY <2>3 DEF UpsertRead, At
    <3>4. Justified(run[p].cur, run[p].rec, stored', calls')
      BY <1>0, <2>0, <3>3, JustifiedGrows DEF JustifiedRun
    <3> HIDE DEF u
    <3>5. JustifiedRun(u, stored', calls')
      BY <3>1, <3>2, <3>4 DEF JustifiedRun
    <3> QED
      BY <3>3, <3>5, SetJustified
  <2>4. CASE UpsertWrite(p)
    <3> DEFINE u == [run[p] EXCEPT !.step = run[p].then, !.buf = EmptyFile]
    <3>1. u.step \in {"idle", "batch", "call"}
      BY <2>0 DEF Run
    <3>2. Quit(p) \/ Set(p, u)
      BY <2>4 DEF UpsertWrite
    <3> HIDE DEF u
    <3>3. JustifiedRun(u, stored', calls')
      BY <3>1 DEF JustifiedRun
    <3> QED
      BY <3>2, <3>3, SetJustified, IdleRunJustified DEF Quit
  <2>5. CASE LiveVerifyDue(p)
    BY <2>5, SelectJustified DEF LiveVerifyDue
  <2>6. CASE SubmitRefused(p) \/ LiveDenied(p) \/ BatchDone(p) \/ DownloadFails(p)
    BY <2>6, SetJustified, IdleRunJustified
    DEF SubmitRefused, LiveDenied, BatchDone, DownloadFails, Quit
  <2>10. ASSUME NEW r \in Refs, AnswerLost(p, r) PROVE Goal
    BY <2>10, SetJustified, IdleRunJustified DEF AnswerLost, Quit
  <2>7. CASE VerifierAnswers(p)
    BY <2>0, <2>7, AnswerJustified, StartUpsertJustified DEF VerifierAnswers
  <2>8. CASE VerifierRaises(p)
    <3>1. PICK delay : StartUpsert(p, run[p].cur,
                                   RetryOrPermanent(run[p].rec, run[p].now, delay), "batch")
      BY <2>8 DEF VerifierRaises
    <3>2. Attempted(run[p].rec) \in Record
      BY <2>0, AttemptedType
    <3>3. RetryOrPermanent(run[p].rec, run[p].now, delay).status \notin Outcomes
      BY <3>2 DEF RetryOrPermanent, Rewrite, Record, Outcomes
    <3>4. Justified(run[p].cur, RetryOrPermanent(run[p].rec, run[p].now, delay), stored', calls')
      BY <3>3 DEF Justified, Outcomes
    <3> QED
      BY <2>0, <3>1, <3>4, StartUpsertJustified
  <2>9. CASE PackageDelivered(p)
    <3> DEFINE new == [run[p].rec EXCEPT !.status = "PACKAGE_DOWNLOADED"]
    <3>1. run[p].step = "download" /\ run[p].rec.status = "PACKAGE_READY"
      BY <2>0, <2>9 DEF PackageDelivered, At, SaneRun
    <3>2. Justified(run[p].cur, run[p].rec, stored', calls')
          /\ run[p].pkg # {} /\ run[p].pkg \subseteq run[p].rec.packages
      BY <1>0, <2>0, <3>1, JustifiedGrows DEF JustifiedRun
    <3>3. run[p].pkg \subseteq stored'[run[p].cur]
      BY <2>0, <2>9 DEF PackageDelivered, TypeOK, JustifiedInv, ScheduleInv
    <3>4. new.status = "PACKAGE_DOWNLOADED" /\ new.packages = run[p].rec.packages
      BY <2>0 DEF Record
    <3>5. Justified(run[p].cur, new, stored', calls')
      BY <3>1, <3>2, <3>3, <3>4 DEF Justified, Outcomes
    <3> QED
      BY <2>0, <2>9, <3>5, StartUpsertJustified DEF PackageDelivered
  <2> QED
    BY <1>5, <2>1, <2>2, <2>3, <2>4, <2>5, <2>6, <2>7, <2>8, <2>9, <2>10 DEF Proceed
<1>6. ASSUME NEW p \in Procs, Crash(p) PROVE Goal
  BY <1>6, SetJustified, IdleRunJustified DEF Crash, Quit
<1>7. Goal
  BY <1>3, <1>4, <1>5, <1>6 DEF Next
<1> QED
  BY <1>1, <1>2, <1>7 DEF JustifiedInv

\* The initial file claims neither packages nor outcomes.
LEMMA JustifiedInit == Init => JustifiedInv
<1> SUFFICES ASSUME Init PROVE JustifiedInv
  OBVIOUS
<1>1. \A r \in Refs : file[r].status \notin Outcomes
  BY DEF Init, LegacyRecord, Absent, Outcomes
<1>2. \A r \in Refs : Justified(r, file[r], stored, calls)
  BY <1>1 DEF Justified, Outcomes
<1> QED
  BY <1>2, ScheduleInit, IdleRunJustified DEF Init, JustifiedInv

\* Every claim in the file or on its way to it is always justified.
LEMMA JustifiedAlways == Spec => []JustifiedInv
BY JustifiedInit, JustifiedStep, PTL DEF Spec

\* Evidence before status, for any number of concurrent processes: a request is only
\* ever PACKAGE_DOWNLOADED when one of its packages is in local storage, although
\* every process writes back copies it read earlier.
THEOREM EvidenceFirst == Spec => []EvidenceBeforeDownloaded
<1>1. JustifiedInv => EvidenceBeforeDownloaded
  BY DEF JustifiedInv, EvidenceBeforeDownloaded, Justified
<1> QED
  BY <1>1, JustifiedAlways, PTL

\* The fake verifier never settles a request, for any number of concurrent processes:
\* an outcome of SAT on file means SAT was asked.
THEOREM OutcomesAreReal == Spec => []OutcomeComesFromSat
<1>1. JustifiedInv => OutcomeComesFromSat
  BY DEF JustifiedInv, OutcomeComesFromSat, Justified, Outcomes
<1> QED
  BY <1>1, JustifiedAlways, PTL
=============================================================================

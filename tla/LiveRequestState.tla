-------------------------- MODULE LiveRequestState --------------------------
(***************************************************************************)
(* The persisted state of live metadata requests (sat_live_request_state.py *)
(* and the pure part of sat_async_verify.py): the record kept for every    *)
(* accepted request in state/live-metadata-requests.json, what reading the *)
(* file does to it, and how a verification attempt rewrites it.            *)
(*                                                                         *)
(* The file is a function from request references to records.  The code    *)
(* keeps the records in a list sorted by creation time; the order is only  *)
(* presentation, as every reader filters or searches by reference.         *)
(***************************************************************************)
EXTENDS Integers, FiniteSets, SatContract

CONSTANTS
  Refs,          \* request references (_request_ref), ordered as their strings are
  Packages,      \* package identifiers SAT can hand out
  MaxAttempts,   \* VerifyBackoffPolicy.max_attempts
  MaxAge,        \* DEFAULT_VERIFY_MAX_AGE = max_age, in clock ticks
  InitialDelay,  \* DEFAULT_VERIFY_INITIAL_DELAY = initial_delay
  SecondDelay, ThirdDelay, FourthDelay,   \* VerifyBackoffPolicy
  LaterMinDelay, LaterMaxDelay            \* VerifyBackoffPolicy, jittered

\* A delay is a positive time and the first one fits in the life of a request.
ASSUME RequestStateAssumption ==
  /\ Refs \subseteq Nat /\ Refs # {}
  /\ MaxAttempts \in Nat \ {0}
  /\ MaxAge \in Nat
  /\ InitialDelay \in 1..MaxAge
  /\ {SecondDelay, ThirdDelay, FourthDelay, LaterMinDelay, LaterMaxDelay} \subseteq Nat \ {0}
  /\ LaterMinDelay <= LaterMaxDelay

-----------------------------------------------------------------------------
\* Mutant: retryable requests are not pending.
PendingWithoutRetryable ==
  {"REQUEST_ACCEPTED", "VERIFY_SCHEDULED", "VERIFY_IN_PROGRESS_SAT", "accepted", "submitted"}

\* Statuses.  "ABSENT" stands for "no record with this reference in the file".
PendingVerifyStatuses ==
  {"REQUEST_ACCEPTED", "VERIFY_SCHEDULED", "VERIFY_IN_PROGRESS_SAT",
   "VERIFY_FAILED_RETRYABLE", "accepted", "submitted"}
TerminalVerifyStatuses ==
  {"VERIFY_FINISHED", "VERIFY_NO_DATA", "VERIFY_REJECTED", "VERIFY_EXPIRED",
   "VERIFY_FAILED_PERMANENT", "PACKAGE_READY", "PACKAGE_DOWNLOAD_SCHEDULED",
   "PACKAGE_DOWNLOADED"}
Statuses ==
  PendingVerifyStatuses \cup TerminalVerifyStatuses \cup {"VERIFY_IN_PROGRESS", "ABSENT"}

NoTime == -1        \* an empty timestamp string
Times == Nat \cup {NoTime}

\* LiveMetadataRequestRecord, reduced to the fields some branch reads.
Record == [status   : Statuses,
           attempts : Nat,
           next     : Times,     \* next_check_at
           created  : Nat,       \* created_at
           expires  : Times,     \* expires_at
           packages : SUBSET Packages]

Absent == [status |-> "ABSENT", attempts |-> 0, next |-> NoTime, created |-> 0,
           expires |-> NoTime, packages |-> {}]

Exists(file, r) == file[r].status # "ABSENT"

-----------------------------------------------------------------------------
\* Mutant: a spelling the rest of the program does not know.
NormalizeToUnknown(status) ==
  IF status \in {"accepted", "submitted", "REQUEST_ACCEPTED"} THEN "SCHEDULED" ELSE status

\* _normalize_status: legacy and freshly accepted spellings become VERIFY_SCHEDULED.
NormalizeStatus(status) ==
  IF status \in {"accepted", "submitted", "REQUEST_ACCEPTED"} THEN "VERIFY_SCHEDULED" ELSE status

\* LiveMetadataRequestRecord.from_document: what a record becomes when it is read.
FromDocument(rec) ==
  LET status == NormalizeStatus(rec.status) IN
  [rec EXCEPT
     !.status  = status,
     !.expires = IF @ = NoTime THEN rec.created + MaxAge ELSE @,
     !.next    = IF @ = NoTime /\ status \in PendingVerifyStatuses
                 THEN rec.created + InitialDelay ELSE @]

\* _read_state followed by from_document on every entry.
ReadState(file) ==
  [r \in Refs |-> IF Exists(file, r) THEN FromDocument(file[r]) ELSE Absent]

\* Mutant: the filter of the upsert keeps the wrong records.
UpsertDroppingOthers(read, r, rec) == [s \in Refs |-> IF s = r THEN rec ELSE Absent]

\* upsert_live_metadata_request: the content that was read, with one record replaced.
UpsertInto(read, r, rec) == [read EXCEPT ![r] = rec]

\* The record persist_live_metadata_request builds for a request SAT accepted.
NewRecord(created) ==
  [status   |-> NormalizeStatus("accepted"),
   attempts |-> 0,
   next     |-> created + InitialDelay,
   created  |-> created,
   expires  |-> created + MaxAge,
   packages |-> {}]

-----------------------------------------------------------------------------
\* VerifyBackoffPolicy.next_delay; the jitter, a hash of reference and attempt,
\* is any value of its range.
NextDelays(completed) ==
  CASE completed <= 0 -> {InitialDelay}
    [] completed = 1  -> {SecondDelay}
    [] completed = 2  -> {ThirdDelay}
    [] completed = 3  -> {FourthDelay}
    [] completed > 3  -> LaterMinDelay..LaterMaxDelay

\* Mutants: the cut at the expiry is missing; the old check time is kept.
NextCheckUncapped(rec, now, delay) == now + delay
NextCheckKept(rec, now, delay) == rec.next

\* _next_check_at: the delay is cut at the expiry of the request.
NextCheckAt(rec, now, delay) ==
  IF now + delay > rec.expires THEN rec.expires ELSE now + delay

\* _is_expired
IsExpired(rec, now) == now >= rec.expires

\* The budget test of _verify_one, _record_result and _retry_or_permanent.
AttemptsExhausted(attempts) == attempts >= MaxAttempts

\* The filter of _due_records.
IsDue(rec, now) ==
  /\ rec.status \in PendingVerifyStatuses
  /\ rec.next # NoTime
  /\ rec.next <= now

\* The sort key of _due_records: (next_check_at, created_at, request_ref).
Earlier(file, a, b) ==
  \/ file[a].next < file[b].next
  \/ file[a].next = file[b].next /\ file[a].created < file[b].created
  \/ file[a].next = file[b].next /\ file[a].created = file[b].created /\ a < b

DueRefs(file, scope, now) == {r \in scope : IsDue(file[r], now)}

\* due_records[:limit], as the set of selected references (there is exactly one).
FirstDue(due, file, limit) ==
  {S \in SUBSET due :
     /\ Cardinality(S) = IF Cardinality(due) < limit THEN Cardinality(due) ELSE limit
     /\ \A a \in S, b \in due \ S : Earlier(file, a, b)}

-----------------------------------------------------------------------------
\* How a verification rewrites a record.

\* A status that keeps the request scheduled carries a next check, any other clears it.
Rewrite(rec, status, now, delay) ==
  [rec EXCEPT !.status = status,
              !.next   = IF status \in PendingVerifyStatuses
                         THEN NextCheckAt(rec, now, delay) ELSE NoTime]

\* The copy _verify_one stores before it calls the verifier.
InProgress(rec) == [rec EXCEPT !.status = "VERIFY_IN_PROGRESS"]

Attempted(rec) == [rec EXCEPT !.attempts = @ + 1]

\* The branches of _record_result, in order; attempts counts the one just made.
\* Only downloads_exhausted falls through without a look at the budget.
ResultStatus(result, attempts) ==
  IF result.action = "finished" THEN "PACKAGE_READY"
  ELSE IF result.code \in NoDataCodes THEN "VERIFY_NO_DATA"
  ELSE IF result.action = "expired" \/ result.state = "expired" THEN "VERIFY_EXPIRED"
  ELSE IF result.state = "rejected" THEN "VERIFY_REJECTED"
  ELSE IF result.action \in {"unauthorized", "permanent_failure"} THEN "VERIFY_FAILED_PERMANENT"
  ELSE IF result.action # "downloads_exhausted" /\ AttemptsExhausted(attempts)
       THEN "VERIFY_FAILED_PERMANENT"
  ELSE IF result.action \in {"accepted", "in_progress"} THEN "VERIFY_IN_PROGRESS_SAT"
  ELSE "VERIFY_FAILED_RETRYABLE"

\* _record_result
RecordResult(rec, result, packages, now, delay) ==
  LET status == ResultStatus(result, rec.attempts + 1) IN
  [Rewrite(Attempted(rec), status, now, delay) EXCEPT
     !.packages = IF status = "PACKAGE_READY" THEN packages ELSE @]

\* Mutant: an exception of the verifier does not count as an attempt.
RetryUncounted(rec, now, delay) == Rewrite(rec, "VERIFY_FAILED_RETRYABLE", now, delay)

\* _retry_or_permanent: the verifier raised instead of answering.
RetryOrPermanent(rec, now, delay) ==
  Rewrite(Attempted(rec),
          IF AttemptsExhausted(rec.attempts + 1)
          THEN "VERIFY_FAILED_PERMANENT" ELSE "VERIFY_FAILED_RETRYABLE",
          now, delay)
=============================================================================

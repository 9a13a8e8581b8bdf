---------------------------- MODULE RecoveryJobs ----------------------------
(***************************************************************************)
(* Offline recovery jobs (recovery_service.py, worker.py, queueing.py,      *)
(* storage.py): a sync command creates one job per criteria hash and       *)
(* either runs it or publishes it to RabbitMQ; a worker takes one message, *)
(* runs the job and acknowledges it.  Running a job talks to the SAT       *)
(* client, writes evidence files and commits one database transaction.     *)
(*                                                                         *)
(* Database commits are atomic; writing a file is not, and neither is the  *)
(* pair "commit, then publish" nor "commit, then acknowledge".  A process  *)
(* can crash between any two steps, a handler can raise, and the broker    *)
(* hands a message out again when the connection that holds it goes away,  *)
(* while the handler that was running keeps running.                       *)
(***************************************************************************)
EXTENDS Integers, FiniteSets, Sequences

CONSTANTS
  Procs,        \* processes: sync commands and workers
  Queries,      \* download queries, by criteria hash
  XmlQueries,   \* the queries with request_type CFDI
  MaxFailures,  \* bound on handlers that raise
  MaxCrashes,   \* bound on process crashes
  MaxLosses     \* bound on broker connections lost under a running handler

ASSUME JobsAssumption ==
  /\ Procs # {} /\ Queries # {}
  /\ XmlQueries \subseteq Queries
  /\ MaxFailures \in Nat /\ MaxCrashes \in Nat /\ MaxLosses \in Nat

VARIABLES
  job,        \* [Queries -> status of the DownloadJob row, or "none"]
  requests,   \* queries with a SatRequestRecord row (id_solicitud is unique)
  packages,   \* queries with a SatPackageRecord row, status downloaded
  evidence,   \* queries whose XmlEvidence and CfdiDocument rows are loaded
  files,      \* [Queries -> [Kinds -> content of the evidence file]]
  queue,      \* sat.request, a sequence of queries
  exec,       \* [Procs -> Exec], what each process is doing
  published,  \* history: queries whose job was published
  faults      \* failures, crashes and losses so far

vars == <<job, requests, packages, evidence, files, queue, exec, published, faults>>
database == <<job, requests, packages, evidence>>

JobStatuses == {"none", "pending", "running", "succeeded"}

\* The files of a job: the metadata CSV, the package ZIP and the extracted XML,
\* each written by write_bytes_idempotent under a key made of its own hash.
Kinds == {"metadata", "package", "xml"}
Contents == {"absent", "torn", "whole"}

\* A process at work.  held: the process has an unacknowledged delivery; phase is
\* the progress of write_bytes_idempotent on the file of the current step.
Steps == {"idle", "create", "publish", "start", "sat", "metadata", "insert",
          "download", "package", "xml", "commit", "cache", "ack"}
Exec == [step : Steps, query : Queries, enqueue : BOOLEAN, held : BOOLEAN,
         phase : {"check", "write", "close"}]

Idle == [step |-> "idle", query |-> CHOOSE q \in Queries : TRUE, enqueue |-> FALSE,
         held |-> FALSE, phase |-> "check"]

Init ==
  /\ job = [q \in Queries |-> "none"]
  /\ requests = {} /\ packages = {} /\ evidence = {}
  /\ files = [q \in Queries |-> [k \in Kinds |-> "absent"]]
  /\ queue = <<>>
  /\ exec = [p \in Procs |-> Idle]
  /\ published = {}
  /\ faults = [failures |-> 0, crashes |-> 0, losses |-> 0]

At(p, step) == exec[p].step = step
GoTo(p, step) == exec' = [exec EXCEPT ![p].step = step]
Query(p) == exec[p].query

\* The process is done with the job: the command returns or the worker polls again.
Done(p) == exec' = [exec EXCEPT ![p] = Idle]

\* The next step of a job after its metadata rows, XML for CFDI queries only.
AfterPackage(q) == IF q \in XmlQueries THEN "xml" ELSE "commit"
-----------------------------------------------------------------------------
\* sync_metadata: a job of the same criteria hash is returned as it is.
SyncMetadata(p, q, enqueue) ==
  /\ At(p, "idle")
  /\ job[q] = "none"
  /\ exec' = [exec EXCEPT ![p] = [Idle EXCEPT !.step = "create", !.query = q,
                                              !.enqueue = enqueue]]
  /\ UNCHANGED <<database, files, queue, published, faults>>

\* The insert of the job row commits, or violates uq_download_jobs_tenant_hash
\* because another command was faster.
CreateJob(p) ==
  /\ At(p, "create")
  /\ IF job[Query(p)] = "none"
     THEN /\ job' = [job EXCEPT ![Query(p)] =
                       IF exec[p].enqueue THEN "pending" ELSE "running"]
          /\ GoTo(p, IF exec[p].enqueue THEN "publish" ELSE "start")
     ELSE /\ Done(p)
          /\ UNCHANGED job
  /\ UNCHANGED <<requests, packages, evidence, files, queue, published, faults>>

\* RabbitMqQueue.publish
Publish(p) ==
  /\ At(p, "publish")
  /\ queue' = Append(queue, Query(p))
  /\ published' = published \cup {Query(p)}
  /\ Done(p)
  /\ UNCHANGED <<database, files, faults>>

\* Mutant: the delivery is acknowledged before the handler runs (consume_one).
ConsumeAcked(p) ==
  /\ At(p, "idle")
  /\ queue # <<>>
  /\ exec' = [exec EXCEPT ![p] = [Idle EXCEPT !.step = "start", !.query = Head(queue)]]
  /\ queue' = Tail(queue)
  /\ UNCHANGED <<database, files, published, faults>>

\* basic_get of consume_one_with_handler, called by the worker.
Consume(p) ==
  /\ At(p, "idle")
  /\ queue # <<>>
  /\ exec' = [exec EXCEPT ![p] = [Idle EXCEPT !.step = "start", !.query = Head(queue),
                                              !.held = TRUE]]
  /\ queue' = Tail(queue)
  /\ UNCHANGED <<database, files, published, faults>>

-----------------------------------------------------------------------------
\* _process_sat_request_job

MarkRunning(p) ==
  /\ At(p, "start")
  /\ job' = [job EXCEPT ![Query(p)] = "running"]
  /\ GoTo(p, "sat")
  /\ UNCHANGED <<requests, packages, evidence, files, queue, published, faults>>

\* submit_request and verify_request: the fake client derives the id of the request,
\* its single package and the metadata from the criteria hash.
SatAnswers(p) ==
  /\ At(p, "sat")
  /\ GoTo(p, "metadata")
  /\ UNCHANGED <<database, files, queue, published, faults>>

\* Mutant: id_solicitud is not unique, no transaction waits for another.
InsertUnchecked(p) ==
  /\ At(p, "insert")
  /\ Query(p) \notin requests
  /\ GoTo(p, "download")
  /\ UNCHANGED <<database, files, queue, published, faults>>

\* Adding the request row; it is flushed by the first query that follows.  The
\* database makes it wait while another transaction holds the same id_solicitud.
InsertRequest(p) ==
  /\ At(p, "insert")
  /\ Query(p) \notin requests
  /\ \A o \in Procs \ {p} :
       ~(Query(o) = Query(p) /\ exec[o].step \in {"download", "package", "xml", "commit"})
  /\ GoTo(p, "download")
  /\ UNCHANGED <<database, files, queue, published, faults>>

\* A package with a row and a file is used as it is; any other is delivered by the
\* SAT client and then written.
DownloadPackage(p) ==
  /\ At(p, "download")
  /\ GoTo(p, IF Query(p) \in packages /\ files[Query(p)]["package"] # "absent"
             THEN AfterPackage(Query(p)) ELSE "package")
  /\ UNCHANGED <<database, files, queue, published, faults>>

\* The step that follows the file of the current one.
AfterFile(p) ==
  CASE At(p, "metadata") -> "insert"
    [] At(p, "package")  -> AfterPackage(Query(p))
    [] At(p, "xml")      -> "commit"

AtFile(p, phase) == exec[p].step \in Kinds /\ exec[p].phase = phase
Content(p) == files[Query(p)][exec[p].step]
SetContent(p, c) == files' = [files EXCEPT ![Query(p)][exec[p].step] = c]
NextFile(p) == exec' = [exec EXCEPT ![p].step = AfterFile(p), ![p].phase = "check"]

\* Mutant: the bytes of an existing file are not compared.
ReuseAnyFile(p) ==
  /\ AtFile(p, "check")
  /\ Content(p) # "absent"
  /\ NextFile(p)
  /\ UNCHANGED <<database, files, queue, published, faults>>

\* write_bytes_idempotent: an identical file is reused.
ReuseFile(p) ==
  /\ AtFile(p, "check")
  /\ Content(p) = "whole"
  /\ NextFile(p)
  /\ UNCHANGED <<database, files, queue, published, faults>>

\* There is no file under the key, so it will be written.
FileMissing(p) ==
  /\ AtFile(p, "check")
  /\ Content(p) = "absent"
  /\ exec' = [exec EXCEPT ![p].phase = "write"]
  /\ UNCHANGED <<database, files, queue, published, faults>>

\* Path.write_bytes opens the file, which truncates it, ...
OpenFile(p) ==
  /\ AtFile(p, "write")
  /\ SetContent(p, "torn")
  /\ exec' = [exec EXCEPT ![p].phase = "close"]
  /\ UNCHANGED <<database, queue, published, faults>>

\* ... and the bytes are all there when it is closed.
CloseFile(p) ==
  /\ AtFile(p, "close")
  /\ SetContent(p, "whole")
  /\ NextFile(p)
  /\ UNCHANGED <<database, queue, published, faults>>

\* Mutant: the final status is not part of the transaction.
CommitWithoutStatus(p) ==
  /\ At(p, "commit")
  /\ requests' = requests \cup {Query(p)}
  /\ packages' = packages \cup {Query(p)}
  /\ evidence' = IF Query(p) \in XmlQueries THEN evidence \cup {Query(p)} ELSE evidence
  /\ GoTo(p, "cache")
  /\ UNCHANGED <<job, files, queue, published, faults>>

\* The one transaction of the job commits: request, package, metadata and XML rows
\* and the final status.
Commit(p) ==
  /\ At(p, "commit")
  /\ job' = [job EXCEPT ![Query(p)] = "succeeded"]
  /\ requests' = requests \cup {Query(p)}
  /\ packages' = packages \cup {Query(p)}
  /\ evidence' = IF Query(p) \in XmlQueries THEN evidence \cup {Query(p)} ELSE evidence
  /\ GoTo(p, "cache")
  /\ UNCHANGED <<files, queue, published, faults>>

\* cache.set_json after the transaction, the last thing the handler does.
ReportProgress(p) ==
  /\ At(p, "cache")
  /\ GoTo(p, "ack")
  /\ UNCHANGED <<database, files, queue, published, faults>>

\* basic_ack; a command that was not started by a message just returns, and the
\* ack of a lost delivery fails without consequence.
Ack(p) ==
  /\ At(p, "ack")
  /\ Done(p)
  /\ UNCHANGED <<database, files, queue, published, faults>>

-----------------------------------------------------------------------------
\* Failures.

\* Mutant: basic_nack with requeue=False.
Drop(p) == UNCHANGED queue

\* A delivery that is not acknowledged goes back to where it was.
Requeue(p) == queue' = IF exec[p].held THEN <<Query(p)>> \o queue ELSE queue

\* The handler raises: the transaction is rolled back, the delivery is nacked with
\* requeue=True and the exception ends run_once.  Nothing resets the job row.
Raise(p) ==
  /\ Requeue(p)
  /\ Done(p)
  /\ UNCHANGED <<database, files, published>>

\* "storage collision": the file under the key has other bytes.
StorageCollision(p) ==
  /\ AtFile(p, "check")
  /\ Content(p) = "torn"
  /\ Raise(p)
  /\ UNCHANGED faults

\* The id_solicitud is already on file.
DuplicateRequest(p) ==
  /\ At(p, "insert")
  /\ Query(p) \in requests
  /\ Raise(p)
  /\ UNCHANGED faults

\* The SAT client, the extraction, the broker, the database or the cache fails, the cache
\* also after the commit, or the disk does, also in the middle of a write.
Failure(p) ==
  /\ exec[p].step \notin {"idle", "ack"}
  /\ faults.failures < MaxFailures
  /\ faults' = [faults EXCEPT !.failures = @ + 1]
  /\ Raise(p)

\* The process dies and the broker takes its delivery back.
Crash(p) ==
  /\ ~At(p, "idle")
  /\ faults.crashes < MaxCrashes
  /\ faults' = [faults EXCEPT !.crashes = @ + 1]
  /\ Requeue(p)
  /\ Done(p)
  /\ UNCHANGED <<database, files, published>>

\* The connection of a running handler goes away, e.g. because a blocking handler
\* answers no heartbeat; the delivery goes back, the handler runs on.
ConnectionLost(p) ==
  /\ exec[p].held
  /\ faults.losses < MaxLosses
  /\ faults' = [faults EXCEPT !.losses = @ + 1]
  /\ Requeue(p)
  /\ exec' = [exec EXCEPT ![p].held = FALSE]
  /\ UNCHANGED <<database, files, published>>

\* What a process does by itself once it has started.
Proceed(p) ==
  \/ CreateJob(p) \/ Publish(p) \/ MarkRunning(p) \/ SatAnswers(p) \/ InsertRequest(p)
  \/ DownloadPackage(p) \/ ReuseFile(p) \/ FileMissing(p) \/ OpenFile(p) \/ CloseFile(p)
  \/ Commit(p) \/ ReportProgress(p) \/ Ack(p) \/ StorageCollision(p) \/ DuplicateRequest(p)

Next ==
  \E p \in Procs :
    \/ \E q \in Queries, enqueue \in BOOLEAN : SyncMetadata(p, q, enqueue)
    \/ Consume(p) \/ Proceed(p)
    \/ Failure(p) \/ Crash(p) \/ ConnectionLost(p)

Spec == Init /\ [][Next]_vars

\* A worker keeps polling (worker run --loop) and a started process runs on.
Fairness == \A p \in Procs : WF_vars(Proceed(p)) /\ WF_vars(Consume(p))

FairSpec == Spec /\ Fairness
-----------------------------------------------------------------------------
\* Every row the database shows points at a complete file, and a succeeded job has
\* all of its rows: the one transaction of _process_sat_request_job comes after every
\* write, and a file torn by a crash or a full disk is never taken for evidence.  (Handlers of one
\* delivery handed out twice can truncate each other's files, so this holds until then.)
RowsHaveFiles ==
  faults.losses = 0 =>
  \A q \in Queries :
    /\ q \in requests => files[q]["metadata"] = "whole"
    /\ q \in packages => files[q]["package"] = "whole"
    /\ q \in evidence => files[q]["xml"] = "whole"
    /\ job[q] = "succeeded" => q \in requests /\ q \in packages /\ (q \in XmlQueries => q \in evidence)

Copies(q) == Cardinality({i \in 1..Len(queue) : queue[i] = q})
             + Cardinality({p \in Procs : exec[p].held /\ Query(p) = q})

\* There is never more than one message for a criteria hash, in the queue or being
\* handled, even when commands race or the broker redelivers.
OneMessagePerJob == \A q \in Queries : Copies(q) <= 1

\* At least once: the message of a published job whose result is not committed is in
\* the queue or unacknowledged, whatever raises, crashes or is redelivered.
PublishedNotForgotten ==
  \A q \in published : q \notin requests => Copies(q) = 1

\* A job is recorded once: of two transactions for one id_solicitud, which a delivery handed
\* out twice leads to, the second waits and fails, so no commit repeats another.
RecordedOnce ==
  [][\A p \in Procs : At(p, "commit") /\ exec'[p].step = "cache" => Query(p) \notin requests]_vars

\* An unfinished job is being worked on or has a message, unless it is one of the two kinds
\* an accident can strand: a job that was never published, whose command failed or died, and
\* a recorded one that a handler without a delivery set back to running.
Waiting(q) == \E i \in 1..Len(queue) : queue[i] = q
WorkedOn(q) == \E p \in Procs : Query(p) = q /\ exec[p].step \notin {"idle", "create"}
OnlyAccidentsStrand ==
  \A q \in Queries : job[q] \in {"pending", "running"} =>
    \/ Waiting(q) \/ WorkedOn(q)
    \/ q \notin published /\ faults.failures + faults.crashes > 0
    \/ q \in requests /\ faults.losses > 0

Broker == INSTANCE JobDelivery WITH
  Jobs <- Queries, Workers <- Procs,
  waiting <- [q \in Queries |-> Cardinality({i \in 1..Len(queue) : queue[i] = q})],
  holds <- [p \in Procs |-> IF exec[p].held THEN {Query(p)} ELSE {}],
  published <- published,
  recorded <- requests

\* Commands and workers implement the delivery of jobs: no step loses or doubles a message,
\* and none is acknowledged before its job is committed, through races, exceptions, crashes
\* and lost connections.
ImplementsDelivery == Broker!Delivery

\* The message of q waits although no handler of it can succeed any more: the job is recorded
\* already (the handler failed or died after its commit), or one of its files is torn and
\* nobody is writing it.
Poison(q) ==
  /\ Waiting(q)
  /\ \/ q \in requests
     \/ \E k \in Kinds :
          /\ files[q][k] = "torn"
          /\ \A p \in Procs : ~(Query(p) = q /\ exec[p].step = k /\ exec[p].phase = "close")

\* A published job eventually succeeds, through failures and crashes that end, as long as
\* workers poll.  Two things can prevent it: a message of the queue has become poison, and
\* consume_one_with_handler gives it back to the head of the queue for ever, where it can hold
\* up the others; or a handler that has lost its delivery set the recorded job back to running.
PublishedSucceeds ==
  \A q \in Queries :
    q \in published ~>
      \/ job[q] = "succeeded"
      \/ q \in requests /\ faults.losses > 0
      \/ \E o \in Queries : Poison(o)
=============================================================================

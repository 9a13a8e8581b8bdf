------------------------ MODULE RecoveryJobs_proofs ------------------------
(***************************************************************************)
(* Theorems about RecoveryJobs, for every number of processes, queries,    *)
(* failures, crashes and lost connections.                                 *)
(***************************************************************************)
EXTENDS RecoveryJobs, FiniteSetTheorems, TLAPS

USE JobsAssumption

-----------------------------------------------------------------------------
(* Queues as sets of queries without repetition. *)

Elems(s) == {s[i] : i \in 1..Len(s)}
Distinct(s) == \A i, j \in 1..Len(s) : s[i] = s[j] => i = j

\* RabbitMqQueue.publish puts a message at the end.
LEMMA AppendElems ==
  ASSUME NEW s \in Seq(Queries), NEW x \in Queries
  PROVE  /\ Append(s, x) \in Seq(Queries)
         /\ Elems(Append(s, x)) = Elems(s) \cup {x}
         /\ Distinct(s) /\ x \notin Elems(s) => Distinct(Append(s, x))
<1>1. /\ Append(s, x) \in Seq(Queries) /\ Len(Append(s, x)) = Len(s) + 1 /\ Len(s) \in Nat
      /\ \A i \in 1..(Len(s) + 1) : Append(s, x)[i] = IF i <= Len(s) THEN s[i] ELSE x
  OBVIOUS
<1> DEFINE t == Append(s, x)
<1> HIDE DEF t
<1>2. t[Len(s) + 1] = x /\ \A i \in 1..Len(s) : t[i] = s[i]
  BY <1>1 DEF t
<1> QED
  BY <1>1, <1>2 DEF Elems, Distinct, t

\* basic_get takes the first message.
LEMMA TailElems ==
  ASSUME NEW s \in Seq(Queries), s # <<>>
  PROVE  /\ Tail(s) \in Seq(Queries) /\ Head(s) \in Queries
         /\ Elems(Tail(s)) \subseteq Elems(s) /\ Head(s) \in Elems(s)
         /\ Elems(s) \subseteq Elems(Tail(s)) \cup {Head(s)}
         /\ Distinct(s) => Distinct(Tail(s)) /\ Head(s) \notin Elems(Tail(s))
<1>1. /\ Tail(s) \in Seq(Queries) /\ Head(s) = s[1] /\ Len(s) \in Nat \ {0}
      /\ Len(Tail(s)) = Len(s) - 1
      /\ \A i \in 1..(Len(s) - 1) : Tail(s)[i] = s[i + 1]
  OBVIOUS
<1> DEFINE t == Tail(s)
<1> HIDE DEF t
<1>2. ASSUME NEW j \in 1..Len(s), j # 1 PROVE j - 1 \in 1..(Len(s) - 1) /\ s[j] = t[j - 1]
  <2>1. j - 1 \in 1..(Len(s) - 1) /\ (j - 1) + 1 = j
    BY <1>1, <1>2
  <2> QED
    BY <1>1, <2>1 DEF t
<1> QED
  BY <1>1, <1>2 DEF Elems, Distinct, t

\* A message that is given back is the first again.
GivenBack(x, s) == <<x>> \o s

LEMMA ConsElems ==
  ASSUME NEW s \in Seq(Queries), NEW x \in Queries
  PROVE  /\ GivenBack(x, s) \in Seq(Queries)
         /\ Elems(GivenBack(x, s)) = Elems(s) \cup {x}
         /\ Distinct(s) /\ x \notin Elems(s) => Distinct(GivenBack(x, s))
<1> DEFINE t == GivenBack(x, s)
<1>1. t \in Seq(Queries) /\ Len(t) = Len(s) + 1 /\ Len(s) \in Nat
  BY DEF GivenBack
<1>2. t[1] = x /\ \A i \in 1..Len(s) : t[i + 1] = s[i]
  BY DEF GivenBack
<1> HIDE DEF t
<1>3. ASSUME NEW j \in 1..Len(t), j # 1 PROVE j - 1 \in 1..Len(s) /\ t[j] = s[j - 1]
  <2>1. j - 1 \in 1..Len(s) /\ (j - 1) + 1 = j
    BY <1>1, <1>3
  <2> QED
    BY <1>2, <2>1
<1>4. \A i \in 1..Len(s) : i + 1 \in 1..Len(t) /\ 1 \in 1..Len(t)
  BY <1>1
<1>5. Elems(t) \subseteq Elems(s) \cup {x}
  <2> SUFFICES ASSUME NEW j \in 1..Len(t) PROVE t[j] = x \/ t[j] \in Elems(s)
    BY DEF Elems
  <2> QED
    BY <1>2, <1>3 DEF Elems
<1>6. Elems(s) \cup {x} \subseteq Elems(t)
  <2>1. x \in Elems(t)
    BY <1>1, <1>2 DEF Elems
  <2>2. ASSUME NEW i \in 1..Len(s) PROVE s[i] \in Elems(t)
    BY <1>2, <1>4 DEF Elems
  <2> QED
    BY <2>1, <2>2 DEF Elems
<1>7. ASSUME Distinct(s), x \notin Elems(s) PROVE Distinct(t)
  <2> SUFFICES ASSUME NEW i \in 1..Len(t), NEW j \in 1..Len(t), t[i] = t[j] PROVE i = j
    BY DEF Distinct
  <2>1. CASE i = 1 /\ j # 1
    BY <1>2, <1>3, <1>7, <2>1 DEF Elems
  <2>2. CASE i # 1 /\ j = 1
    BY <1>2, <1>3, <1>7, <2>2 DEF Elems
  <2>3. CASE i # 1 /\ j # 1
    <3>1. i - 1 \in 1..Len(s) /\ j - 1 \in 1..Len(s) /\ s[i - 1] = s[j - 1]
      BY <1>3, <2>3
    <3>2. i - 1 = j - 1
      BY <1>7, <3>1 DEF Distinct
    <3> QED
      BY <3>2, <1>1
  <2> QED
    BY <2>1, <2>2, <2>3
<1> QED
  BY <1>1, <1>5, <1>6, <1>7 DEF t

-----------------------------------------------------------------------------
(* The inductive invariant. *)

JobTypes ==
  /\ job \in [Queries -> JobStatuses]
  /\ requests \subseteq Queries /\ packages \subseteq Queries /\ evidence \subseteq Queries
  /\ files \in [Queries -> [Kinds -> Contents]]
  /\ queue \in Seq(Queries)
  /\ exec \in [Procs -> Exec]
  /\ published \subseteq Queries
  /\ faults \in [failures : Nat, crashes : Nat, losses : Nat]

\* The steps of _process_sat_request_job and of the acknowledgement that follows.
Handling == Steps \ {"idle", "create", "publish"}

\* A process at work on a job.  Once a delivery may have been handed out twice, only
\* the process that still carries the message counts.
Carries(p) == exec[p].held \/ At(p, "publish")
Busy(p) == IF faults.losses = 0 THEN exec[p].step \in Handling \cup {"publish"} ELSE Carries(p)

\* A handler after its commit.
Recorded(p) == exec[p].step \in {"cache", "ack"}

\* What a single process is doing is consistent.
Regular(p) ==
  /\ exec[p].held => exec[p].step \in Handling
  /\ exec[p].step \notin Kinds => exec[p].phase = "check"
  /\ Recorded(p) => Query(p) \in requests

\* No two busy processes share a job, no busy process has a second message waiting, and
\* no message exists before its job row.
Exclusive ==
  /\ Distinct(queue)
  /\ \A p, r \in Procs : Busy(p) /\ Busy(r) /\ Query(p) = Query(r) => p = r
  /\ \A p \in Procs : Busy(p) => Query(p) \notin Elems(queue) /\ job[Query(p)] # "none"
  /\ \A q \in Elems(queue) : job[q] # "none"

\* A published job that is not recorded still has its message.
Remembered ==
  \A q \in published \ requests :
    q \in Elems(queue) \/ \E p \in Procs : exec[p].held /\ Query(p) = q

MessageInv == JobTypes /\ (\A p \in Procs : Regular(p)) /\ Exclusive /\ Remembered

-----------------------------------------------------------------------------
(* What a step does to messages, by the kind of step it is. *)

Others(p) == exec' \in [Procs -> Exec] /\ \A r \in Procs \ {p} : exec'[r] = exec[r]

\* sync_metadata has found no job and is going to create it.
Begins(p) ==
  /\ Others(p) /\ exec'[p].step = "create" /\ ~exec'[p].held /\ exec'[p].phase = "check"
  /\ UNCHANGED <<database, files, queue, published, faults>>

\* A handler goes from one of its steps to another.
Continues(p) ==
  /\ Others(p)
  /\ exec[p].step \in Handling /\ exec'[p].step \in Handling
  /\ exec'[p].query = Query(p) /\ exec'[p].held = exec[p].held
  /\ exec'[p].step \notin Kinds => exec'[p].phase = "check"
  /\ exec'[p].step \in {"cache", "ack"} => Query(p) \in requests'
  /\ job' \in [Queries -> JobStatuses]
  /\ \A q \in Queries : job[q] # "none" => job'[q] # "none"
  /\ requests \subseteq requests'
  /\ requests' \subseteq Queries /\ packages' \subseteq Queries /\ evidence' \subseteq Queries
  /\ files' \in [Queries -> [Kinds -> Contents]]
  /\ UNCHANGED <<queue, published, faults>>

\* The insert of a new job row.
Creates(p) ==
  /\ Others(p) /\ At(p, "create")
  /\ exec'[p].step \in {"publish", "start"} /\ exec'[p].query = Query(p)
  /\ exec'[p].held = exec[p].held /\ exec'[p].phase = exec[p].phase
  /\ job' \in [Queries -> JobStatuses] /\ job[Query(p)] = "none"
  /\ job'[Query(p)] \in {"pending", "running"}
  /\ \A q \in Queries \ {Query(p)} : job'[q] = job[q]
  /\ UNCHANGED <<requests, packages, evidence, files, queue, published, faults>>

\* A process is done with a job; a message it still holds goes back to the queue unless
\* the job is recorded.
Stops(p) ==
  /\ Others(p) /\ exec'[p] = Idle
  /\ exec[p].held /\ Query(p) \notin requests => queue' = GivenBack(Query(p), queue)
  /\ queue' = queue \/ (exec[p].held /\ queue' = GivenBack(Query(p), queue))
  /\ faults' \in [failures : Nat, crashes : Nat, losses : Nat] /\ faults'.losses = faults.losses
  /\ UNCHANGED <<database, files, published>>

\* The names of the steps, told apart.
LEMMA IdleExec == Idle \in Exec /\ Idle.step = "idle" /\ ~Idle.held /\ Idle.phase = "check"
BY DEF Idle, Exec, Steps

LEMMA SyncBegins ==
  ASSUME JobTypes, NEW p \in Procs, NEW q \in Queries, NEW enqueue \in BOOLEAN,
         SyncMetadata(p, q, enqueue)
  PROVE  Begins(p)
<1> DEFINE e == [Idle EXCEPT !.step = "create", !.query = q, !.enqueue = enqueue]
<1>1. e \in Exec /\ e.step = "create" /\ ~e.held /\ e.phase = "check"
  BY DEF Idle, Exec, Steps
<1>2. exec' = [exec EXCEPT ![p] = e] /\ UNCHANGED <<database, files, queue, published, faults>>
  BY DEF SyncMetadata
<1> HIDE DEF e
<1> QED
  BY <1>1, <1>2 DEF JobTypes, Begins, Others

\* Changing the step of a process leaves the rest of what it does alone.
LEMMA GoToFields ==
  ASSUME JobTypes, NEW p \in Procs, NEW s \in Steps, GoTo(p, s)
  PROVE  /\ Others(p) /\ exec'[p].step = s /\ exec'[p].query = Query(p)
         /\ exec'[p].held = exec[p].held /\ exec'[p].phase = exec[p].phase
<1> DEFINE e == [exec[p] EXCEPT !.step = s]
<1>1. e \in Exec /\ e.step = s /\ e.query = exec[p].query /\ e.held = exec[p].held
      /\ e.phase = exec[p].phase
  BY DEF JobTypes, Exec
<1>2. exec' = [exec EXCEPT ![p] = e]
  BY DEF GoTo
<1> HIDE DEF e
<1> QED
  BY <1>1, <1>2 DEF JobTypes, Others, Query

\* The same for the steps of write_bytes_idempotent, which also change the phase.
LEMMA NextFileFields ==
  ASSUME JobTypes, NEW p \in Procs, exec[p].step \in Kinds, NextFile(p)
  PROVE  /\ Others(p) /\ exec'[p].step = AfterFile(p) /\ exec'[p].query = Query(p)
         /\ exec'[p].held = exec[p].held /\ exec'[p].phase = "check"
         /\ AfterFile(p) \in {"insert", "xml", "commit"}
<1>1. AfterFile(p) \in {"insert", "xml", "commit"}
  BY DEF AfterFile, AfterPackage, At, Kinds
<1> DEFINE e == [exec[p] EXCEPT !.step = AfterFile(p), !.phase = "check"]
<1>2. e \in Exec /\ e.step = AfterFile(p) /\ e.query = exec[p].query /\ e.held = exec[p].held
      /\ e.phase = "check"
  BY <1>1 DEF JobTypes, Exec, Steps
<1>3. exec' = [exec EXCEPT ![p] = e]
  BY DEF NextFile
<1> HIDE DEF e
<1> QED
  BY <1>1, <1>2, <1>3 DEF JobTypes, Others, Query

LEMMA PhaseFields ==
  ASSUME JobTypes, NEW p \in Procs, NEW ph \in {"check", "write", "close"},
         exec' = [exec EXCEPT ![p].phase = ph]
  PROVE  /\ Others(p) /\ exec'[p].step = exec[p].step /\ exec'[p].query = Query(p)
         /\ exec'[p].held = exec[p].held /\ exec'[p].phase = ph
<1> DEFINE e == [exec[p] EXCEPT !.phase = ph]
<1>1. e \in Exec /\ e.step = exec[p].step /\ e.query = exec[p].query /\ e.held = exec[p].held
      /\ e.phase = ph
  BY DEF JobTypes, Exec
<1>2. exec' = [exec EXCEPT ![p] = e]
  OBVIOUS
<1> HIDE DEF e
<1> QED
  BY <1>1, <1>2 DEF JobTypes, Others, Query

LEMMA ContentKind ==
  ASSUME JobTypes, NEW p \in Procs, NEW c \in Contents, exec[p].step \in Kinds, SetContent(p, c)
  PROVE  /\ files' \in [Queries -> [Kinds -> Contents]]
         /\ files'[Query(p)][exec[p].step] = c
         /\ \A q \in Queries, k \in Kinds :
              q # Query(p) \/ k # exec[p].step => files'[q][k] = files[q][k]
<1>1. Query(p) \in Queries
  BY DEF JobTypes, Exec, Query
<1> QED
  BY <1>1 DEF JobTypes, SetContent

\* Every step of _process_sat_request_job that does not end it.
LEMMA HandlerContinues ==
  ASSUME MessageInv, NEW p \in Procs,
         \/ MarkRunning(p) \/ SatAnswers(p) \/ InsertRequest(p) \/ DownloadPackage(p)
         \/ ReuseFile(p) \/ FileMissing(p) \/ OpenFile(p) \/ CloseFile(p) \/ Commit(p)
         \/ ReportProgress(p)
  PROVE  Continues(p)
<1>0. /\ JobTypes /\ Query(p) \in Queries
      /\ exec[p].step \notin Kinds => exec[p].phase = "check"
  BY DEF MessageInv, Regular, JobTypes, Exec, Query
<1>1. CASE MarkRunning(p)
  <2>1. GoTo(p, "sat") /\ "sat" \in Steps
    BY <1>1 DEF MarkRunning, Steps
  <2>2. job' \in [Queries -> JobStatuses] /\ job' = [job EXCEPT ![Query(p)] = "running"]
    BY <1>0, <1>1 DEF MarkRunning, JobTypes, JobStatuses
  <2> QED
    BY <1>0, <1>1, <2>1, <2>2, GoToFields
       DEF MarkRunning, Continues, JobTypes, Handling, Steps, Kinds, At
<1>2. CASE SatAnswers(p)
  <2>1. GoTo(p, "metadata") /\ "metadata" \in Steps
    BY <1>2 DEF SatAnswers, Steps
  <2> QED
    BY <1>0, <1>2, <2>1, GoToFields
       DEF SatAnswers, Continues, JobTypes, Handling, Steps, Kinds, At, database
<1>3. CASE InsertRequest(p)
  <2>1. GoTo(p, "download") /\ "download" \in Steps
    BY <1>3 DEF InsertRequest, Steps
  <2> QED
    BY <1>0, <1>3, <2>1, GoToFields
       DEF InsertRequest, Continues, JobTypes, Handling, Steps, Kinds, At, database
<1>4. CASE DownloadPackage(p)
  <2>1. PICK s \in {"package", "xml", "commit"} : GoTo(p, s)
    BY <1>4 DEF DownloadPackage, AfterPackage
  <2>2. s \in Steps
    BY DEF Steps
  <2> QED
    BY <1>0, <1>4, <2>1, <2>2, GoToFields
       DEF DownloadPackage, Continues, JobTypes, Handling, Steps, Kinds, At, database
<1>5. CASE ReuseFile(p)
  BY <1>0, <1>5, NextFileFields
     DEF ReuseFile, AtFile, Continues, JobTypes, Handling, Steps, Kinds, database
<1>6. CASE FileMissing(p)
  <2>1. exec' = [exec EXCEPT ![p].phase = "write"]
    BY <1>6 DEF FileMissing
  <2> QED
    BY <1>0, <1>6, <2>1, PhaseFields
       DEF FileMissing, AtFile, Continues, JobTypes, Handling, Steps, Kinds, database
<1>7. CASE OpenFile(p)
  <2>1. exec' = [exec EXCEPT ![p].phase = "close"] /\ SetContent(p, "torn") /\ "torn" \in Contents
    BY <1>7 DEF OpenFile, Contents
  <2> QED
    BY <1>0, <1>7, <2>1, PhaseFields, ContentKind
       DEF OpenFile, AtFile, Continues, JobTypes, Handling, Steps, Kinds, database
<1>8. CASE CloseFile(p)
  <2>1. NextFile(p) /\ SetContent(p, "whole") /\ "whole" \in Contents
    BY <1>8 DEF CloseFile, Contents
  <2> QED
    BY <1>0, <1>8, <2>1, NextFileFields, ContentKind
       DEF CloseFile, AtFile, Continues, JobTypes, Handling, Steps, Kinds, database
<1>9. CASE Commit(p)
  <2>1. GoTo(p, "cache") /\ "cache" \in Steps
    BY <1>9 DEF Commit, Steps
  <2>2. job' \in [Queries -> JobStatuses] /\ job' = [job EXCEPT ![Query(p)] = "succeeded"]
    BY <1>0, <1>9 DEF Commit, JobTypes, JobStatuses
  <2> QED
    BY <1>0, <1>9, <2>1, <2>2, GoToFields
       DEF Commit, Continues, JobTypes, Handling, Steps, Kinds, At
<1>10. CASE ReportProgress(p)
  <2>1. GoTo(p, "ack") /\ "ack" \in Steps
    BY <1>10 DEF ReportProgress, Steps
  <2>2. Query(p) \in requests
    BY <1>10 DEF MessageInv, Regular, Recorded, ReportProgress, At
  <2> QED
    BY <1>0, <1>10, <2>1, <2>2, GoToFields
       DEF ReportProgress, Continues, JobTypes, Handling, Steps, Kinds, At, database
<1> QED
  BY <1>1, <1>2, <1>3, <1>4, <1>5, <1>6, <1>7, <1>8, <1>9, <1>10

\* A process that is done is as it was at first.
LEMMA DoneFields ==
  ASSUME JobTypes, NEW p \in Procs, Done(p)
  PROVE  Others(p) /\ exec'[p] = Idle
BY IdleExec DEF JobTypes, Done, Others

\* CreateJob: the row is new, or another command was faster.
LEMMA CreateCreates ==
  ASSUME MessageInv, NEW p \in Procs, CreateJob(p)
  PROVE  Creates(p) \/ Stops(p)
<1>0. /\ JobTypes /\ Query(p) \in Queries /\ ~exec[p].held
  BY DEF MessageInv, Regular, JobTypes, Exec, Query, CreateJob, At, Handling
<1>1. CASE job[Query(p)] = "none"
  <2>1. PICK s \in {"publish", "start"} : GoTo(p, s)
    BY <1>1 DEF CreateJob
  <2>2. s \in Steps
    BY DEF Steps
  <2>3. PICK c \in {"pending", "running"} : job' = [job EXCEPT ![Query(p)] = c]
    BY <1>1 DEF CreateJob
  <2> QED
    BY <1>0, <1>1, <2>1, <2>2, <2>3, GoToFields
       DEF CreateJob, Creates, JobTypes, JobStatuses
<1>2. CASE job[Query(p)] # "none"
  BY <1>0, <1>2, DoneFields DEF CreateJob, Stops, JobTypes, database
<1> QED
  BY <1>1, <1>2

\* The ends of a job: acknowledged, failed or crashed.
LEMMA EndStops ==
  ASSUME MessageInv, NEW p \in Procs,
         Ack(p) \/ StorageCollision(p) \/ DuplicateRequest(p) \/ Failure(p) \/ Crash(p)
  PROVE  Stops(p)
<1>0. JobTypes /\ Regular(p)
  BY DEF MessageInv
<1>1. CASE Ack(p)
  BY <1>0, <1>1, DoneFields DEF Ack, At, Stops, JobTypes, Regular, Recorded, database
<1>2. CASE StorageCollision(p) \/ DuplicateRequest(p)
  BY <1>0, <1>2, DoneFields
     DEF StorageCollision, DuplicateRequest, Raise, Requeue, GivenBack, Stops, JobTypes, database
<1>3. CASE Failure(p) \/ Crash(p)
  <2>1. /\ faults' = [faults EXCEPT !.failures = @ + 1] \/ faults' = [faults EXCEPT !.crashes = @ + 1]
        /\ Requeue(p) /\ Done(p) /\ UNCHANGED <<database, files, published>>
    BY <1>3 DEF Failure, Crash, Raise
  <2>2. faults' \in [failures : Nat, crashes : Nat, losses : Nat] /\ faults'.losses = faults.losses
    BY <1>0, <2>1 DEF JobTypes
  <2> QED
    BY <1>0, <2>1, <2>2, DoneFields DEF Requeue, GivenBack, Stops
<1> QED
  BY <1>1, <1>2, <1>3

-----------------------------------------------------------------------------
(* Every kind of step keeps the message invariant. *)

LEMMA QueryTypes == ASSUME JobTypes, NEW p \in Procs PROVE exec[p] \in Exec /\ Query(p) \in Queries
BY DEF JobTypes, Exec, Query

LEMMA BeginsKeeps == ASSUME MessageInv, NEW p \in Procs, Begins(p), At(p, "idle") PROVE MessageInv'
<1>0. JobTypes /\ (\A r \in Procs : Regular(r)) /\ Exclusive /\ Remembered
  BY DEF MessageInv
<1>1. JobTypes'
  BY <1>0 DEF Begins, Others, JobTypes, database
<1>2. \A r \in Procs : Regular(r)'
  BY <1>0 DEF Begins, Others, Regular, Recorded, Query, Kinds, database
<1>3. \A r \in Procs : Busy(r)' => r # p /\ Busy(r) /\ Query(r)' = Query(r)
  BY <1>0 DEF Begins, Others, Busy, Carries, At, Query, Handling
<1>4. Exclusive'
  BY <1>0, <1>3 DEF Exclusive, Begins, database
<1>5. Remembered'
  BY <1>0 DEF Remembered, Begins, Others, database, Regular, At, Handling, Query
<1> QED
  BY <1>1, <1>2, <1>4, <1>5 DEF MessageInv

LEMMA ContinuesKeeps == ASSUME MessageInv, NEW p \in Procs, Continues(p) PROVE MessageInv'
<1>0. JobTypes /\ (\A r \in Procs : Regular(r)) /\ Exclusive /\ Remembered
  BY DEF MessageInv
<1>1. JobTypes'
  BY <1>0 DEF Continues, Others, JobTypes
<1>2. \A r \in Procs : Regular(r)'
  BY <1>0 DEF Continues, Others, Regular, Recorded, Query
<1>3. \A r \in Procs : (Busy(r)' <=> Busy(r)) /\ Query(r)' = Query(r) /\ exec'[r].held = exec[r].held
  BY <1>0 DEF Continues, Others, Busy, Carries, At, Query, Handling
<1>4. \A r \in Procs : Query(r) \in Queries
  BY <1>0, QueryTypes
<1>5. \A q \in Elems(queue) : q \in Queries
  BY <1>0 DEF JobTypes, Elems
<1>6. Exclusive'
  BY <1>0, <1>3, <1>4, <1>5 DEF Exclusive, Continues
<1>7. Remembered'
  BY <1>0, <1>3 DEF Remembered, Continues
<1> QED
  BY <1>1, <1>2, <1>6, <1>7 DEF MessageInv

LEMMA CreatesKeeps == ASSUME MessageInv, NEW p \in Procs, Creates(p) PROVE MessageInv'
<1>0. JobTypes /\ (\A r \in Procs : Regular(r)) /\ Exclusive /\ Remembered
  BY DEF MessageInv
<1>1. JobTypes'
  BY <1>0 DEF Creates, Others, JobTypes
<1>2. \A r \in Procs : Regular(r)'
  BY <1>0 DEF Creates, Others, Regular, Recorded, At, Query, Handling, Steps, Kinds
<1>3. \A r \in Procs : Query(r)' = Query(r) /\ exec'[r].held = exec[r].held
  BY <1>0 DEF Creates, Others, Query
<1>4. \A r \in Procs \ {p} : Busy(r)' <=> Busy(r)
  BY <1>0 DEF Creates, Others, Busy, Carries, At
<1>5. \A r \in Procs \ {p} : Busy(r) => Query(r) # Query(p)
  BY <1>0 DEF Exclusive, Creates
<1>6. Query(p) \notin Elems(queue)
  BY <1>0 DEF Exclusive, Creates
<1>7. \A q \in Elems(queue) : q \in Queries
  BY <1>0 DEF JobTypes, Elems
<1>8. \A r \in Procs : Query(r) \in Queries
  BY <1>0, QueryTypes
<1>9. Exclusive'
  BY <1>0, <1>3, <1>4, <1>5, <1>6, <1>7, <1>8 DEF Exclusive, Creates
<1>10. Remembered'
  BY <1>0, <1>3 DEF Remembered, Creates
<1> QED
  BY <1>1, <1>2, <1>9, <1>10 DEF MessageInv

\* RabbitMqQueue.publish
LEMMA PublishKeeps == ASSUME MessageInv, NEW p \in Procs, Publish(p) PROVE MessageInv'
<1>0. JobTypes /\ (\A r \in Procs : Regular(r)) /\ Exclusive /\ Remembered
  BY DEF MessageInv
<1>1. /\ queue \in Seq(Queries) /\ Query(p) \in Queries /\ Others(p) /\ exec'[p] = Idle
      /\ queue' = Append(queue, Query(p)) /\ published' = published \cup {Query(p)}
      /\ UNCHANGED <<job, requests, packages, evidence, files, faults>>
  BY <1>0, QueryTypes, DoneFields DEF Publish, JobTypes, database
<1>2. Busy(p) /\ ~exec[p].held
  BY <1>0 DEF Publish, Busy, Carries, At, Regular, Handling
<1>3. queue' \in Seq(Queries) /\ Elems(queue') = Elems(queue) \cup {Query(p)} /\ Distinct(queue')
  BY <1>0, <1>1, <1>2, AppendElems DEF Exclusive
<1>4. JobTypes'
  BY <1>0, <1>1, <1>3 DEF Others, JobTypes
<1>5. \A r \in Procs : Regular(r)'
  BY <1>0, <1>1, IdleExec DEF Others, Regular, Recorded, Query
<1>6. \A r \in Procs : Busy(r)' => r # p /\ Busy(r) /\ Query(r)' = Query(r)
  BY <1>1, IdleExec DEF Others, Busy, Carries, At, Query, Handling
<1>7. Exclusive'
  BY <1>0, <1>1, <1>2, <1>3, <1>6 DEF Exclusive
<1>8. Remembered'
  BY <1>0, <1>1, <1>2, <1>3 DEF Remembered, Others, Query
<1> QED
  BY <1>4, <1>5, <1>7, <1>8 DEF MessageInv

\* basic_get of consume_one_with_handler.
LEMMA ConsumeKeeps == ASSUME MessageInv, NEW p \in Procs, Consume(p) PROVE MessageInv'
<1>0. JobTypes /\ (\A r \in Procs : Regular(r)) /\ Exclusive /\ Remembered
  BY DEF MessageInv
<1> DEFINE e == [Idle EXCEPT !.step = "start", !.query = Head(queue), !.held = TRUE]
<1>1. queue \in Seq(Queries) /\ queue # <<>> /\ queue' = Tail(queue)
      /\ exec' = [exec EXCEPT ![p] = e]
      /\ UNCHANGED <<job, requests, packages, evidence, files, published, faults>>
  BY <1>0 DEF Consume, JobTypes, database
<1>2. /\ queue' \in Seq(Queries) /\ Head(queue) \in Queries
      /\ Elems(queue') \subseteq Elems(queue) /\ Head(queue) \in Elems(queue)
      /\ Elems(queue) \subseteq Elems(queue') \cup {Head(queue)}
      /\ Distinct(queue') /\ Head(queue) \notin Elems(queue')
  BY <1>0, <1>1, TailElems DEF Exclusive
<1>3. e \in Exec /\ e.step = "start" /\ e.query = Head(queue) /\ e.held /\ e.phase = "check"
  BY <1>2 DEF Idle, Exec, Steps
<1> HIDE DEF e
<1>4. exec' \in [Procs -> Exec] /\ exec'[p] = e /\ \A r \in Procs \ {p} : exec'[r] = exec[r]
  BY <1>0, <1>1, <1>3 DEF JobTypes
<1>5. JobTypes'
  BY <1>0, <1>1, <1>2, <1>4 DEF JobTypes
<1>6. \A r \in Procs : Regular(r)'
  BY <1>0, <1>1, <1>3, <1>4 DEF Regular, Recorded, Query, Handling, Steps, Kinds
<1>7. \A r \in Procs \ {p} : (Busy(r)' <=> Busy(r)) /\ Query(r)' = Query(r)
  BY <1>1, <1>4 DEF Busy, Carries, At, Query
<1>8. Query(p)' = Head(queue)
  BY <1>3, <1>4 DEF Query
<1>9. Exclusive'
  BY <1>0, <1>1, <1>2, <1>7, <1>8 DEF Exclusive
<1>10. ~exec[p].held
  BY <1>0 DEF Consume, At, Regular, Handling
<1>11. Remembered'
  BY <1>0, <1>1, <1>2, <1>3, <1>4, <1>8, <1>10 DEF Remembered, Query
<1> QED
  BY <1>5, <1>6, <1>9, <1>11 DEF MessageInv

LEMMA StopsKeeps == ASSUME MessageInv, NEW p \in Procs, Stops(p) PROVE MessageInv'
<1>0. JobTypes /\ (\A r \in Procs : Regular(r)) /\ Exclusive /\ Remembered
  BY DEF MessageInv
<1>1. queue \in Seq(Queries) /\ Query(p) \in Queries
  BY <1>0, QueryTypes DEF JobTypes
<1>2. exec[p].held => Busy(p)
  BY <1>0 DEF Regular, Busy, Carries
<1>3. /\ queue' \in Seq(Queries) /\ Distinct(queue') /\ Elems(queue) \subseteq Elems(queue')
      /\ Elems(queue') \subseteq Elems(queue) \cup {Query(p)}
      /\ Query(p) \in Elems(queue') => Query(p) \in Elems(queue) \/ exec[p].held
      /\ exec[p].held /\ Query(p) \notin requests => Query(p) \in Elems(queue')
  <2>1. CASE queue' = queue /\ ~(exec[p].held /\ Query(p) \notin requests)
    BY <1>0, <1>1, <2>1 DEF Exclusive
  <2>2. CASE exec[p].held /\ queue' = GivenBack(Query(p), queue)
    <3>1. Query(p) \notin Elems(queue) /\ Distinct(queue)
      BY <1>0, <1>2, <2>2 DEF Exclusive
    <3> QED
      BY <1>1, <2>2, <3>1, ConsElems
  <2> QED
    BY <2>1, <2>2 DEF Stops
<1>4. JobTypes'
  BY <1>0, <1>3 DEF Stops, Others, JobTypes, database
<1>5. \A r \in Procs : Regular(r)'
  BY <1>0, IdleExec DEF Stops, Others, Regular, Recorded, Query, database
<1>6. \A r \in Procs : Busy(r)' => r # p /\ Busy(r) /\ Query(r)' = Query(r)
  BY IdleExec DEF Stops, Others, Busy, Carries, At, Query, Handling
<1>7. Exclusive'
  BY <1>0, <1>2, <1>3, <1>6 DEF Exclusive, Stops, database
<1>8. Remembered'
  BY <1>0, <1>3 DEF Remembered, Stops, Others, Query, database
<1> QED
  BY <1>4, <1>5, <1>7, <1>8 DEF MessageInv

\* The delivery of a running handler goes back to the queue.
LEMMA LostKeeps == ASSUME MessageInv, NEW p \in Procs, ConnectionLost(p) PROVE MessageInv'
<1>0. JobTypes /\ (\A r \in Procs : Regular(r)) /\ Exclusive /\ Remembered
  BY DEF MessageInv
<1>1. queue \in Seq(Queries) /\ Query(p) \in Queries /\ exec[p] \in Exec
  BY <1>0, QueryTypes DEF JobTypes
<1>2. exec[p].held /\ Busy(p) /\ exec[p].step \in Handling
  BY <1>0 DEF Regular, Busy, Carries, ConnectionLost
<1> DEFINE e == [exec[p] EXCEPT !.held = FALSE]
<1>3. /\ e \in Exec /\ e.step = exec[p].step /\ e.query = exec[p].query /\ ~e.held
      /\ e.phase = exec[p].phase
  BY <1>1 DEF Exec
<1>4. exec' = [exec EXCEPT ![p] = e] /\ queue' = GivenBack(Query(p), queue)
      /\ UNCHANGED <<job, requests, packages, evidence, files, published>>
      /\ faults' = [faults EXCEPT !.losses = @ + 1]
  BY <1>2 DEF ConnectionLost, Requeue, GivenBack, database
<1> HIDE DEF e
<1>5. exec' \in [Procs -> Exec] /\ exec'[p] = e /\ \A r \in Procs \ {p} : exec'[r] = exec[r]
  BY <1>0, <1>3, <1>4 DEF JobTypes
<1>6. queue' \in Seq(Queries) /\ Elems(queue') = Elems(queue) \cup {Query(p)} /\ Distinct(queue')
  BY <1>0, <1>1, <1>2, <1>4, ConsElems DEF Exclusive
<1>7. faults' \in [failures : Nat, crashes : Nat, losses : Nat] /\ faults'.losses # 0
  BY <1>0, <1>4 DEF JobTypes
<1>8. JobTypes'
  BY <1>0, <1>4, <1>5, <1>6, <1>7 DEF JobTypes
<1>9. \A r \in Procs : Regular(r)'
  BY <1>0, <1>3, <1>4, <1>5 DEF Regular, Recorded, Query
<1>10. \A r \in Procs : Busy(r)' => r # p /\ Busy(r) /\ Query(r)' = Query(r)
  <2> SUFFICES ASSUME NEW r \in Procs, Busy(r)' PROVE r # p /\ Busy(r) /\ Query(r)' = Query(r)
    OBVIOUS
  <2>1. exec'[r].held \/ exec'[r].step = "publish"
    BY <1>7 DEF Busy, Carries, At
  <2>2. r # p
    BY <1>2, <1>3, <1>5, <2>1 DEF Handling
  <2>3. exec'[r] = exec[r] /\ Carries(r)
    BY <1>5, <2>1, <2>2 DEF Carries, At
  <2>4. exec[r].held => exec[r].step \in Handling
    BY <1>0 DEF Regular
  <2> QED
    BY <2>2, <2>3, <2>4 DEF Busy, Carries, At, Query
<1>11. Exclusive'
  BY <1>0, <1>2, <1>4, <1>6, <1>10 DEF Exclusive
<1>12. Remembered'
  BY <1>0, <1>4, <1>5, <1>6 DEF Remembered, Query
<1> QED
  BY <1>8, <1>9, <1>11, <1>12 DEF MessageInv

LEMMA MessageInvInit == Init => MessageInv
<1> SUFFICES ASSUME Init PROVE MessageInv
  OBVIOUS
<1>1. JobTypes
  BY IdleExec DEF Init, JobTypes, JobStatuses, Kinds, Contents
<1>2. \A p \in Procs : Regular(p) /\ ~Busy(p)
  BY IdleExec DEF Init, Regular, Recorded, Busy, Carries, At, Handling
<1>3. Elems(queue) = {} /\ Distinct(queue)
  BY DEF Init, Elems, Distinct
<1>4. Exclusive /\ Remembered
  BY <1>2, <1>3 DEF Init, Exclusive, Remembered
<1> QED
  BY <1>1, <1>2, <1>4 DEF MessageInv

LEMMA MessageInvStep == MessageInv /\ [Next]_vars => MessageInv'
<1> SUFFICES ASSUME MessageInv, [Next]_vars PROVE MessageInv'
  OBVIOUS
<1>1. ASSUME NEW p \in Procs, NEW q \in Queries, NEW enqueue \in BOOLEAN, SyncMetadata(p, q, enqueue)
      PROVE  MessageInv'
  <2>1. JobTypes /\ At(p, "idle")
    BY <1>1 DEF MessageInv, SyncMetadata
  <2> QED
    BY <1>1, <2>1, SyncBegins, BeginsKeeps
<1>2. ASSUME NEW p \in Procs, Consume(p) PROVE MessageInv'
  BY <1>2, ConsumeKeeps
<1>3. ASSUME NEW p \in Procs, Proceed(p) PROVE MessageInv'
  BY <1>3, CreateCreates, CreatesKeeps, StopsKeeps, PublishKeeps, HandlerContinues,
     ContinuesKeeps, EndStops DEF Proceed
<1>4. ASSUME NEW p \in Procs, Failure(p) \/ Crash(p) PROVE MessageInv'
  BY <1>4, EndStops, StopsKeeps
<1>5. ASSUME NEW p \in Procs, ConnectionLost(p) PROVE MessageInv'
  BY <1>5, LostKeeps
<1>6. CASE UNCHANGED vars
  BY <1>6 DEF vars, MessageInv, JobTypes, Regular, Recorded, Exclusive, Remembered, Busy, Carries, At, Query
<1> QED
  BY <1>1, <1>2, <1>3, <1>4, <1>5, <1>6 DEF Next

-----------------------------------------------------------------------------
(* Counting messages. *)

LEMMA AtMostOne ==
  ASSUME NEW S, \A x, y \in S : x = y
  PROVE  Cardinality(S) = IF S = {} THEN 0 ELSE 1
<1>1. CASE S = {}
  BY <1>1, FS_EmptySet
<1>2. CASE S # {}
  <2>1. PICK x \in S : TRUE
    BY <1>2
  <2>2. S = {x}
    BY <2>1
  <2> QED
    BY <1>2, <2>2, FS_Singleton
<1> QED
  BY <1>1, <1>2

\* The messages of a query: at most one, and one if it is queued or being handled.
LEMMA CopiesOf ==
  ASSUME MessageInv, NEW q
  PROVE  Copies(q) = IF q \in Elems(queue) \/ \E p \in Procs : exec[p].held /\ Query(p) = q
                     THEN 1 ELSE 0
<1> DEFINE A == {i \in 1..Len(queue) : queue[i] = q}
           B == {p \in Procs : exec[p].held /\ Query(p) = q}
<1>1. \A i, j \in A : i = j
  BY DEF MessageInv, Exclusive, Distinct
<1>2. \A p \in B : Busy(p) /\ Query(p) = q
  BY DEF MessageInv, Regular, Busy, Carries
<1>3. \A p, r \in B : p = r
  BY <1>2 DEF MessageInv, Exclusive
<1>4. A # {} <=> q \in Elems(queue)
  BY DEF Elems
<1>5. A = {} \/ B = {}
  BY <1>2, <1>4 DEF MessageInv, Exclusive
<1>6. B # {} <=> \E p \in Procs : exec[p].held /\ Query(p) = q
  OBVIOUS
<1>7. Copies(q) = Cardinality(A) + Cardinality(B)
  BY DEF Copies
<1> HIDE DEF A, B
<1>8. Cardinality(A) = IF A = {} THEN 0 ELSE 1
  BY <1>1, AtMostOne
<1>9. Cardinality(B) = IF B = {} THEN 0 ELSE 1
  BY <1>3, AtMostOne
<1> QED
  BY <1>4, <1>5, <1>6, <1>7, <1>8, <1>9

-----------------------------------------------------------------------------
(* Evidence files, as long as no delivery was handed out twice. *)

\* What the handler at work on a query has written so far.
Written(p) ==
  LET e == exec[p]  f == files[e.query] IN
  /\ e.step \in Kinds /\ e.phase = "write" => f[e.step] = "absent"
  /\ e.step \in {"insert", "download", "package", "xml", "commit", "cache", "ack"}
       => f["metadata"] = "whole"
  /\ e.step \in {"xml", "commit", "cache", "ack"} => f["package"] = "whole"
  /\ e.step \in {"commit", "cache", "ack"} /\ e.query \in XmlQueries => f["xml"] = "whole"

RowsInv(q) ==
  /\ q \in requests => files[q]["metadata"] = "whole"
  /\ q \in packages => files[q]["package"] = "whole"
  /\ q \in evidence => files[q]["xml"] = "whole"
  /\ job[q] = "succeeded" => q \in requests /\ q \in packages /\ (q \in XmlQueries => q \in evidence)

FileInv == faults.losses = 0 => (\A p \in Procs : Written(p)) /\ (\A q \in Queries : RowsInv(q))

\* A file that is complete stays so: the only step that truncates one has seen that it
\* was absent, and no other handler is at work on the same query.
FilesKept(p) ==
  \A q \in Queries, k \in Kinds :
    /\ q # Query(p) => files'[q][k] = files[q][k]
    /\ files[q][k] = "whole" => files'[q][k] = "whole"

\* One handler moves on, the others have another query.
LEMMA HandlerMoves ==
  ASSUME MessageInv, FileInv, faults.losses = 0, NEW p \in Procs, Continues(p), FilesKept(p),
         Written(p)', \A q \in Queries : RowsInv(q)'
  PROVE  FileInv'
<1>1. JobTypes /\ Exclusive /\ faults' = faults
  BY DEF MessageInv, Continues
<1>2. ASSUME NEW r \in Procs \ {p} PROVE Written(r)'
  <2>1. Written(r) /\ exec'[r] = exec[r] /\ Query(r) \in Queries
    BY <1>1, QueryTypes DEF FileInv, Continues, Others
  <2>2. CASE exec[r].step \in Handling
    <3>1. Query(r) # Query(p)
      BY <1>1, <2>2 DEF Exclusive, Busy, Continues
    <3> QED
      BY <2>1, <3>1 DEF FilesKept, Written, Query, Kinds
  <2>3. CASE exec[r].step \notin Handling
    BY <2>1, <2>3 DEF Written, Handling, Steps, Kinds
  <2> QED
    BY <2>2, <2>3
<1> QED
  BY <1>1, <1>2 DEF FileInv

\* Steps outside _process_sat_request_job touch neither rows nor files.
LEMMA OutsideKeeps ==
  ASSUME JobTypes, FileInv, NEW p \in Procs, Others(p),
         exec'[p].step \in {"idle", "create", "publish", "start"},
         UNCHANGED <<requests, packages, evidence, files>>,
         \A q \in Queries : job'[q] = "succeeded" => job[q] = "succeeded",
         faults'.losses = faults.losses
  PROVE  FileInv'
<1> SUFFICES ASSUME faults.losses = 0
             PROVE  (\A r \in Procs : Written(r)') /\ (\A q \in Queries : RowsInv(q)')
  BY DEF FileInv
<1>1. \A q \in Queries : RowsInv(q)'
  BY DEF FileInv, RowsInv
<1>2. Written(p)'
  BY DEF Written, Kinds
<1>3. ASSUME NEW r \in Procs \ {p} PROVE Written(r)'
  BY DEF FileInv, Written, Others
<1> QED
  BY <1>1, <1>2, <1>3

\* MarkRunning, SatAnswers, InsertRequest, ReportProgress: no file changes.
LEMMA EarlyKeeps ==
  ASSUME MessageInv, FileInv, faults.losses = 0, NEW p \in Procs,
         MarkRunning(p) \/ SatAnswers(p) \/ InsertRequest(p) \/ ReportProgress(p)
  PROVE  FileInv'
<1>1. Continues(p) /\ JobTypes /\ Query(p) \in Queries
  BY HandlerContinues, QueryTypes DEF MessageInv
<1>2. UNCHANGED <<requests, packages, evidence, files>>
  BY DEF MarkRunning, SatAnswers, InsertRequest, ReportProgress, database
<1>3. \A q \in Queries : job'[q] = "succeeded" => job[q] = "succeeded"
  BY <1>1 DEF MarkRunning, SatAnswers, InsertRequest, ReportProgress, database, JobTypes
<1>4. \A q \in Queries : RowsInv(q)'
  BY <1>2, <1>3 DEF FileInv, RowsInv
<1>5. FilesKept(p)
  BY <1>2 DEF FilesKept
<1>6. Written(p)
  BY DEF FileInv
<1>7. exec'[p].query = exec[p].query /\ Regular(p)
  BY <1>1 DEF Continues, Query, MessageInv
<1>8. CASE MarkRunning(p) \/ SatAnswers(p)
  <2>1. exec'[p].step \in {"sat", "metadata"} /\ exec'[p].phase = exec[p].phase
        /\ exec[p].phase = "check"
    BY <1>1, <1>7, <1>8, GoToFields DEF MarkRunning, SatAnswers, Regular, At, Kinds, Steps
  <2>2. Written(p)'
    BY <2>1 DEF Written
  <2> QED
    BY <1>1, <1>4, <1>5, <2>2, HandlerMoves
<1>9. CASE InsertRequest(p)
  <2>1. exec'[p].step = "download" /\ exec[p].step = "insert"
    BY <1>1, <1>9, GoToFields DEF InsertRequest, At, Steps
  <2>2. Written(p)'
    BY <1>2, <1>6, <1>7, <2>1 DEF Written, Kinds
  <2> QED
    BY <1>1, <1>4, <1>5, <2>2, HandlerMoves
<1>10. CASE ReportProgress(p)
  <2>1. exec'[p].step = "ack" /\ exec[p].step = "cache"
    BY <1>1, <1>10, GoToFields DEF ReportProgress, At, Steps
  <2>2. Written(p)'
    BY <1>2, <1>6, <1>7, <2>1 DEF Written, Kinds
  <2> QED
    BY <1>1, <1>4, <1>5, <2>2, HandlerMoves
<1> QED
  BY <1>8, <1>9, <1>10

\* A package that has a row is whole already, so it may be used as it is.
LEMMA DownloadKeeps ==
  ASSUME MessageInv, FileInv, faults.losses = 0, NEW p \in Procs, DownloadPackage(p)
  PROVE  FileInv'
<1>1. Continues(p) /\ JobTypes /\ Query(p) \in Queries /\ Regular(p) /\ Written(p)
  BY HandlerContinues, QueryTypes DEF MessageInv, FileInv
<1>2. UNCHANGED <<job, requests, packages, evidence, files>>
  BY DEF DownloadPackage, database
<1>3. \A q \in Queries : RowsInv(q)'
  BY <1>2 DEF FileInv, RowsInv
<1>4. FilesKept(p)
  BY <1>2 DEF FilesKept
<1> DEFINE next == IF Query(p) \in packages /\ files[Query(p)]["package"] # "absent"
                   THEN AfterPackage(Query(p)) ELSE "package"
<1>5. next \in Steps /\ GoTo(p, next) /\ next \in {"package", "xml", "commit"}
  BY DEF DownloadPackage, AfterPackage, Steps
<1>6. next # "package" => Query(p) \in packages /\ next = AfterPackage(Query(p))
  OBVIOUS
<1> HIDE DEF next
<1>7. exec'[p].step = next /\ exec'[p].phase = "check" /\ exec'[p].query = exec[p].query
      /\ exec[p].step = "download"
  BY <1>1, <1>5, GoToFields DEF Query, Regular, DownloadPackage, At, Kinds
<1>8. Query(p) \in packages => files[Query(p)]["package"] = "whole"
  BY <1>1 DEF FileInv, RowsInv
<1>9. next = "commit" => Query(p) \notin XmlQueries
  BY <1>6 DEF AfterPackage
<1>10. Written(p)'
  BY <1>1, <1>2, <1>5, <1>6, <1>7, <1>8, <1>9 DEF Written, Query
<1> QED
  BY <1>1, <1>3, <1>4, <1>10, HandlerMoves

\* The step after a file that is whole.
LEMMA WholeFileWritten ==
  ASSUME MessageInv, FileInv, faults.losses = 0, NEW p \in Procs, exec[p].step \in Kinds,
         NextFile(p), FilesKept(p), files'[Query(p)][exec[p].step] = "whole"
  PROVE  Written(p)'
<1>1. JobTypes /\ Query(p) \in Queries /\ Written(p)
  BY QueryTypes DEF MessageInv, FileInv
<1>2. /\ exec'[p].step = AfterFile(p) /\ exec'[p].query = exec[p].query
      /\ exec'[p].phase = "check"
  BY <1>1, NextFileFields DEF Query
<1>3. /\ exec[p].step = "metadata" => AfterFile(p) = "insert"
      /\ exec[p].step = "package" => AfterFile(p) = IF Query(p) \in XmlQueries THEN "xml" ELSE "commit"
      /\ exec[p].step = "xml" => AfterFile(p) = "commit"
  BY DEF AfterFile, AfterPackage, At
<1>4. \A k \in Kinds : files[Query(p)][k] = "whole" => files'[Query(p)][k] = "whole"
  BY <1>1 DEF FilesKept
<1> QED
  BY <1>1, <1>2, <1>3, <1>4 DEF Written, Query, Kinds

\* Rows keep their files when whole files stay whole.
LEMMA RowsKept ==
  ASSUME JobTypes, FileInv, faults.losses = 0, NEW p \in Procs, FilesKept(p), UNCHANGED database
  PROVE  \A q \in Queries : RowsInv(q)'
BY DEF FileInv, RowsInv, FilesKept, Kinds, database

\* write_bytes_idempotent
LEMMA FileStepKeeps ==
  ASSUME MessageInv, FileInv, faults.losses = 0, NEW p \in Procs,
         ReuseFile(p) \/ FileMissing(p) \/ OpenFile(p) \/ CloseFile(p)
  PROVE  FileInv'
<1>1. /\ Continues(p) /\ JobTypes /\ Query(p) \in Queries /\ Written(p)
      /\ exec[p].step \in Kinds /\ UNCHANGED database
  BY HandlerContinues, QueryTypes
     DEF MessageInv, FileInv, ReuseFile, FileMissing, OpenFile, CloseFile, AtFile
<1>2. CASE ReuseFile(p)
  <2>1. FilesKept(p) /\ NextFile(p) /\ files'[Query(p)][exec[p].step] = "whole"
    BY <1>2 DEF ReuseFile, FilesKept, Content
  <2>2. Written(p)'
    BY <1>1, <2>1, WholeFileWritten
  <2> QED
    BY <1>1, <2>1, <2>2, RowsKept, HandlerMoves
<1>3. CASE FileMissing(p)
  <2>1. /\ FilesKept(p) /\ files' = files /\ files[Query(p)][exec[p].step] = "absent"
        /\ exec' = [exec EXCEPT ![p].phase = "write"]
    BY <1>3 DEF FileMissing, FilesKept, Content
  <2>2. exec'[p].step = exec[p].step /\ exec'[p].query = exec[p].query
    BY <1>1, <2>1, PhaseFields DEF Query
  <2>3. Written(p)'
    BY <1>1, <2>1, <2>2 DEF Written, Query
  <2> QED
    BY <1>1, <2>1, <2>3, RowsKept, HandlerMoves
<1>4. CASE OpenFile(p)
  <2>1. exec' = [exec EXCEPT ![p].phase = "close"] /\ SetContent(p, "torn") /\ "torn" \in Contents
        /\ exec[p].phase = "write"
    BY <1>4 DEF OpenFile, AtFile, Contents
  <2>2. /\ exec'[p].step = exec[p].step /\ exec'[p].query = exec[p].query
        /\ exec'[p].phase = "close"
    BY <1>1, <2>1, PhaseFields DEF Query
  <2>3. files[Query(p)][exec[p].step] = "absent"
    BY <1>1, <2>1 DEF Written, Query
  <2>4. FilesKept(p)
    BY <1>1, <2>1, <2>3, ContentKind DEF FilesKept
  <2>5. \A k \in Kinds : files[Query(p)][k] = "whole" => files'[Query(p)][k] = "whole"
    BY <1>1, <2>4 DEF FilesKept
  <2>6. Written(p)'
    BY <1>1, <2>2, <2>5 DEF Written, Query, Kinds
  <2> QED
    BY <1>1, <2>4, <2>6, RowsKept, HandlerMoves
<1>5. CASE CloseFile(p)
  <2>1. NextFile(p) /\ SetContent(p, "whole") /\ "whole" \in Contents
    BY <1>5 DEF CloseFile, Contents
  <2>2. FilesKept(p) /\ files'[Query(p)][exec[p].step] = "whole"
    BY <1>1, <2>1, ContentKind DEF FilesKept
  <2>3. Written(p)'
    BY <1>1, <2>1, <2>2, WholeFileWritten
  <2> QED
    BY <1>1, <2>2, <2>3, RowsKept, HandlerMoves
<1> QED
  BY <1>2, <1>3, <1>4, <1>5

\* The rows of the one transaction are all backed by files.
LEMMA CommitKeeps ==
  ASSUME MessageInv, FileInv, faults.losses = 0, NEW p \in Procs, Commit(p)
  PROVE  FileInv'
<1>1. /\ Continues(p) /\ JobTypes /\ Query(p) \in Queries /\ Written(p)
      /\ exec[p].step = "commit" /\ files' = files
  BY HandlerContinues, QueryTypes DEF MessageInv, FileInv, Commit, At
<1>2. FilesKept(p)
  BY <1>1 DEF FilesKept
<1>3. exec'[p].step = "cache" /\ exec'[p].query = exec[p].query
  BY <1>1, GoToFields DEF Commit, Steps, Query
<1>4. /\ files[Query(p)]["metadata"] = "whole" /\ files[Query(p)]["package"] = "whole"
      /\ Query(p) \in XmlQueries => files[Query(p)]["xml"] = "whole"
  BY <1>1 DEF Written, Query
<1>5. Written(p)'
  BY <1>1, <1>3, <1>4 DEF Written, Query, Kinds
<1>6. ASSUME NEW q \in Queries PROVE RowsInv(q)'
  <2>1. RowsInv(q)
    BY DEF FileInv
  <2>2. CASE q = Query(p)
    BY <1>1, <1>4, <2>1, <2>2 DEF Commit, RowsInv
  <2>3. CASE q # Query(p)
    <3>1. job'[q] = job[q]
      BY <1>1, <2>3 DEF Commit, JobTypes
    <3> QED
      BY <1>1, <2>1, <2>3, <3>1 DEF Commit, RowsInv
  <2> QED
    BY <2>2, <2>3
<1> QED
  BY <1>1, <1>2, <1>5, <1>6, HandlerMoves

LEMMA FileInvInit == Init => FileInv
BY IdleExec DEF Init, FileInv, Written, RowsInv, Kinds

LEMMA FileInvStep == MessageInv /\ FileInv /\ [Next]_vars => FileInv'
<1> SUFFICES ASSUME MessageInv, FileInv, [Next]_vars PROVE FileInv'
  OBVIOUS
<1>0. JobTypes
  BY DEF MessageInv
<1>1. ASSUME NEW p \in Procs, NEW q \in Queries, NEW enqueue \in BOOLEAN, SyncMetadata(p, q, enqueue)
      PROVE  FileInv'
  <2>1. Begins(p)
    BY <1>0, <1>1, SyncBegins
  <2> QED
    BY <1>0, <2>1, OutsideKeeps DEF Begins, database
<1>2. ASSUME NEW p \in Procs, Consume(p) PROVE FileInv'
  <2> DEFINE e == [Idle EXCEPT !.step = "start", !.query = Head(queue), !.held = TRUE]
  <2>1. queue \in Seq(Queries) /\ queue # <<>> /\ exec' = [exec EXCEPT ![p] = e]
    BY <1>0, <1>2 DEF JobTypes, Consume
  <2>2. e \in Exec /\ e.step = "start"
    BY <2>1, TailElems DEF Idle, Exec, Steps
  <2> HIDE DEF e
  <2>3. Others(p) /\ exec'[p].step = "start"
    BY <1>0, <2>1, <2>2 DEF JobTypes, Others
  <2> QED
    BY <1>0, <1>2, <2>3, OutsideKeeps DEF Consume, database
<1>3. ASSUME NEW p \in Procs, Creates(p) PROVE FileInv'
  <2>1. Others(p) /\ exec'[p].step \in {"publish", "start"} /\ Query(p) \in Queries
    BY <1>0, <1>3, QueryTypes DEF Creates
  <2>2. \A q \in Queries : job'[q] = "succeeded" => job[q] = "succeeded"
    BY <1>3 DEF Creates
  <2> QED
    BY <1>0, <1>3, <2>1, <2>2, OutsideKeeps DEF Creates
<1>4. ASSUME NEW p \in Procs, Stops(p) PROVE FileInv'
  <2>1. Others(p) /\ exec'[p].step = "idle"
    BY <1>4, IdleExec DEF Stops
  <2> QED
    BY <1>0, <1>4, <2>1, OutsideKeeps DEF Stops, database
<1>5. ASSUME NEW p \in Procs, Publish(p) PROVE FileInv'
  <2>1. Others(p) /\ exec'[p].step = "idle"
    BY <1>0, <1>5, IdleExec, DoneFields DEF Publish
  <2> QED
    BY <1>0, <1>5, <2>1, OutsideKeeps DEF Publish, database
<1>6. ASSUME NEW p \in Procs,
             \/ MarkRunning(p) \/ SatAnswers(p) \/ InsertRequest(p) \/ DownloadPackage(p)
             \/ ReuseFile(p) \/ FileMissing(p) \/ OpenFile(p) \/ CloseFile(p) \/ Commit(p)
             \/ ReportProgress(p)
      PROVE  FileInv'
  <2>1. CASE faults.losses = 0
    BY <1>6, <2>1, EarlyKeeps, DownloadKeeps, FileStepKeeps, CommitKeeps
  <2>2. CASE faults.losses # 0
    <3>1. Continues(p)
      BY <1>6, HandlerContinues
    <3> QED
      BY <2>2, <3>1 DEF Continues, FileInv
  <2> QED
    BY <2>1, <2>2
<1>7. ASSUME NEW p \in Procs, Proceed(p) PROVE FileInv'
  BY <1>3, <1>4, <1>5, <1>6, <1>7, CreateCreates, EndStops DEF Proceed
<1>8. ASSUME NEW p \in Procs, Failure(p) \/ Crash(p) PROVE FileInv'
  BY <1>4, <1>8, EndStops
<1>9. ASSUME NEW p \in Procs, ConnectionLost(p) PROVE FileInv'
  <2>1. faults'.losses # 0
    BY <1>0, <1>9 DEF ConnectionLost, JobTypes
  <2> QED
    BY <2>1 DEF FileInv
<1>10. CASE UNCHANGED vars
  BY <1>10 DEF vars, FileInv, Written, RowsInv
<1> QED
  BY <1>1, <1>2, <1>7, <1>8, <1>9, <1>10 DEF Next

-----------------------------------------------------------------------------
(* The promise of the queue. *)

\* How often each query occurs in a queue.
Counts(s) == [q \in Queries |-> Cardinality({i \in 1..Len(s) : s[i] = q})]

\* In a queue without repetition one message makes the difference.
LEMMA CountsDiffer ==
  ASSUME NEW s \in Seq(Queries), NEW t \in Seq(Queries), NEW x \in Queries,
         Distinct(s), Distinct(t), x \notin Elems(s), Elems(t) = Elems(s) \cup {x}
  PROVE  /\ Counts(t) = [Counts(s) EXCEPT ![x] = @ + 1]
         /\ Counts(s) = [Counts(t) EXCEPT ![x] = @ - 1]
         /\ Counts(t)[x] = 1
<1>1. ASSUME NEW u \in Seq(Queries), Distinct(u), NEW q \in Queries
      PROVE  Counts(u)[q] = IF q \in Elems(u) THEN 1 ELSE 0
  <2> DEFINE A == {i \in 1..Len(u) : u[i] = q}
  <2>1. Counts(u)[q] = Cardinality(A)
    BY DEF Counts
  <2>2. \A i, j \in A : i = j
    BY <1>1 DEF Distinct
  <2>3. A # {} <=> q \in Elems(u)
    BY DEF Elems
  <2> HIDE DEF A
  <2> QED
    BY <2>1, <2>2, <2>3, AtMostOne
<1>2. \A q \in Queries : /\ Counts(s)[q] = IF q \in Elems(s) THEN 1 ELSE 0
                         /\ Counts(t)[q] = IF q \in Elems(t) THEN 1 ELSE 0
  BY <1>1
<1> DEFINE c == Counts(s)
           d == Counts(t)
<1>3. c = [q \in Queries |-> c[q]] /\ d = [q \in Queries |-> d[q]]
  BY DEF Counts
<1>4. /\ c[x] = 0 /\ d[x] = 1
      /\ \A q \in Queries \ {x} : c[q] = d[q]
      /\ \A q \in Queries : c[q] \in Int /\ d[q] \in Int
  BY <1>2
<1> HIDE DEF c, d
<1>5. d = [c EXCEPT ![x] = @ + 1]
  BY <1>3, <1>4
<1>6. c = [d EXCEPT ![x] = @ - 1]
  <2>1. c = [q \in Queries |-> IF q = x THEN d[x] - 1 ELSE d[q]]
    BY <1>3, <1>4
  <2> QED
    BY <1>3, <2>1
<1> QED
  BY <1>4, <1>5, <1>6 DEF c, d

holdings == [p \in Procs |-> IF exec[p].held THEN {Query(p)} ELSE {}]

\* A step of one process changes what it holds and nothing else.
LEMMA HoldingsChange ==
  ASSUME NEW p \in Procs, Others(p)
  PROVE  holdings' = [holdings EXCEPT ![p] = IF exec'[p].held THEN {exec'[p].query} ELSE {}]
<1> DEFINE h == IF exec'[p].held THEN {exec'[p].query} ELSE {}
           old == holdings
           new == holdings'
<1>1. new[p] = h /\ \A r \in Procs \ {p} : new[r] = old[r]
  BY DEF Others, holdings, Query
<1>2. new = [r \in Procs |-> new[r]] /\ old = [r \in Procs |-> old[r]]
  BY DEF holdings
<1> HIDE DEF h, old, new
<1>3. new = [old EXCEPT ![p] = h]
  BY <1>1, <1>2
<1> QED
  BY <1>3 DEF h, old, new

\* A job is published by the command that created it, and no other.
PublishInv ==
  /\ \A q \in published : job[q] # "none"
  /\ \A p \in Procs : At(p, "publish") => Query(p) \notin published

DeliveryInv == MessageInv /\ PublishInv

LEMMA PublishInvStep == DeliveryInv /\ [Next]_vars => PublishInv'
<1> SUFFICES ASSUME MessageInv, PublishInv, [Next]_vars PROVE PublishInv'
  BY DEF DeliveryInv
<1>0. JobTypes /\ Exclusive /\ \A r \in Procs : Query(r) \in Queries
  BY QueryTypes DEF MessageInv
<1>1. ASSUME NEW p \in Procs, Others(p), exec'[p].step # "publish", published' = published,
             \A q \in Queries : job[q] # "none" => job'[q] # "none"
      PROVE  PublishInv'
  <2>1. \A r \in Procs : At(r, "publish")' => r # p /\ At(r, "publish") /\ Query(r)' = Query(r)
    BY <1>1 DEF Others, At, Query
  <2> QED
    BY <1>0, <1>1, <2>1 DEF PublishInv, JobTypes
<1>2. ASSUME NEW p \in Procs, NEW q \in Queries, NEW enqueue \in BOOLEAN, SyncMetadata(p, q, enqueue)
      PROVE  PublishInv'
  <2>1. Begins(p)
    BY <1>0, <1>2, SyncBegins
  <2> QED
    BY <1>1, <2>1 DEF Begins, database
<1>3. ASSUME NEW p \in Procs, Consume(p) PROVE PublishInv'
  <2> DEFINE e == [Idle EXCEPT !.step = "start", !.query = Head(queue), !.held = TRUE]
  <2>1. queue \in Seq(Queries) /\ queue # <<>> /\ exec' = [exec EXCEPT ![p] = e]
        /\ UNCHANGED <<job, published>>
    BY <1>0, <1>3 DEF JobTypes, Consume, database
  <2>2. e \in Exec /\ e.step = "start"
    BY <2>1, TailElems DEF Idle, Exec, Steps
  <2> HIDE DEF e
  <2>3. Others(p) /\ exec'[p].step = "start"
    BY <1>0, <2>1, <2>2 DEF JobTypes, Others
  <2> QED
    BY <1>1, <2>1, <2>3
<1>4. ASSUME NEW p \in Procs, Creates(p) PROVE PublishInv'
  <2>1. Query(p) \notin published /\ \A q \in Queries : job[q] # "none" => job'[q] # "none"
    BY <1>4 DEF Creates, PublishInv
  <2>2. published' = published /\ exec'[p].query = Query(p)
    BY <1>4 DEF Creates
  <2>3. \A r \in Procs \ {p} : exec'[r] = exec[r]
    BY <1>4 DEF Creates, Others
  <2> QED
    BY <1>0, <2>1, <2>2, <2>3 DEF PublishInv, At, Query, JobTypes
<1>5. ASSUME NEW p \in Procs, Continues(p) PROVE PublishInv'
  BY <1>1, <1>5 DEF Continues, Handling
<1>6. ASSUME NEW p \in Procs, Stops(p) PROVE PublishInv'
  BY <1>1, <1>6, IdleExec DEF Stops, database
<1>7. ASSUME NEW p \in Procs, Publish(p) PROVE PublishInv'
  <2>1. Others(p) /\ exec'[p] = Idle /\ published' = published \cup {Query(p)} /\ job' = job
        /\ At(p, "publish")
    BY <1>0, <1>7, DoneFields DEF Publish, database
  <2>2. Busy(p) /\ \A r \in Procs : At(r, "publish") => Busy(r)
    BY <2>1 DEF Busy, Carries, At
  <2>3. job[Query(p)] # "none" /\ \A r \in Procs \ {p} : At(r, "publish") => Query(r) # Query(p)
    BY <1>0, <2>2 DEF Exclusive
  <2>4. \A r \in Procs : At(r, "publish")' => r # p /\ At(r, "publish") /\ Query(r)' = Query(r)
    BY <2>1, IdleExec DEF Others, At, Query
  <2> QED
    BY <2>1, <2>3, <2>4 DEF PublishInv
<1>8. ASSUME NEW p \in Procs, ConnectionLost(p) PROVE PublishInv'
  <2>1. exec' = [exec EXCEPT ![p].held = FALSE] /\ UNCHANGED <<job, published>>
    BY <1>8 DEF ConnectionLost, database
  <2>2. \A r \in Procs : exec'[r].step = exec[r].step /\ exec'[r].query = exec[r].query
    BY <1>0, <2>1 DEF JobTypes, Exec
  <2> QED
    BY <2>1, <2>2 DEF PublishInv, At, Query
<1>9. ASSUME NEW p \in Procs, Proceed(p) PROVE PublishInv'
  BY <1>4, <1>5, <1>6, <1>7, <1>9, CreateCreates, HandlerContinues, EndStops DEF Proceed
<1>10. ASSUME NEW p \in Procs, Failure(p) \/ Crash(p) PROVE PublishInv'
  BY <1>6, <1>10, EndStops
<1>11. CASE UNCHANGED vars
  BY <1>11 DEF vars, PublishInv, At, Query
<1> QED
  BY <1>2, <1>3, <1>8, <1>9, <1>10, <1>11 DEF Next

LEMMA DeliveryInvInit == Init => DeliveryInv
BY MessageInvInit, IdleExec DEF Init, DeliveryInv, PublishInv, At

LEMMA DeliveryInvStep == DeliveryInv /\ [Next]_vars => DeliveryInv'
BY MessageInvStep, PublishInvStep DEF DeliveryInv

\* RabbitMqQueue.publish
LEMMA PublishDelivers ==
  ASSUME DeliveryInv, NEW p \in Procs, Publish(p) PROVE \E q \in Queries : Broker!Publish(q)
<1>0. JobTypes /\ Exclusive /\ Regular(p) /\ Query(p) \in Queries
  BY QueryTypes DEF DeliveryInv, MessageInv
<1> PICK q \in Queries : q = Query(p)
  BY <1>0
<1>1. /\ queue \in Seq(Queries) /\ Others(p) /\ exec'[p] = Idle /\ queue' = Append(queue, q)
      /\ published' = published \cup {q} /\ requests' = requests /\ At(p, "publish")
  BY <1>0, DoneFields DEF Publish, JobTypes, database
<1>2. Busy(p) /\ ~exec[p].held /\ q \notin published
  BY <1>0, <1>1 DEF Busy, Carries, At, Regular, Handling, DeliveryInv, PublishInv
<1>3. q \notin Elems(queue) /\ Distinct(queue)
  BY <1>0, <1>2 DEF Exclusive
<1>4. queue' \in Seq(Queries) /\ Elems(queue') = Elems(queue) \cup {q} /\ Distinct(queue')
  <2> DEFINE s == queue
             t == Append(queue, q)
  <2>1. s \in Seq(Queries) /\ q \notin Elems(s) /\ Distinct(s)
    BY <1>1, <1>3
  <2>2. t \in Seq(Queries) /\ Elems(t) = Elems(s) \cup {q} /\ Distinct(t)
    BY <2>1, AppendElems
  <2>3. queue' = t
    BY <1>1
  <2> HIDE DEF t
  <2> QED
    BY <2>2, <2>3
<1>5. Counts(queue') = [Counts(queue) EXCEPT ![q] = @ + 1]
  <2> DEFINE s == queue
             t == queue'
  <2>1. s \in Seq(Queries) /\ t \in Seq(Queries) /\ Distinct(s) /\ Distinct(t)
        /\ q \notin Elems(s) /\ Elems(t) = Elems(s) \cup {q}
    BY <1>1, <1>3, <1>4
  <2> HIDE DEF s, t
  <2>2. Counts(t) = [Counts(s) EXCEPT ![q] = @ + 1]
    BY <2>1, CountsDiffer
  <2> QED
    BY <2>2 DEF s, t
<1>6. holdings' = holdings
  BY <1>1, <1>2, IdleExec, HoldingsChange DEF holdings
<1>7. Broker!Publish(q)
  BY <1>1, <1>2, <1>5, <1>6 DEF Broker!Publish, Counts, holdings
<1> QED
  BY <1>7

\* basic_get
LEMMA ConsumeDelivers ==
  ASSUME DeliveryInv, NEW p \in Procs, Consume(p) PROVE \E q \in Queries : Broker!Deliver(p, q)
<1>0. JobTypes /\ Exclusive /\ Regular(p) /\ queue \in Seq(Queries)
  BY DEF DeliveryInv, MessageInv, JobTypes
<1>1. queue # <<>> /\ queue' = Tail(queue) /\ At(p, "idle") /\ UNCHANGED <<requests, published>>
  BY DEF Consume, database
<1>2. PICK q \in Queries : q = Head(queue)
  BY <1>0, <1>1, TailElems
<1> DEFINE e == [Idle EXCEPT !.step = "start", !.query = q, !.held = TRUE]
<1>3. exec' = [exec EXCEPT ![p] = e]
  BY <1>2 DEF Consume
<1>4. e \in Exec /\ e.held /\ e.query = q
  BY DEF Idle, Exec, Steps
<1> HIDE DEF e
<1>5. Others(p) /\ exec'[p] = e
  BY <1>0, <1>3, <1>4 DEF JobTypes, Others
<1>6. /\ queue' \in Seq(Queries) /\ Distinct(queue) /\ Distinct(queue')
      /\ q \notin Elems(queue') /\ Elems(queue) = Elems(queue') \cup {q}
  BY <1>0, <1>1, <1>2, TailElems DEF Exclusive
<1>7. Counts(queue') = [Counts(queue) EXCEPT ![q] = @ - 1] /\ Counts(queue)[q] = 1
  BY <1>0, <1>6, CountsDiffer
<1>8. holdings' = [holdings EXCEPT ![p] = {q}]
  BY <1>4, <1>5, HoldingsChange
<1>9. ~exec[p].held
  BY <1>0, <1>1 DEF Regular, At, Handling
<1>10. holdings[p] = {} /\ Counts(queue)[q] > 0
  BY <1>7, <1>9 DEF holdings
<1>11. Broker!Deliver(p, q)
  BY <1>1, <1>7, <1>8, <1>10 DEF Broker!Deliver, Counts, holdings
<1> QED
  BY <1>11

\* A delivery that is given back, by an exception, a crash or a lost connection.
LEMMA GivenBackIs ==
  ASSUME DeliveryInv, NEW p \in Procs, Others(p), exec[p].held, ~exec'[p].held,
         queue' = GivenBack(Query(p), queue), UNCHANGED <<requests, published>>
  PROVE  \E q \in Queries : Broker!GiveBack(p, q)
<1>0. JobTypes /\ Exclusive /\ Regular(p) /\ queue \in Seq(Queries) /\ Query(p) \in Queries
  BY QueryTypes DEF DeliveryInv, MessageInv, JobTypes
<1> PICK q \in Queries : q = Query(p)
  BY <1>0
<1>1. Busy(p)
  BY <1>0 DEF Regular, Busy, Carries
<1>2. q \notin Elems(queue) /\ Distinct(queue) /\ queue' = GivenBack(q, queue)
  BY <1>0, <1>1 DEF Exclusive
<1>3. queue' \in Seq(Queries) /\ Elems(queue') = Elems(queue) \cup {q} /\ Distinct(queue')
  BY <1>0, <1>2, ConsElems
<1>4. Counts(queue') = [Counts(queue) EXCEPT ![q] = @ + 1]
  BY <1>0, <1>2, <1>3, CountsDiffer
<1>5. holdings' = [holdings EXCEPT ![p] = {}]
  BY HoldingsChange
<1>6. holdings[p] = {q}
  BY DEF holdings
<1>7. Broker!GiveBack(p, q)
  BY <1>4, <1>5, <1>6 DEF Broker!GiveBack, Counts, holdings
<1> QED
  BY <1>7

\* A process is done with a job: it settles or gives back what it holds.
LEMMA StopsDelivers ==
  ASSUME DeliveryInv, NEW p \in Procs, Stops(p)
  PROVE  Broker!DeliveryNext \/ UNCHANGED Broker!deliveryVars
<1>1. Query(p) \in Queries
  BY QueryTypes DEF DeliveryInv, MessageInv
<1> PICK q \in Queries : q = Query(p)
  BY <1>1
<1>2. Others(p) /\ exec'[p] = Idle /\ ~exec'[p].held /\ UNCHANGED <<requests, published>>
  BY IdleExec DEF Stops, database
<1>3. holdings' = [holdings EXCEPT ![p] = {}]
  BY <1>2, HoldingsChange
<1>4. CASE exec[p].held /\ queue' = GivenBack(Query(p), queue)
  <2>1. \E x \in Queries : Broker!GiveBack(p, x)
    BY <1>2, <1>4, GivenBackIs
  <2> QED
    BY <2>1 DEF Broker!DeliveryNext
<1>5. CASE exec[p].held /\ queue' = queue /\ q \in requests
  <2>1. holdings[p] = {q}
    BY <1>5 DEF holdings
  <2>2. Broker!Settle(p, q)
    BY <1>2, <1>3, <1>5, <2>1 DEF Broker!Settle, holdings
  <2> QED
    BY <2>2 DEF Broker!DeliveryNext
<1>6. CASE ~exec[p].held
  <2>1. queue' = queue /\ holdings' = holdings
    BY <1>3, <1>6 DEF Stops, holdings
  <2> QED
    BY <1>2, <2>1 DEF Broker!deliveryVars, holdings
<1> QED
  BY <1>4, <1>5, <1>6 DEF Stops

\* Creating a job and handling it move no message; the commit records it.
LEMMA WorkDelivers ==
  ASSUME DeliveryInv, NEW p \in Procs,
         \/ Begins(p) /\ At(p, "idle")
         \/ Creates(p)
         \/ Continues(p) /\ (requests' = requests \/ requests' = requests \cup {Query(p)})
  PROVE  Broker!DeliveryNext \/ UNCHANGED Broker!deliveryVars
<1>1. Query(p) \in Queries /\ Regular(p)
  BY QueryTypes DEF DeliveryInv, MessageInv
<1> PICK q \in Queries : q = Query(p)
  BY <1>1
<1>2. /\ Others(p) /\ UNCHANGED <<queue, published>>
      /\ exec[p].held = exec'[p].held
      /\ exec[p].held => exec'[p].query = exec[p].query
  <2>1. CASE Begins(p) /\ At(p, "idle")
    <3>1. exec[p].held = FALSE
      BY <1>1, <2>1, QueryTypes DEF Regular, At, Handling, Exec, DeliveryInv, MessageInv
    <3>2. exec'[p].held = FALSE
      BY <1>1, <2>1 DEF Begins, Others, Exec
    <3> QED
      BY <2>1, <3>1, <3>2 DEF Begins
  <2>2. CASE Creates(p)
    BY <2>2 DEF Creates, Query
  <2>3. CASE Continues(p)
    BY <2>3 DEF Continues, Query
  <2> QED
    BY <2>1, <2>2, <2>3
<1>3. holdings' = holdings
  BY <1>2, HoldingsChange DEF holdings, Query
<1>4. CASE requests' = requests
  BY <1>2, <1>3, <1>4 DEF Broker!deliveryVars, holdings
<1>5. CASE requests' = requests \cup {q} /\ q \notin requests
  <2>1. Broker!Record(q)
    BY <1>2, <1>3, <1>5 DEF Broker!Record, holdings
  <2> QED
    BY <2>1 DEF Broker!DeliveryNext
<1> QED
  BY <1>4, <1>5 DEF Begins, Creates, database

LEMMA DeliveryStarts == Init => Broker!DeliveryInit
<1> SUFFICES ASSUME Init PROVE Broker!DeliveryInit
  OBVIOUS
<1>1. \A q : {i \in 1..Len(queue) : queue[i] = q} = {}
  BY DEF Init
<1>2. \A q : Cardinality({i \in 1..Len(queue) : queue[i] = q}) = 0
  BY <1>1, FS_EmptySet
<1>3. \A p \in Procs : ~exec[p].held
  BY IdleExec DEF Init
<1> QED
  BY <1>2, <1>3 DEF Init, Broker!DeliveryInit

LEMMA DeliveryStep == DeliveryInv /\ [Next]_vars => [Broker!DeliveryNext]_Broker!deliveryVars
<1> SUFFICES ASSUME DeliveryInv, [Next]_vars
             PROVE  Broker!DeliveryNext \/ UNCHANGED Broker!deliveryVars
  OBVIOUS
<1>0. MessageInv /\ JobTypes /\ \A r \in Procs : Query(r) \in Queries
  BY QueryTypes DEF DeliveryInv, MessageInv
<1>1. ASSUME NEW p \in Procs, NEW q \in Queries, NEW enqueue \in BOOLEAN, SyncMetadata(p, q, enqueue)
      PROVE  Broker!DeliveryNext \/ UNCHANGED Broker!deliveryVars
  <2>1. At(p, "idle")
    BY <1>1 DEF SyncMetadata
  <2> QED
    BY <1>0, <1>1, <2>1, SyncBegins, WorkDelivers
<1>2. ASSUME NEW p \in Procs, Consume(p) PROVE Broker!DeliveryNext
  BY <1>2, ConsumeDelivers DEF Broker!DeliveryNext
<1>3. ASSUME NEW p \in Procs, Publish(p) PROVE Broker!DeliveryNext
  BY <1>0, <1>3, PublishDelivers DEF Broker!DeliveryNext
<1>4. ASSUME NEW p \in Procs,
             \/ MarkRunning(p) \/ SatAnswers(p) \/ InsertRequest(p) \/ DownloadPackage(p)
             \/ ReuseFile(p) \/ FileMissing(p) \/ OpenFile(p) \/ CloseFile(p) \/ Commit(p)
             \/ ReportProgress(p)
      PROVE  Broker!DeliveryNext \/ UNCHANGED Broker!deliveryVars
  <2>1. requests' = requests \/ requests' = requests \cup {Query(p)}
    BY <1>4 DEF MarkRunning, SatAnswers, InsertRequest, DownloadPackage, ReuseFile, FileMissing,
                OpenFile, CloseFile, Commit, ReportProgress, database
  <2> QED
    BY <1>0, <1>4, <2>1, HandlerContinues, WorkDelivers
<1>5. ASSUME NEW p \in Procs, ConnectionLost(p) PROVE Broker!DeliveryNext
  <2>1. exec[p].held /\ exec' = [exec EXCEPT ![p].held = FALSE] /\ UNCHANGED <<requests, published>>
        /\ queue' = GivenBack(Query(p), queue)
    BY <1>5 DEF ConnectionLost, Requeue, GivenBack, database
  <2> DEFINE e == [exec[p] EXCEPT !.held = FALSE]
  <2>2. e \in Exec /\ ~e.held /\ exec' = [exec EXCEPT ![p] = e]
    BY <1>0, <2>1 DEF JobTypes, Exec
  <2> HIDE DEF e
  <2>3. Others(p) /\ ~exec'[p].held
    BY <1>0, <2>2 DEF Others, JobTypes
  <2>4. \E q \in Queries : Broker!GiveBack(p, q)
    BY <2>1, <2>3, GivenBackIs
  <2> QED
    BY <2>4 DEF Broker!DeliveryNext
<1>6. ASSUME NEW p \in Procs, Stops(p)
      PROVE  Broker!DeliveryNext \/ UNCHANGED Broker!deliveryVars
  BY <1>6, StopsDelivers
<1>7. ASSUME NEW p \in Procs, Creates(p)
      PROVE  Broker!DeliveryNext \/ UNCHANGED Broker!deliveryVars
  BY <1>7, WorkDelivers
<1>8. ASSUME NEW p \in Procs, Proceed(p)
      PROVE  Broker!DeliveryNext \/ UNCHANGED Broker!deliveryVars
  BY <1>0, <1>3, <1>4, <1>6, <1>7, <1>8, CreateCreates, EndStops DEF Proceed
<1>9. ASSUME NEW p \in Procs, Failure(p) \/ Crash(p)
      PROVE  Broker!DeliveryNext \/ UNCHANGED Broker!deliveryVars
  BY <1>0, <1>6, <1>9, EndStops
<1>10. CASE UNCHANGED vars
  BY <1>10 DEF vars, Broker!deliveryVars, Query
<1> QED
  BY <1>1, <1>2, <1>5, <1>8, <1>9, <1>10 DEF Next

-----------------------------------------------------------------------------
(* One transaction for each id_solicitud. *)

\* From the flush of the request row to the commit.
Transaction == {"download", "package", "xml", "commit"}
InTransaction(p) == exec[p].step \in Transaction

TransactionInv ==
  /\ \A p \in Procs : InTransaction(p) => Query(p) \notin requests
  /\ \A p, r \in Procs : InTransaction(p) /\ InTransaction(r) /\ Query(p) = Query(r) => p = r

\* The steps of _process_sat_request_job up to its commit.
Works(p) ==
  \/ MarkRunning(p) \/ SatAnswers(p) \/ InsertRequest(p) \/ DownloadPackage(p)
  \/ ReuseFile(p) \/ FileMissing(p) \/ OpenFile(p) \/ CloseFile(p) \/ Commit(p)

\* Why a process stops.
Ends(p) ==
  \/ At(p, "create") /\ faults' = faults
  \/ Ack(p) \/ StorageCollision(p) \/ DuplicateRequest(p) \/ Failure(p) \/ Crash(p)

\* Every step is of one of these kinds.
LEMMA NextKinds ==
  ASSUME MessageInv, Next
  PROVE  \E p \in Procs :
           \/ Begins(p) /\ At(p, "idle")
           \/ Consume(p) \/ Creates(p) \/ Publish(p) \/ ConnectionLost(p)
           \/ Works(p) /\ Continues(p)
           \/ ReportProgress(p) /\ Continues(p)
           \/ Ends(p) /\ Stops(p)
<1>1. PICK p \in Procs :
        \/ \E q \in Queries, enqueue \in BOOLEAN : SyncMetadata(p, q, enqueue)
        \/ Consume(p) \/ Proceed(p) \/ Failure(p) \/ Crash(p) \/ ConnectionLost(p)
  BY DEF Next
<1>2. ASSUME NEW q \in Queries, NEW enqueue \in BOOLEAN, SyncMetadata(p, q, enqueue)
      PROVE  Begins(p) /\ At(p, "idle")
  BY <1>2, SyncBegins DEF MessageInv, SyncMetadata
<1>3. CreateJob(p) => Creates(p) \/ (Stops(p) /\ Ends(p))
  BY CreateCreates DEF Ends, CreateJob
<1>4. Works(p) \/ ReportProgress(p) => Continues(p)
  BY HandlerContinues DEF Works
<1>5. Ack(p) \/ StorageCollision(p) \/ DuplicateRequest(p) \/ Failure(p) \/ Crash(p)
      => Ends(p) /\ Stops(p)
  BY EndStops DEF Ends
<1>6. Proceed(p) => \/ CreateJob(p) \/ Publish(p) \/ Works(p) \/ ReportProgress(p)
                    \/ Ack(p) \/ StorageCollision(p) \/ DuplicateRequest(p)
  BY DEF Proceed, Works
<1> QED
  BY <1>1, <1>2, <1>3, <1>4, <1>5, <1>6

\* basic_get, field by field.
LEMMA ConsumeFields ==
  ASSUME JobTypes, NEW p \in Procs, Consume(p)
  PROVE  /\ Others(p) /\ At(p, "idle") /\ queue # <<>> /\ queue' = Tail(queue)
         /\ exec'[p].step = "start" /\ exec'[p].held /\ exec'[p].phase = "check"
         /\ exec'[p].query = Head(queue)
         /\ UNCHANGED <<job, requests, packages, evidence, files, published, faults>>
<1> DEFINE e == [Idle EXCEPT !.step = "start", !.query = Head(queue), !.held = TRUE]
<1>1. queue \in Seq(Queries) /\ queue # <<>> /\ exec' = [exec EXCEPT ![p] = e]
      /\ queue' = Tail(queue) /\ At(p, "idle")
      /\ UNCHANGED <<job, requests, packages, evidence, files, published, faults>>
  BY DEF JobTypes, Consume, database
<1>2. e \in Exec /\ e.step = "start" /\ e.held /\ e.phase = "check" /\ e.query = Head(queue)
  BY <1>1, TailElems DEF Idle, Exec, Steps
<1> HIDE DEF e
<1> QED
  BY <1>1, <1>2 DEF JobTypes, Others

\* A lost connection, field by field.
LEMMA LostFields ==
  ASSUME JobTypes, NEW p \in Procs, ConnectionLost(p)
  PROVE  /\ Others(p) /\ exec[p].held /\ ~exec'[p].held
         /\ exec'[p].step = exec[p].step /\ exec'[p].query = exec[p].query
         /\ exec'[p].phase = exec[p].phase
         /\ queue' = GivenBack(Query(p), queue)
         /\ faults'.losses > 0 /\ faults'.crashes = faults.crashes
         /\ faults'.failures = faults.failures
         /\ UNCHANGED <<job, requests, packages, evidence, files, published>>
<1> DEFINE e == [exec[p] EXCEPT !.held = FALSE]
<1>1. e \in Exec /\ ~e.held /\ e.step = exec[p].step /\ e.query = exec[p].query
      /\ e.phase = exec[p].phase
  BY DEF JobTypes, Exec
<1>2. exec' = [exec EXCEPT ![p] = e] /\ exec[p].held /\ queue' = GivenBack(Query(p), queue)
      /\ faults' = [faults EXCEPT !.losses = @ + 1]
      /\ UNCHANGED <<job, requests, packages, evidence, files, published>>
  BY DEF ConnectionLost, Requeue, GivenBack, database
<1>3. faults'.losses > 0 /\ faults'.crashes = faults.crashes /\ faults'.failures = faults.failures
  BY <1>2 DEF JobTypes
<1> HIDE DEF e
<1> QED
  BY <1>1, <1>2, <1>3 DEF JobTypes, Others

\* ReportProgress, field by field.
LEMMA ReportFields ==
  ASSUME JobTypes, NEW p \in Procs, ReportProgress(p)
  PROVE  /\ Others(p) /\ At(p, "cache") /\ exec'[p].step = "ack" /\ exec'[p].query = Query(p)
         /\ exec'[p].held = exec[p].held /\ exec'[p].phase = exec[p].phase
         /\ UNCHANGED <<job, requests, files, queue, published, faults>>
BY GoToFields DEF ReportProgress, Steps, database

\* What a working step does to the job rows, and where it enters a transaction.
LEMMA WorkFields ==
  ASSUME MessageInv, NEW p \in Procs, Works(p)
  PROVE  /\ exec[p].step \in Handling /\ ~Recorded(p)
         /\ \A q \in Queries \ {Query(p)} : job'[q] = job[q]
         /\ \/ requests' = requests
            \/ At(p, "commit") /\ exec'[p].step = "cache" /\ requests' = requests \cup {Query(p)}
         /\ Recorded(p)' => At(p, "commit") /\ job'[Query(p)] = "succeeded"
         /\ exec'[p].step \in Transaction => InTransaction(p) \/ InsertRequest(p)
<1>0. JobTypes /\ Query(p) \in Queries /\ Regular(p)
  BY QueryTypes DEF MessageInv
<1>1. CASE MarkRunning(p)
  <2>1. exec'[p].step = "sat"
    BY <1>0, <1>1, GoToFields DEF MarkRunning, Steps
  <2> QED
    BY <1>0, <1>1, <2>1 DEF MarkRunning, At, Recorded, Handling, Steps, Transaction, JobTypes
<1>2. CASE SatAnswers(p)
  <2>1. exec'[p].step = "metadata"
    BY <1>0, <1>2, GoToFields DEF SatAnswers, Steps
  <2> QED
    BY <1>0, <1>2, <2>1 DEF SatAnswers, At, Recorded, Handling, Steps, Transaction, JobTypes, database
<1>3. CASE InsertRequest(p)
  <2>1. exec'[p].step = "download"
    BY <1>0, <1>3, GoToFields DEF InsertRequest, Steps
  <2> QED
    BY <1>0, <1>3, <2>1 DEF InsertRequest, At, Recorded, Handling, Steps, Transaction, JobTypes, database
<1>4. CASE DownloadPackage(p)
  <2>1. PICK s \in {"package", "xml", "commit"} : GoTo(p, s)
    BY <1>4 DEF DownloadPackage, AfterPackage
  <2>2. exec'[p].step = s
    BY <1>0, <2>1, GoToFields DEF Steps
  <2> QED
    BY <1>0, <1>4, <2>2
       DEF DownloadPackage, At, Recorded, Handling, Steps, Transaction, InTransaction, JobTypes, database
<1>5. CASE ReuseFile(p) \/ CloseFile(p)
  <2>1. exec[p].step \in Kinds /\ NextFile(p) /\ UNCHANGED <<job, requests>>
    BY <1>5 DEF ReuseFile, CloseFile, AtFile, database
  <2>2. exec'[p].step = AfterFile(p) /\ AfterFile(p) \in {"insert", "xml", "commit"}
    BY <1>0, <2>1, NextFileFields
  <2>3. At(p, "metadata") => AfterFile(p) = "insert"
    BY DEF AfterFile, At
  <2>4. exec[p].step \in Handling /\ ~Recorded(p) /\ ~Recorded(p)'
    BY <2>1, <2>2 DEF Kinds, Handling, Steps, Recorded
  <2>5. exec'[p].step \in Transaction => InTransaction(p)
    BY <2>1, <2>2, <2>3 DEF Kinds, Transaction, InTransaction, At
  <2> QED
    BY <2>1, <2>4, <2>5
<1>6. CASE FileMissing(p) \/ OpenFile(p)
  <2>1. PICK ph \in {"write", "close"} : exec' = [exec EXCEPT ![p].phase = ph]
    BY <1>6 DEF FileMissing, OpenFile
  <2>2. exec'[p].step = exec[p].step
    BY <1>0, <2>1, PhaseFields
  <2> QED
    BY <1>0, <1>6, <2>2
       DEF FileMissing, OpenFile, AtFile, At, Recorded, Handling, Steps, Kinds, Transaction, InTransaction,
           JobTypes, database
<1>7. CASE Commit(p)
  <2>1. exec'[p].step = "cache"
    BY <1>0, <1>7, GoToFields DEF Commit, Steps
  <2> QED
    BY <1>0, <1>7, <2>1 DEF Commit, At, Recorded, Handling, Steps, Transaction, JobTypes
<1> QED
  BY <1>1, <1>2, <1>3, <1>4, <1>5, <1>6, <1>7 DEF Works

\* A process that begins no transaction and commits none leaves the others alone.
LEMMA TransactionKept ==
  ASSUME TransactionInv, NEW p \in Procs, Others(p), requests' = requests,
         exec'[p].step \in Transaction => InTransaction(p) /\ exec'[p].query = Query(p)
  PROVE  TransactionInv'
<1>1. \A r \in Procs : InTransaction(r)' => InTransaction(r) /\ Query(r)' = Query(r)
  BY DEF Others, InTransaction, Query
<1> QED
  BY <1>1 DEF TransactionInv

LEMMA TransactionInvStep == MessageInv /\ TransactionInv /\ [Next]_vars => TransactionInv'
<1> SUFFICES ASSUME MessageInv, TransactionInv, [Next]_vars PROVE TransactionInv'
  OBVIOUS
<1>0. JobTypes
  BY DEF MessageInv
<1>1. ASSUME NEW p \in Procs, Works(p), Continues(p) PROVE TransactionInv'
  <2>1. Others(p) /\ exec'[p].query = Query(p)
    BY <1>1 DEF Continues
  <2>2. CASE InsertRequest(p)
    <3>1. /\ Query(p) \notin requests /\ requests' = requests
          /\ \A o \in Procs \ {p} : InTransaction(o) => Query(o) # Query(p)
      BY <2>2 DEF InsertRequest, InTransaction, Transaction, database
    <3>2. \A r \in Procs \ {p} : (InTransaction(r)' <=> InTransaction(r)) /\ Query(r)' = Query(r)
      BY <2>1 DEF Others, InTransaction, Query
    <3>3. Query(p)' = Query(p)
      BY <2>1 DEF Query
    <3> QED
      BY <3>1, <3>2, <3>3 DEF TransactionInv
  <2>3. CASE At(p, "commit") /\ exec'[p].step = "cache" /\ requests' = requests \cup {Query(p)}
    <3>1. InTransaction(p)
      BY <2>3 DEF At, InTransaction, Transaction
    <3>2. \A r \in Procs : InTransaction(r)' => r # p /\ InTransaction(r) /\ Query(r)' = Query(r)
      BY <2>1, <2>3 DEF Others, InTransaction, Query, Transaction
    <3> QED
      BY <2>3, <3>1, <3>2 DEF TransactionInv
  <2>4. CASE requests' = requests /\ ~InsertRequest(p)
    BY <1>1, <2>1, <2>4, WorkFields, TransactionKept
  <2> QED
    BY <1>1, <2>2, <2>3, <2>4, WorkFields
<1>2. ASSUME NEW p \in Procs, Begins(p) \/ Consume(p) \/ Creates(p) \/ Publish(p) \/ Stops(p)
      PROVE  TransactionInv'
  <2>1. CASE Begins(p)
    BY <2>1, TransactionKept DEF Begins, Transaction, database
  <2>2. CASE Consume(p)
    BY <1>0, <2>2, ConsumeFields, TransactionKept DEF Transaction
  <2>3. CASE Creates(p)
    BY <2>3, TransactionKept DEF Creates, Transaction
  <2>4. CASE Publish(p)
    BY <1>0, <2>4, DoneFields, IdleExec, TransactionKept DEF Publish, Transaction, database
  <2>5. CASE Stops(p)
    BY <2>5, IdleExec, TransactionKept DEF Stops, Transaction, database
  <2> QED
    BY <1>2, <2>1, <2>2, <2>3, <2>4, <2>5
<1>3. ASSUME NEW p \in Procs, ConnectionLost(p) PROVE TransactionInv'
  BY <1>0, <1>3, LostFields, TransactionKept DEF InTransaction, Query
<1>4. ASSUME NEW p \in Procs, ReportProgress(p) PROVE TransactionInv'
  BY <1>0, <1>4, ReportFields, TransactionKept DEF Transaction
<1>5. CASE UNCHANGED vars
  BY <1>5 DEF vars, TransactionInv, InTransaction, Query
<1> QED
  BY <1>1, <1>2, <1>3, <1>4, <1>5, NextKinds

LEMMA TransactionInvInit == Init => TransactionInv
BY IdleExec DEF Init, TransactionInv, InTransaction, Transaction

-----------------------------------------------------------------------------
(* What an accident can strand. *)

\* A process that runs a job or is about to publish it.
Active(p) == exec[p].step \in Handling \cup {"publish"}

\* A torn file is being written, unless a write was cut off.
TornInv ==
  faults.failures + faults.crashes = 0 =>
    \A q \in Queries, k \in Kinds : files[q][k] = "torn" =>
      \E p \in Procs : Query(p) = q /\ exec[p].step = k /\ exec[p].phase = "close"

\* A job that was not published has no message and one process at most, which has the
\* only transaction for it.
UnpublishedInv ==
  /\ \A q \in requests : job[q] # "none"
  /\ \A q \in Elems(queue) : q \in published
  /\ \A p \in Procs : exec[p].held => Query(p) \in published
  /\ \A p \in Procs : Active(p) => job[Query(p)] # "none"
  /\ \A p \in Procs : Active(p) /\ Query(p) \in requests \ published => Recorded(p)
  /\ \A p, r \in Procs :
       Active(p) /\ Active(r) /\ Query(p) = Query(r) /\ Query(p) \notin published => p = r

\* Until a connection is lost, a published job is handled under its delivery, and what a
\* handler has recorded has succeeded.
SingleInv ==
  faults.losses = 0 =>
    \A p \in Procs :
      /\ exec[p].step \in Handling /\ Query(p) \in published => exec[p].held
      /\ Recorded(p) => job[Query(p)] = "succeeded"

\* A failure or a crash is counted.
LEMMA FaultsGrow ==
  ASSUME JobTypes, NEW p \in Procs, Failure(p) \/ Crash(p)
  PROVE  faults'.failures + faults'.crashes > 0
<1>0. faults \in [failures : Nat, crashes : Nat, losses : Nat]
  BY DEF JobTypes
<1>1. CASE faults' = [faults EXCEPT !.failures = @ + 1]
  <2>1. faults'.failures = faults.failures + 1 /\ faults'.crashes = faults.crashes
    BY <1>0, <1>1
  <2> QED
    BY <1>0, <2>1
<1>2. CASE faults' = [faults EXCEPT !.crashes = @ + 1]
  <2>1. faults'.failures = faults.failures /\ faults'.crashes = faults.crashes + 1
    BY <1>0, <1>2
  <2> QED
    BY <1>0, <2>1
<1> QED
  BY <1>1, <1>2 DEF Failure, Crash

LEMMA TornInvStep == MessageInv /\ TornInv /\ [Next]_vars => TornInv'
<1> DEFINE Uncut == faults.failures + faults.crashes = 0
<1> SUFFICES ASSUME MessageInv, TornInv, [Next]_vars PROVE TornInv'
  OBVIOUS
<1>0. JobTypes /\ \A p \in Procs : Regular(p)
  BY DEF MessageInv
<1>1. ASSUME NEW p \in Procs, Others(p), files' = files, exec[p].phase # "close",
             Uncut' => Uncut
      PROVE  TornInv'
  BY <1>1 DEF TornInv, Others, Query
<1>2. ASSUME NEW p \in Procs, exec[p].step \notin Kinds PROVE exec[p].phase # "close"
  BY <1>0, <1>2 DEF Regular
<1>3. ASSUME NEW p \in Procs, Begins(p), At(p, "idle") PROVE TornInv'
  <2>1. exec[p].phase # "close"
    BY <1>2, <1>3 DEF At, Kinds
  <2> QED
    BY <1>1, <1>3, <2>1 DEF Begins
<1>4. ASSUME NEW p \in Procs, Consume(p) PROVE TornInv'
  <2>1. Others(p) /\ At(p, "idle") /\ UNCHANGED <<files, faults>>
    BY <1>0, <1>4, ConsumeFields
  <2>2. exec[p].phase # "close"
    BY <1>2, <2>1 DEF At, Kinds
  <2> QED
    BY <1>1, <2>1, <2>2
<1>5. ASSUME NEW p \in Procs, Creates(p) PROVE TornInv'
  <2>1. exec[p].phase # "close"
    BY <1>2, <1>5 DEF At, Kinds, Creates
  <2> QED
    BY <1>1, <1>5, <2>1 DEF Creates
<1>6. ASSUME NEW p \in Procs, Publish(p) PROVE TornInv'
  <2>1. exec[p].phase # "close"
    BY <1>2, <1>6 DEF At, Kinds, Publish
  <2> QED
    BY <1>0, <1>1, <1>6, <2>1, DoneFields DEF Publish
<1>7. ASSUME NEW p \in Procs, ConnectionLost(p) PROVE TornInv'
  <2>1. /\ files' = files /\ faults'.crashes = faults.crashes /\ faults'.failures = faults.failures
        /\ \A r \in Procs : /\ exec'[r].step = exec[r].step /\ exec'[r].query = exec[r].query
                            /\ exec'[r].phase = exec[r].phase
    BY <1>0, <1>7, LostFields DEF Others
  <2> QED
    BY <2>1 DEF TornInv, Query
<1>8. ASSUME NEW p \in Procs, Ends(p), Stops(p) PROVE TornInv'
  <2>1. Others(p) /\ files' = files
    BY <1>8 DEF Stops
  <2>2. CASE Failure(p) \/ Crash(p)
    <3>1. ~Uncut'
      BY <1>0, <2>2, FaultsGrow
    <3> QED
      BY <3>1 DEF TornInv
  <2>3. CASE At(p, "create") \/ Ack(p) \/ DuplicateRequest(p)
    <3>1. exec[p].phase # "close"
      BY <1>2, <2>3 DEF Ack, DuplicateRequest, At, Kinds
    <3>2. Uncut' => Uncut
      BY <1>0, <1>8, <2>3 DEF Ends, Ack, StorageCollision, DuplicateRequest, Failure, Crash, JobTypes
    <3> QED
      BY <1>1, <2>1, <3>1, <3>2
  <2>4. CASE StorageCollision(p)
    <3>1. exec[p].phase # "close" /\ faults' = faults
      BY <2>4 DEF StorageCollision, AtFile
    <3> QED
      BY <1>1, <2>1, <3>1
  <2> QED
    BY <1>8, <2>2, <2>3, <2>4 DEF Ends
<1>9. ASSUME NEW p \in Procs, Works(p), Continues(p) PROVE TornInv'
  <2>1. Others(p) /\ exec'[p].query = Query(p) /\ faults' = faults
    BY <1>9 DEF Continues
  <2>2. CASE OpenFile(p)
    <3>1. /\ exec' = [exec EXCEPT ![p].phase = "close"] /\ exec[p].step \in Kinds
          /\ SetContent(p, "torn") /\ "torn" \in Contents
      BY <2>2 DEF OpenFile, AtFile, Contents
    <3>2. exec'[p].step = exec[p].step /\ exec'[p].phase = "close"
      BY <1>0, <3>1, PhaseFields
    <3>3. \A q \in Queries, k \in Kinds :
            q # Query(p) \/ k # exec[p].step => files'[q][k] = files[q][k]
      BY <1>0, <3>1, ContentKind
    <3>4. exec[p].phase # "close"
      BY <2>2 DEF OpenFile, AtFile
    <3>5. Query(p)' = Query(p) /\ \A r \in Procs \ {p} : exec'[r] = exec[r]
      BY <2>1 DEF Others, Query
    <3> QED
      BY <2>1, <3>2, <3>3, <3>4, <3>5 DEF TornInv, Query
  <2>3. CASE CloseFile(p)
    <3>1. exec[p].step \in Kinds /\ SetContent(p, "whole") /\ "whole" \in Contents
      BY <2>3 DEF CloseFile, AtFile, Contents
    <3>2. /\ files'[Query(p)][exec[p].step] = "whole"
          /\ \A q \in Queries, k \in Kinds :
               q # Query(p) \/ k # exec[p].step => files'[q][k] = files[q][k]
      BY <1>0, <3>1, ContentKind
    <3>3. \A r \in Procs \ {p} : exec'[r] = exec[r]
      BY <2>1 DEF Others
    <3> QED
      BY <2>1, <3>2, <3>3 DEF TornInv, Query
  <2>4. CASE ReuseFile(p) \/ FileMissing(p)
    <3>1. exec[p].phase # "close" /\ files' = files
      BY <2>4 DEF ReuseFile, FileMissing, AtFile
    <3> QED
      BY <1>1, <2>1, <3>1
  <2>5. CASE \/ MarkRunning(p) \/ SatAnswers(p) \/ InsertRequest(p) \/ DownloadPackage(p)
             \/ Commit(p)
    <3>1. exec[p].step \notin Kinds /\ files' = files
      BY <2>5 DEF MarkRunning, SatAnswers, InsertRequest, DownloadPackage, Commit, At, Kinds
    <3> QED
      BY <1>1, <1>2, <2>1, <3>1
  <2> QED
    BY <1>9, <2>2, <2>3, <2>4, <2>5 DEF Works
<1>10. ASSUME NEW p \in Procs, ReportProgress(p) PROVE TornInv'
  <2>1. exec[p].phase # "close"
    BY <1>2, <1>10 DEF ReportProgress, At, Kinds
  <2> QED
    BY <1>0, <1>1, <1>10, <2>1, ReportFields
<1>11. CASE UNCHANGED vars
  BY <1>11 DEF vars, TornInv, Query
<1> QED
  BY <1>3, <1>4, <1>5, <1>6, <1>7, <1>8, <1>9, <1>10, <1>11, NextKinds

LEMMA UnpublishedInvStep == DeliveryInv /\ UnpublishedInv /\ [Next]_vars => UnpublishedInv'
<1> SUFFICES ASSUME DeliveryInv, UnpublishedInv, [Next]_vars PROVE UnpublishedInv'
  OBVIOUS
<1>0. /\ MessageInv /\ JobTypes /\ PublishInv
      /\ \A r \in Procs : Regular(r) /\ Query(r) \in Queries
  BY QueryTypes DEF DeliveryInv, MessageInv
<1>1. requests \subseteq Queries /\ published \subseteq Queries /\ queue \in Seq(Queries)
      /\ Elems(queue) \subseteq Queries
  BY <1>0 DEF JobTypes, Elems
\* A step of a process that does not become active, moves no message to a queue and
\* changes no row.
<1>2. ASSUME NEW p \in Procs, Others(p), ~Active(p)', ~exec'[p].held,
             UNCHANGED <<job, requests>>, published \subseteq published',
             \A q \in Elems(queue') : q \in published'
      PROVE  UnpublishedInv'
  <2>1. \A r \in Procs : Active(r)' => r # p /\ Active(r) /\ Query(r)' = Query(r)
    BY <1>2 DEF Others, Active, Query
  <2>2. \A r \in Procs : exec'[r].held => exec[r].held /\ Query(r)' = Query(r)
    BY <1>2 DEF Others, Query
  <2>3. \A r \in Procs : r # p => (Recorded(r)' <=> Recorded(r))
    BY <1>2 DEF Others, Recorded
  <2> QED
    BY <1>2, <2>1, <2>2, <2>3 DEF UnpublishedInv
<1>3. ASSUME NEW p \in Procs, Begins(p) PROVE UnpublishedInv'
  <2>1. ~Active(p)' /\ ~exec'[p].held /\ Others(p)
        /\ UNCHANGED <<job, requests, published, queue>>
    BY <1>3 DEF Begins, Active, Handling, database
  <2> QED
    BY <1>2, <2>1 DEF UnpublishedInv
<1>4. ASSUME NEW p \in Procs, Consume(p) PROVE UnpublishedInv'
  <2>1. /\ Others(p) /\ queue # <<>> /\ queue' = Tail(queue) /\ exec'[p].step = "start"
        /\ exec'[p].query = Head(queue) /\ UNCHANGED <<job, requests, published>>
    BY <1>0, <1>4, ConsumeFields
  <2>2. Head(queue) \in published /\ Elems(Tail(queue)) \subseteq Elems(queue)
    BY <1>1, <2>1, TailElems DEF UnpublishedInv
  <2>3. job[Head(queue)] # "none"
    BY <1>0, <2>2 DEF PublishInv
  <2>4. Query(p)' = Head(queue) /\ \A r \in Procs \ {p} : exec'[r] = exec[r]
    BY <2>1 DEF Others, Query
  <2>5. \A r \in Procs \ {p} : /\ Query(r)' = Query(r) /\ (Active(r)' <=> Active(r))
                               /\ (Recorded(r)' <=> Recorded(r))
    BY <2>4 DEF Query, Active, Recorded
  <2>6. \A q \in Elems(queue') : q \in published'
    BY <2>1, <2>2 DEF UnpublishedInv
  <2> QED
    BY <2>1, <2>2, <2>3, <2>4, <2>5, <2>6 DEF UnpublishedInv
<1>5. ASSUME NEW p \in Procs, Creates(p) PROVE UnpublishedInv'
  <2>1. /\ Others(p) /\ exec'[p].query = Query(p) /\ exec'[p].held = exec[p].held
        /\ exec'[p].step \in {"publish", "start"}
        /\ job[Query(p)] = "none" /\ job'[Query(p)] \in {"pending", "running"}
        /\ \A q \in Queries \ {Query(p)} : job'[q] = job[q]
        /\ UNCHANGED <<requests, queue, published>>
    BY <1>5 DEF Creates
  <2>2. Query(p) \notin requests /\ Query(p) \notin published
        /\ \A r \in Procs : Active(r) => Query(r) # Query(p)
    BY <1>0, <2>1 DEF UnpublishedInv, PublishInv
  <2>3. Query(p)' = Query(p) /\ \A r \in Procs \ {p} : exec'[r] = exec[r]
    BY <2>1 DEF Others, Query
  <2>4. \A r \in Procs \ {p} : /\ Query(r)' = Query(r) /\ (Active(r)' <=> Active(r))
                               /\ (Recorded(r)' <=> Recorded(r))
    BY <2>3 DEF Query, Active, Recorded
  <2>5. \A q \in Queries : job[q] # "none" => job'[q] # "none"
    BY <2>1
  <2>6. \A q \in requests : job'[q] # "none"
    BY <1>1, <2>5 DEF UnpublishedInv
  <2>7. \A r \in Procs : exec'[r].held => exec[r].held /\ Query(r)' = Query(r)
    BY <2>1, <2>3, <2>4
  <2>8. \A r \in Procs : Active(r)' => job'[Query(r)'] # "none"
    BY <1>0, <2>1, <2>3, <2>4, <2>5 DEF UnpublishedInv
  <2>9. \A r \in Procs : Active(r)' /\ Query(r)' \in requests \ published => Recorded(r)'
    BY <2>2, <2>3, <2>4 DEF UnpublishedInv
  <2>10. \A r, s \in Procs :
           Active(r)' /\ Active(s)' /\ Query(r)' = Query(s)' /\ Query(r)' \notin published => r = s
    BY <2>2, <2>3, <2>4 DEF UnpublishedInv
  <2> QED
    BY <2>1, <2>6, <2>7, <2>8, <2>9, <2>10 DEF UnpublishedInv
<1>6. ASSUME NEW p \in Procs, Publish(p) PROVE UnpublishedInv'
  <2>1. /\ Others(p) /\ exec'[p] = Idle /\ queue' = Append(queue, Query(p))
        /\ published' = published \cup {Query(p)} /\ UNCHANGED <<job, requests>>
    BY <1>0, <1>6, DoneFields DEF Publish, database
  <2>2. \A q \in Elems(queue') : q \in published'
    BY <1>0, <1>1, <2>1, AppendElems DEF UnpublishedInv
  <2>3. ~Active(p)' /\ ~exec'[p].held
    BY <2>1, IdleExec DEF Active, Handling
  <2> QED
    BY <1>2, <2>1, <2>2, <2>3
<1>7. ASSUME NEW p \in Procs, ConnectionLost(p) PROVE UnpublishedInv'
  <2>1. /\ Others(p) /\ exec[p].held /\ ~exec'[p].held
        /\ exec'[p].step = exec[p].step /\ exec'[p].query = exec[p].query
        /\ queue' = GivenBack(Query(p), queue) /\ UNCHANGED <<job, requests, published>>
    BY <1>0, <1>7, LostFields
  <2>2. \A q \in Elems(queue') : q \in published'
    <3>1. Elems(GivenBack(Query(p), queue)) = Elems(queue) \cup {Query(p)}
      BY <1>0, <1>1, ConsElems
    <3>2. Elems(queue') = Elems(queue) \/ Elems(queue') = Elems(queue) \cup {Query(p)}
      BY <2>1, <3>1
    <3>3. Elems(queue) \subseteq published /\ (exec[p].held => Query(p) \in published)
      BY DEF UnpublishedInv
    <3>4. queue' # queue => exec[p].held
      BY <2>1
    <3> QED
      BY <2>1, <3>2, <3>3, <3>4
  <2>3. \A r \in Procs : /\ Query(r)' = Query(r) /\ (Active(r)' <=> Active(r))
                         /\ (Recorded(r)' <=> Recorded(r))
                         /\ exec'[r].held => exec[r].held
    BY <2>1 DEF Others, Query, Active, Recorded
  <2> QED
    BY <2>1, <2>2, <2>3 DEF UnpublishedInv
<1>8. ASSUME NEW p \in Procs, Stops(p) PROVE UnpublishedInv'
  <2>1. /\ Others(p) /\ exec'[p] = Idle /\ UNCHANGED <<job, requests, published>>
        /\ queue' = queue \/ (exec[p].held /\ queue' = GivenBack(Query(p), queue))
    BY <1>8 DEF Stops, database
  <2>2. \A q \in Elems(queue') : q \in published'
    <3>1. Elems(GivenBack(Query(p), queue)) = Elems(queue) \cup {Query(p)}
      BY <1>0, <1>1, ConsElems
    <3>2. Elems(queue') = Elems(queue) \/ Elems(queue') = Elems(queue) \cup {Query(p)}
      BY <2>1, <3>1
    <3>3. Elems(queue) \subseteq published /\ (exec[p].held => Query(p) \in published)
      BY DEF UnpublishedInv
    <3>4. queue' # queue => exec[p].held
      BY <2>1
    <3> QED
      BY <2>1, <3>2, <3>3, <3>4
  <2>3. ~Active(p)' /\ ~exec'[p].held
    BY <2>1, IdleExec DEF Active, Handling
  <2> QED
    BY <1>2, <2>1, <2>2, <2>3
<1>9. ASSUME NEW p \in Procs, Works(p), Continues(p) PROVE UnpublishedInv'
  <2>1. /\ Others(p) /\ exec[p].step \in Handling /\ exec'[p].step \in Handling
        /\ exec'[p].query = Query(p) /\ exec'[p].held = exec[p].held
        /\ \A q \in Queries : job[q] # "none" => job'[q] # "none"
        /\ UNCHANGED <<queue, published>>
    BY <1>9 DEF Continues
  <2>2. /\ ~Recorded(p)
        /\ \/ requests' = requests
           \/ Recorded(p)' /\ requests' = requests \cup {Query(p)}
    BY <1>0, <1>9, WorkFields DEF Recorded
  <2>3. \A r \in Procs : /\ Query(r)' = Query(r) /\ (Active(r)' <=> Active(r))
                         /\ exec'[r].held = exec[r].held
                         /\ r # p => (Recorded(r)' <=> Recorded(r))
    BY <2>1 DEF Others, Query, Active, Recorded
  <2>4. Active(p) /\ Query(p) \notin requests \ published
    BY <2>1, <2>2 DEF Active, UnpublishedInv
  <2>5. \A q \in requests' : job'[q] # "none"
    BY <1>0, <1>1, <2>1, <2>2, <2>4 DEF UnpublishedInv
  <2>6. \A r \in Procs : Active(r)' => job'[Query(r)'] # "none"
    BY <1>0, <2>1, <2>3 DEF UnpublishedInv
  <2>7. ASSUME NEW r \in Procs, Active(r)', Query(r)' \in requests' \ published
        PROVE  Recorded(r)'
    <3>1. CASE r = p
      BY <2>1, <2>2, <2>3, <2>4, <2>7, <3>1
    <3>2. CASE r # p
      <4>1. Query(r) # Query(p)
        BY <2>3, <2>4, <2>7, <3>2 DEF UnpublishedInv
      <4> QED
        BY <2>2, <2>3, <2>7, <3>2, <4>1 DEF UnpublishedInv
    <3> QED
      BY <3>1, <3>2
  <2>8. \A r, s \in Procs :
          Active(r)' /\ Active(s)' /\ Query(r)' = Query(s)' /\ Query(r)' \notin published => r = s
    BY <2>3 DEF UnpublishedInv
  <2> QED
    BY <2>1, <2>3, <2>5, <2>6, <2>7, <2>8 DEF UnpublishedInv
<1>10. ASSUME NEW p \in Procs, ReportProgress(p) PROVE UnpublishedInv'
  <2>1. /\ Others(p) /\ At(p, "cache") /\ exec'[p].step = "ack" /\ exec'[p].query = Query(p)
        /\ exec'[p].held = exec[p].held /\ UNCHANGED <<job, requests, queue, published>>
    BY <1>0, <1>10, ReportFields
  <2>2. \A r \in Procs : /\ Query(r)' = Query(r) /\ (Active(r)' <=> Active(r))
                         /\ exec'[r].held = exec[r].held /\ (Recorded(r)' <=> Recorded(r))
    BY <2>1 DEF Others, Query, Active, Recorded, At, Handling, Steps
  <2> QED
    BY <2>1, <2>2 DEF UnpublishedInv
<1>11. CASE UNCHANGED vars
  BY <1>11 DEF vars, UnpublishedInv, Active, Recorded, Query
<1> QED
  BY <1>0, <1>3, <1>4, <1>5, <1>6, <1>7, <1>8, <1>9, <1>10, <1>11, NextKinds

LEMMA SingleInvStep == DeliveryInv /\ SingleInv /\ [Next]_vars => SingleInv'
<1> SUFFICES ASSUME DeliveryInv, SingleInv, [Next]_vars, faults'.losses = 0 PROVE SingleInv'
  BY DEF SingleInv
<1>0. /\ MessageInv /\ JobTypes /\ PublishInv /\ Exclusive
      /\ \A r \in Procs : Regular(r) /\ Query(r) \in Queries
  BY QueryTypes DEF DeliveryInv, MessageInv
\* Nothing changes but what the process does, and it does not handle a job afterwards.
<1>1. ASSUME NEW p \in Procs, Others(p), exec'[p].step \notin Handling, faults.losses = 0,
             UNCHANGED <<job, published>>
      PROVE  SingleInv'
  <2>1. \A r \in Procs : exec'[r].step \in Handling =>
          exec'[r] = exec[r] /\ Query(r)' = Query(r) /\ (Recorded(r)' <=> Recorded(r))
    BY <1>1 DEF Others, Query, Recorded
  <2>2. \A r \in Procs : Recorded(r)' => exec'[r].step \in Handling
    BY DEF Recorded, Handling, Steps
  <2> QED
    BY <1>1, <2>1, <2>2 DEF SingleInv
<1>2. ASSUME NEW p \in Procs, Begins(p) PROVE SingleInv'
  BY <1>1, <1>2 DEF Begins, Handling, database
<1>3. ASSUME NEW p \in Procs, Consume(p) PROVE SingleInv'
  <2>1. /\ Others(p) /\ exec'[p].step = "start" /\ exec'[p].held
        /\ UNCHANGED <<job, published, faults>>
    BY <1>0, <1>3, ConsumeFields
  <2>2. \A r \in Procs \ {p} : exec'[r] = exec[r] /\ Query(r)' = Query(r)
    BY <2>1 DEF Others, Query
  <2> QED
    BY <2>1, <2>2 DEF SingleInv, Recorded
<1>4. ASSUME NEW p \in Procs, Creates(p) PROVE SingleInv'
  <2>1. /\ Others(p) /\ exec'[p].query = Query(p) /\ exec'[p].step \in {"publish", "start"}
        /\ job[Query(p)] = "none" /\ UNCHANGED <<published, faults>>
        /\ \A q \in Queries \ {Query(p)} : job'[q] = job[q]
    BY <1>4 DEF Creates
  <2>2. Query(p) \notin published
    BY <1>0, <2>1 DEF PublishInv
  <2>3. \A r \in Procs \ {p} : exec'[r] = exec[r] /\ Query(r)' = Query(r)
    BY <2>1 DEF Others, Query
  <2>4. Query(p)' = Query(p)
    BY <2>1 DEF Query
  <2> QED
    BY <1>0, <2>1, <2>2, <2>3, <2>4 DEF SingleInv, Recorded
<1>5. ASSUME NEW p \in Procs, Publish(p) PROVE SingleInv'
  <2>1. /\ Others(p) /\ exec'[p] = Idle /\ At(p, "publish") /\ UNCHANGED <<job, faults>>
        /\ published' = published \cup {Query(p)}
    BY <1>0, <1>5, DoneFields DEF Publish, database
  <2>2. Busy(p) /\ \A r \in Procs : exec[r].step \in Handling => Busy(r) /\ r # p
    BY <2>1 DEF Busy, Carries, At, Handling
  <2>3. \A r \in Procs : exec[r].step \in Handling => Query(r) # Query(p)
    BY <1>0, <2>2 DEF Exclusive
  <2>4. \A r \in Procs : exec'[r].step \in Handling =>
          exec'[r] = exec[r] /\ Query(r)' = Query(r) /\ (Recorded(r)' <=> Recorded(r))
    BY <2>1, IdleExec DEF Others, Query, Recorded, Handling
  <2>5. \A r \in Procs : Recorded(r)' => exec'[r].step \in Handling
    BY DEF Recorded, Handling, Steps
  <2> QED
    BY <2>1, <2>3, <2>4, <2>5 DEF SingleInv
<1>6. ASSUME NEW p \in Procs, ConnectionLost(p) PROVE FALSE
  BY <1>0, <1>6, LostFields
<1>7. ASSUME NEW p \in Procs, Stops(p) PROVE SingleInv'
  <2>1. exec'[p].step \notin Handling
    BY <1>7, IdleExec DEF Stops, Handling
  <2> QED
    BY <1>1, <1>7, <2>1 DEF Stops, database
<1>8. ASSUME NEW p \in Procs, Works(p), Continues(p) PROVE SingleInv'
  <2>1. /\ Others(p) /\ exec[p].step \in Handling
        /\ exec'[p].query = Query(p) /\ exec'[p].held = exec[p].held
        /\ UNCHANGED <<published, faults>>
    BY <1>8 DEF Continues
  <2>2. /\ \A q \in Queries \ {Query(p)} : job'[q] = job[q]
        /\ Recorded(p)' => job'[Query(p)] = "succeeded"
    BY <1>0, <1>8, WorkFields
  <2>3. \A r \in Procs : exec[r].step \in Handling => Busy(r)
    BY <2>1 DEF Busy
  <2>4. \A r \in Procs \ {p} : exec[r].step \in Handling => Query(r) # Query(p)
    BY <1>0, <2>1, <2>3 DEF Exclusive
  <2>5. Query(p)' = Query(p)
        /\ \A r \in Procs \ {p} : exec'[r] = exec[r] /\ Query(r)' = Query(r)
    BY <2>1 DEF Others, Query
  <2>6. \A r \in Procs : Recorded(r) => exec[r].step \in Handling
    BY DEF Recorded, Handling, Steps
  <2> QED
    BY <1>0, <2>1, <2>2, <2>4, <2>5, <2>6 DEF SingleInv, Recorded
<1>9. ASSUME NEW p \in Procs, ReportProgress(p) PROVE SingleInv'
  <2>1. /\ Others(p) /\ At(p, "cache") /\ exec'[p].step = "ack" /\ exec'[p].query = Query(p)
        /\ exec'[p].held = exec[p].held /\ UNCHANGED <<job, published, faults>>
    BY <1>0, <1>9, ReportFields
  <2>2. \A r \in Procs : /\ Query(r)' = Query(r) /\ exec'[r].held = exec[r].held
                         /\ (Recorded(r)' <=> Recorded(r))
                         /\ (exec'[r].step \in Handling <=> exec[r].step \in Handling)
    BY <2>1 DEF Others, Query, Recorded, At, Handling, Steps
  <2> QED
    BY <2>1, <2>2 DEF SingleInv
<1>10. CASE UNCHANGED vars
  BY <1>10 DEF vars, SingleInv, Recorded, Query
<1> QED
  BY <1>0, <1>2, <1>3, <1>4, <1>5, <1>6, <1>7, <1>8, <1>9, <1>10, NextKinds

\* What accounts for an unfinished job.
Accounted(q) ==
  \/ q \in Elems(queue)
  \/ \E p \in Procs : Query(p) = q /\ Active(p)
  \/ q \notin published /\ faults.failures + faults.crashes > 0
  \/ q \in requests /\ faults.losses > 0

Unfinished(q) == job[q] \in {"pending", "running"}

LEMMA AccountedIs ==
  JobTypes => (OnlyAccidentsStrand <=> \A q \in Queries : Unfinished(q) => Accounted(q))
<1> SUFFICES ASSUME JobTypes
             PROVE  OnlyAccidentsStrand <=> \A q \in Queries : Unfinished(q) => Accounted(q)
  OBVIOUS
<1>1. \A q \in Queries : Waiting(q) <=> q \in Elems(queue)
  BY DEF Waiting, Elems
<1>2. \A p \in Procs : exec[p].step \notin {"idle", "create"} <=> Active(p)
  BY QueryTypes DEF Exec, Steps, Active, Handling
<1> QED
  BY <1>1, <1>2 DEF OnlyAccidentsStrand, Accounted, Unfinished, WorkedOn

StrandInv == DeliveryInv /\ TornInv /\ UnpublishedInv /\ SingleInv /\ OnlyAccidentsStrand

\* A process that stops leaves its unfinished job with a message, or an accident explains it.
LEMMA StopAccounts ==
  ASSUME StrandInv, NEW p \in Procs, Ends(p), Stops(p), Active(p), Unfinished(Query(p))
  PROVE  \E q \in Queries : q = Query(p) /\ Accounted(q)'
<1>0. /\ MessageInv /\ JobTypes /\ PublishInv /\ Exclusive /\ Remembered
      /\ UnpublishedInv /\ TornInv /\ SingleInv
      /\ \A r \in Procs : Regular(r) /\ Query(r) \in Queries
  BY QueryTypes DEF StrandInv, DeliveryInv, MessageInv
<1> PICK q \in Queries : q = Query(p)
  BY <1>0
<1>1. /\ Others(p) /\ exec'[p] = Idle /\ UNCHANGED <<job, requests, files, published>>
      /\ faults'.losses = faults.losses
      /\ faults.losses \in Nat /\ faults.crashes \in Nat /\ faults.failures \in Nat
  BY <1>0 DEF Stops, JobTypes, database
<1>2. CASE Ack(p)
  <2>1. At(p, "ack") /\ q \in requests
    BY <1>0, <1>2 DEF Ack, Regular, Recorded, At
  <2>2. faults.losses > 0
    BY <1>0, <1>1, <2>1 DEF SingleInv, Unfinished, Recorded, At
  <2> QED
    BY <1>1, <2>1, <2>2 DEF Accounted
<1>3. CASE exec[p].held /\ ~Ack(p)
  <2>1. queue' = GivenBack(q, queue)
    BY <1>0, <1>3 DEF Ends, StorageCollision, DuplicateRequest, Failure, Crash, Raise, Requeue,
                      GivenBack, Regular, At, Handling
  <2>2. q \in Elems(GivenBack(q, queue))
    BY <1>0, ConsElems DEF JobTypes
  <2> QED
    BY <2>1, <2>2 DEF Accounted
<1>4. CASE ~exec[p].held /\ ~Ack(p) /\ q \notin published
  <2>1. CASE Failure(p) \/ Crash(p)
    <3>1. faults'.failures + faults'.crashes > 0
      BY <1>0, <2>1, FaultsGrow
    <3> QED
      BY <1>1, <1>4, <3>1 DEF Accounted
  <2>2. CASE StorageCollision(p)
    <3> DEFINE k == exec[p].step
    <3>1. k \in Kinds /\ files[q][k] = "torn" /\ exec[p].phase = "check" /\ faults' = faults
      BY <2>2 DEF StorageCollision, AtFile, Content
    <3>2. ASSUME faults.failures + faults.crashes = 0 PROVE FALSE
      <4>1. PICK r \in Procs : Query(r) = q /\ exec[r].step = k /\ exec[r].phase = "close"
        BY <1>0, <3>1, <3>2 DEF TornInv
      <4>2. Active(r)
        BY <3>1, <4>1 DEF Active, Handling, Steps, Kinds
      <4>3. r = p
        BY <1>0, <1>4, <4>1, <4>2 DEF UnpublishedInv
      <4> QED
        BY <3>1, <4>1, <4>3
    <3> QED
      BY <1>1, <1>4, <3>1, <3>2 DEF Accounted
  <2>3. CASE DuplicateRequest(p)
    BY <1>0, <1>4, <2>3 DEF DuplicateRequest, UnpublishedInv, Recorded, At
  <2> QED
    BY <1>4, <2>1, <2>2, <2>3 DEF Ends, Active, At, Handling
<1>5. CASE ~exec[p].held /\ ~Ack(p) /\ q \in published
  <2>1. exec[p].step \in Handling
    BY <1>0, <1>5 DEF Active, PublishInv, At
  <2>2. faults.losses > 0
    BY <1>0, <1>1, <1>5, <2>1 DEF SingleInv
  <2>3. queue' = queue
    BY <1>5 DEF Stops
  <2>4. CASE q \in requests
    BY <1>1, <2>2, <2>4 DEF Accounted
  <2>5. CASE q \in Elems(queue)
    BY <2>3, <2>5 DEF Accounted
  <2>6. CASE \E r \in Procs : exec[r].held /\ Query(r) = q
    <3>1. PICK r \in Procs : exec[r].held /\ Query(r) = q
      BY <2>6
    <3>2. r # p /\ exec[r].step \in Handling
      BY <1>0, <1>5, <3>1 DEF Regular
    <3>3. Query(r)' = q /\ Active(r)'
      BY <1>1, <3>1, <3>2 DEF Others, Query, Active
    <3> QED
      BY <3>3 DEF Accounted
  <2> QED
    BY <1>0, <1>5, <2>4, <2>5, <2>6 DEF Remembered
<1> QED
  BY <1>2, <1>3, <1>4, <1>5

LEMMA StrandStep == StrandInv /\ MessageInv' /\ [Next]_vars => OnlyAccidentsStrand'
<1> SUFFICES ASSUME StrandInv, MessageInv', [Next]_vars,
                    NEW q \in Queries, Unfinished(q)'
             PROVE  Accounted(q)'
  <2>1. (JobTypes => (OnlyAccidentsStrand <=> \A q \in Queries : Unfinished(q) => Accounted(q)))'
    BY AccountedIs, PTL
  <2> QED
    BY <2>1 DEF MessageInv
<1>0. /\ MessageInv /\ JobTypes /\ \A r \in Procs : Query(r) \in Queries
      /\ Unfinished(q) => Accounted(q)
  BY QueryTypes, AccountedIs DEF StrandInv, DeliveryInv, MessageInv
<1>00. faults.losses \in Nat /\ faults.crashes \in Nat /\ faults.failures \in Nat
       /\ queue \in Seq(Queries)
  BY <1>0 DEF JobTypes
\* Nothing that accounts for the job goes away but the process that makes the step.
<1>1. ASSUME NEW p \in Procs, Others(p), Accounted(q), q \in Elems(queue) => q \in Elems(queue'),
             Active(p) /\ Query(p) = q => Accounted(q)',
             q \notin published => q \notin published', requests \subseteq requests',
             faults.failures + faults.crashes > 0 => faults'.failures + faults'.crashes > 0,
             faults.losses > 0 => faults'.losses > 0
      PROVE  Accounted(q)'
  <2>1. CASE \E r \in Procs : Query(r) = q /\ Active(r)
    <3>1. PICK r \in Procs : Query(r) = q /\ Active(r)
      BY <2>1
    <3>2. CASE r # p
      <4>1. Query(r)' = q /\ Active(r)'
        BY <1>1, <3>1, <3>2 DEF Others, Query, Active
      <4> QED
        BY <4>1 DEF Accounted
    <3> QED
      BY <1>1, <3>1, <3>2
  <2> QED
    BY <1>1, <2>1 DEF Accounted
<1>2. ASSUME NEW p \in Procs, Begins(p), At(p, "idle") PROVE Accounted(q)'
  <2>1. ~Active(p) /\ Others(p) /\ UNCHANGED <<job, requests, queue, published, faults>>
    BY <1>2 DEF Begins, Active, At, Handling, database
  <2> QED
    BY <1>0, <1>1, <2>1 DEF Unfinished
<1>3. ASSUME NEW p \in Procs, Consume(p) PROVE Accounted(q)'
  <2>1. /\ Others(p) /\ At(p, "idle") /\ queue # <<>> /\ queue' = Tail(queue)
        /\ exec'[p].step = "start" /\ exec'[p].query = Head(queue)
        /\ UNCHANGED <<job, requests, published, faults>>
    BY <1>0, <1>3, ConsumeFields
  <2>2. ~Active(p) /\ Active(p)' /\ Query(p)' = Head(queue)
    BY <2>1 DEF Active, At, Handling, Steps, Query
  <2>3. CASE q = Head(queue)
    BY <2>2, <2>3 DEF Accounted
  <2>4. CASE q # Head(queue)
    <3>1. q \in Elems(queue) => q \in Elems(queue')
      BY <1>00, <2>1, <2>4, TailElems
    <3> QED
      BY <1>0, <1>1, <2>1, <2>2, <3>1 DEF Unfinished
  <2> QED
    BY <2>3, <2>4
<1>4. ASSUME NEW p \in Procs, Creates(p) PROVE Accounted(q)'
  <2>1. /\ Others(p) /\ At(p, "create") /\ exec'[p].query = Query(p)
        /\ exec'[p].step \in {"publish", "start"}
        /\ \A x \in Queries \ {Query(p)} : job'[x] = job[x]
        /\ UNCHANGED <<requests, queue, published, faults>>
    BY <1>4 DEF Creates
  <2>2. ~Active(p) /\ Active(p)' /\ Query(p)' = Query(p)
    BY <2>1 DEF Active, At, Handling, Steps, Query
  <2>3. CASE q = Query(p)
    BY <2>2, <2>3 DEF Accounted
  <2>4. CASE q # Query(p)
    BY <1>0, <1>1, <2>1, <2>2, <2>4 DEF Unfinished
  <2> QED
    BY <2>3, <2>4
<1>5. ASSUME NEW p \in Procs, Publish(p) PROVE Accounted(q)'
  <2>1. /\ Others(p) /\ queue' = Append(queue, Query(p)) /\ published' = published \cup {Query(p)}
        /\ UNCHANGED <<job, requests, faults>>
    BY <1>0, <1>5, DoneFields DEF Publish, database
  <2>2. Elems(queue') = Elems(queue) \cup {Query(p)}
    BY <1>0, <1>00, <2>1, AppendElems
  <2>3. CASE q = Query(p)
    BY <2>2, <2>3 DEF Accounted
  <2>4. CASE q # Query(p)
    BY <1>0, <1>1, <2>1, <2>2, <2>4 DEF Unfinished
  <2> QED
    BY <2>3, <2>4
<1>6. ASSUME NEW p \in Procs, ConnectionLost(p) PROVE Accounted(q)'
  <2>1. /\ Others(p) /\ exec'[p].step = exec[p].step /\ exec'[p].query = exec[p].query
        /\ queue' = GivenBack(Query(p), queue) /\ faults'.losses > 0
        /\ faults'.crashes = faults.crashes /\ faults'.failures = faults.failures
        /\ UNCHANGED <<job, requests, published>>
    BY <1>0, <1>6, LostFields
  <2>2. Elems(GivenBack(Query(p), queue)) = Elems(queue) \cup {Query(p)}
    BY <1>0, <1>00, ConsElems
  <2>3. Active(p) /\ Query(p) = q => Accounted(q)'
    BY <2>1 DEF Accounted, Active, Query
  <2> QED
    BY <1>0, <1>1, <2>1, <2>2, <2>3 DEF Unfinished
<1>7. ASSUME NEW p \in Procs, Works(p), Continues(p) PROVE Accounted(q)'
  <2>1. /\ Others(p) /\ exec'[p].step \in Handling /\ exec'[p].query = Query(p)
        /\ requests \subseteq requests' /\ UNCHANGED <<queue, published, faults>>
    BY <1>7 DEF Continues
  <2>2. Active(p)' /\ Query(p)' = Query(p)
    BY <2>1 DEF Active, Query
  <2>3. CASE q = Query(p)
    BY <2>2, <2>3 DEF Accounted
  <2>4. CASE q # Query(p)
    <3>1. job'[q] = job[q]
      BY <1>0, <1>7, <2>4, WorkFields
    <3> QED
      BY <1>0, <1>1, <2>1, <2>4, <3>1 DEF Unfinished
  <2> QED
    BY <2>3, <2>4
<1>8. ASSUME NEW p \in Procs, Ends(p), Stops(p) PROVE Accounted(q)'
  <2>1. /\ Others(p) /\ UNCHANGED <<job, requests, published>>
        /\ queue' = queue \/ queue' = GivenBack(Query(p), queue)
        /\ faults'.losses = faults.losses
    BY <1>8 DEF Stops, database
  <2>2. faults.failures + faults.crashes > 0 => faults'.failures + faults'.crashes > 0
    BY <1>0, <1>00, <1>8 DEF Ends, Ack, StorageCollision, DuplicateRequest, Failure, Crash, JobTypes
  <2>3. Unfinished(q)
    BY <2>1 DEF Unfinished
  <2>4. Active(p) /\ Query(p) = q => Accounted(q)'
    BY <1>8, <2>3, StopAccounts
  <2>5. Elems(GivenBack(Query(p), queue)) = Elems(queue) \cup {Query(p)}
    BY <1>0, <1>00, ConsElems
  <2>6. q \in Elems(queue) => q \in Elems(queue')
    BY <2>1, <2>5
  <2> QED
    BY <1>0, <1>1, <2>1, <2>2, <2>3, <2>4, <2>6
<1>9. ASSUME NEW p \in Procs, ReportProgress(p) PROVE Accounted(q)'
  <2>1. /\ Others(p) /\ exec'[p].step = "ack" /\ exec'[p].query = Query(p)
        /\ UNCHANGED <<job, requests, queue, published, faults>>
    BY <1>0, <1>9, ReportFields
  <2>2. Active(p)' /\ Query(p)' = Query(p)
    BY <2>1 DEF Active, Query, Handling, Steps
  <2>3. Active(p) /\ Query(p) = q => Accounted(q)'
    BY <2>2 DEF Accounted
  <2> QED
    BY <1>0, <1>1, <2>1, <2>3 DEF Unfinished
<1>10. CASE UNCHANGED vars
  BY <1>0, <1>10 DEF vars, Accounted, Unfinished, Active, Query
<1> QED
  BY <1>0, <1>2, <1>3, <1>4, <1>5, <1>6, <1>7, <1>8, <1>9, <1>10, NextKinds

LEMMA StrandInvInit == Init => StrandInv
<1> SUFFICES ASSUME Init PROVE StrandInv
  OBVIOUS
<1>1. \A p \in Procs : exec[p].step = "idle" /\ ~exec[p].held
  BY IdleExec DEF Init
<1>2. Elems(queue) = {}
  BY DEF Init, Elems
<1>3. TornInv /\ UnpublishedInv /\ SingleInv
  BY <1>1, <1>2 DEF Init, TornInv, UnpublishedInv, SingleInv, Active, Handling, Recorded, Kinds
<1>4. OnlyAccidentsStrand
  BY DEF Init, OnlyAccidentsStrand
<1> QED
  BY <1>3, <1>4, DeliveryInvInit DEF StrandInv

LEMMA StrandInvStep == StrandInv /\ [Next]_vars => StrandInv'
<1> SUFFICES ASSUME StrandInv, [Next]_vars PROVE StrandInv'
  OBVIOUS
<1>1. DeliveryInv' /\ MessageInv /\ MessageInv'
  BY DeliveryInvStep DEF StrandInv, DeliveryInv
<1>2. TornInv'
  BY <1>1, TornInvStep DEF StrandInv
<1>3. UnpublishedInv'
  BY UnpublishedInvStep DEF StrandInv
<1>4. SingleInv'
  BY SingleInvStep DEF StrandInv
<1>5. OnlyAccidentsStrand'
  BY <1>1, StrandStep
<1> QED
  BY <1>1, <1>2, <1>3, <1>4, <1>5 DEF StrandInv

-----------------------------------------------------------------------------
(* Theorems. *)

\* There is never more than one message for a criteria hash, queued or being handled,
\* whatever sync commands, workers, crashes and lost broker connections there are.
THEOREM OneMessage == Spec => []OneMessagePerJob
<1>1. MessageInv => OneMessagePerJob
  BY CopiesOf DEF OneMessagePerJob
<1> QED
  BY <1>1, MessageInvInit, MessageInvStep, PTL DEF Spec

\* At-least-once delivery: publish, consume_one_with_handler, its nack with requeue and
\* the acknowledgement after the commit never lose the message of an unrecorded job.
THEOREM MessagesRemembered == Spec => []PublishedNotForgotten
<1>1. MessageInv => PublishedNotForgotten
  BY CopiesOf DEF PublishedNotForgotten, MessageInv, Remembered
<1> QED
  BY <1>1, MessageInvInit, MessageInvStep, PTL DEF Spec

\* The transaction of _process_sat_request_job comes after every write: until a delivery
\* is handed out twice, no row points at a missing or torn file, whatever crashes.
THEOREM RowsAreBacked == Spec => []RowsHaveFiles
<1>1. FileInv => RowsHaveFiles
  BY DEF FileInv, RowsInv, RowsHaveFiles
<1>2. Init => MessageInv /\ FileInv
  BY MessageInvInit, FileInvInit
<1>3. (MessageInv /\ FileInv) /\ [Next]_vars => (MessageInv /\ FileInv)'
  BY MessageInvStep, FileInvStep
<1> QED
  BY <1>1, <1>2, <1>3, PTL DEF Spec

\* ImplementsDelivery: sync_metadata, RabbitMqQueue.publish, consume_one_with_handler and the
\* handler implement JobDelivery, for any number of processes and jobs, with failures, crashes
\* and lost connections.
THEOREM JobsAreDelivered == Spec => ImplementsDelivery
<1>1. Spec => Broker!DeliveryInit /\ [][Broker!DeliveryNext]_Broker!deliveryVars
  BY DeliveryStarts, DeliveryStep, DeliveryInvInit, DeliveryInvStep, PTL DEF Spec
<1> QED
  BY <1>1 DEF ImplementsDelivery, Broker!Delivery

\* The database makes the flush of the request row wait for the transaction that holds the
\* same id_solicitud: a delivery that is handled twice is recorded once.
THEOREM JobsAreRecordedOnce == Spec => RecordedOnce
<1> DEFINE Once == \A p \in Procs : At(p, "commit") /\ exec'[p].step = "cache"
                                    => Query(p) \notin requests
<1>1. TransactionInv => Once
  BY DEF TransactionInv, InTransaction, Transaction, At
<1>2. MessageInv /\ TransactionInv /\ [Next]_vars => [Once]_vars
  BY <1>1
<1> QED
  BY <1>2, MessageInvInit, MessageInvStep, TransactionInvInit, TransactionInvStep, PTL
     DEF Spec, RecordedOnce

\* Whatever races, raises, crashes or is redelivered, an unfinished job is being worked on or
\* has a message, but for a job that was never published and a recorded one whose handler
\* lost its delivery.
THEOREM AccidentsExplainStranding == Spec => []OnlyAccidentsStrand
<1>1. StrandInv => OnlyAccidentsStrand
  BY DEF StrandInv
<1> QED
  BY <1>1, StrandInvInit, StrandInvStep, PTL DEF Spec
=============================================================================

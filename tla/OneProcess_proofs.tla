------------------------- MODULE OneProcess_proofs -------------------------
(***************************************************************************)
(* Theorems about VerifyScheduler for commands that do not overlap: one    *)
(* process at a time, for every number of requests, every backoff policy   *)
(* and crashes at any step.  Then the file is the process's own between    *)
(* the read and the write of an upsert, and the commands implement         *)
(* RequestLifecycle.                                                       *)
(***************************************************************************)
EXTENDS VerifyScheduler_proofs

USE RequestStateAssumption, SchedulerAssumption

OneProcess == \A p, q \in Procs : p = q

-----------------------------------------------------------------------------
(* Records as a reader sees them. *)

LegacyStatuses == {"accepted", "submitted", "REQUEST_ACCEPTED"}

\* The parts of a record the schedule depends on.
Agrees(a, b) ==
  a.status = b.status /\ a.attempts = b.attempts /\ a.next = b.next /\ a.expires = b.expires

\* Reading neither counts attempts nor moves a request to another phase (from_document).
LEMMA SeenRecord ==
  ASSUME NEW rec \in Record
  PROVE  /\ FromDocument(rec).status = NormalizeStatus(rec.status)
         /\ FromDocument(rec).status \notin LegacyStatuses
         /\ FromDocument(rec).status = "ABSENT" <=> rec.status = "ABSENT"
         /\ FromDocument(rec).attempts = rec.attempts
         /\ Phase(FromDocument(rec)) = Phase(rec)
<1>1. FromDocument(rec).status = NormalizeStatus(rec.status)
      /\ FromDocument(rec).attempts = rec.attempts
  BY DEF FromDocument, Record
<1>2. NormalizeStatus(rec.status) \notin LegacyStatuses
      /\ (NormalizeStatus(rec.status) = "ABSENT" <=> rec.status = "ABSENT")
  BY DEF NormalizeStatus, LegacyStatuses
<1>3. CASE rec.status \in LegacyStatuses
  <2>1. NormalizeStatus(rec.status) = "VERIFY_SCHEDULED"
    BY <1>3 DEF NormalizeStatus, LegacyStatuses
  <2>2. Phase(FromDocument(rec)) = "open" /\ Phase(rec) = "open"
    BY <1>1, <1>3, <2>1 DEF Phase, LegacyStatuses, TerminalVerifyStatuses
  <2> QED
    BY <1>1, <1>2, <2>2
<1>4. CASE rec.status \notin LegacyStatuses
  <2>1. FromDocument(rec).status = rec.status
    BY <1>1, <1>4 DEF NormalizeStatus, LegacyStatuses
  <2>2. Phase(FromDocument(rec)) = Phase(rec)
    BY <2>1 DEF Phase
  <2> QED
    BY <1>1, <1>2, <2>2
<1> QED
  BY <1>3, <1>4

\* Reading a sane record that was written by this version changes nothing.
LEMMA ReadAgain ==
  ASSUME NEW rec \in Record, Sane(rec), rec.status \notin LegacyStatuses
  PROVE  Agrees(FromDocument(rec), rec)
<1>1. rec.next \in Times /\ rec.created \in Nat /\ rec.expires \in Nat
  BY DEF Record, Sane
<1>2. FromDocument(rec).status = rec.status /\ FromDocument(rec).attempts = rec.attempts
  BY SeenRecord DEF NormalizeStatus, LegacyStatuses
<1>3. FromDocument(rec).expires = rec.expires
  BY <1>1 DEF FromDocument, Record, NoTime
<1>4. FromDocument(rec).next = rec.next
  <2>1. CASE rec.next # NoTime
    BY <2>1 DEF FromDocument, Record
  <2>2. CASE rec.next = NoTime
    <3>1. rec.status \notin PendingVerifyStatuses
      BY <2>2, <1>1 DEF Sane, Schedulable, NoTime
    <3>2. NormalizeStatus(rec.status) \notin PendingVerifyStatuses
      BY <3>1 DEF NormalizeStatus, PendingVerifyStatuses
    <3> QED
      BY <2>2, <3>2 DEF FromDocument, Record
  <2> QED
    BY <2>1, <2>2
<1> QED
  BY <1>2, <1>3, <1>4 DEF Agrees

\* The shortest delay of the policy is a lower bound of every delay after an attempt
\* (VerifyBackoffPolicy.next_delay).
LEMMA ShortestDelay ==
  /\ MinBackoff \in Nat
  /\ \A n \in Nat \ {0} : \A d \in NextDelays(n) : d >= MinBackoff
<1> DEFINE D == {SecondDelay, ThirdDelay, FourthDelay, LaterMinDelay}
<1>1. D \subseteq Nat
  OBVIOUS
<1>2. \E d \in D : \A e \in D : d <= e
  OBVIOUS
<1>3. MinBackoff \in D /\ \A e \in D : MinBackoff <= e
  BY <1>2 DEF MinBackoff
<1>4. ASSUME NEW n \in Nat \ {0}, NEW d \in NextDelays(n) PROVE d >= MinBackoff
  <2>1. d \in D \/ d \in LaterMinDelay..LaterMaxDelay
    BY DEF NextDelays
  <2> QED
    BY <1>1, <1>3, <2>1
<1> QED
  BY <1>1, <1>3, <1>4

-----------------------------------------------------------------------------
(* The invariant. *)

\* At time t SAT may be asked again after a call at time last.
Rested(last, t) == last = NoTime \/ t >= last + MinBackoff

\* A pending record comes due no sooner than that, or only when it has expired.
Spaced(last, rec) == Rested(last, rec.next) \/ rec.next = rec.expires

\* The record of request r on file f against what SAT knows of it: is, ca and la stand
\* for issued, calls and lastCall.
Tracked(r, f, is, ca, la) ==
  IF Exists(f, r)
  THEN /\ is[r] # NoCriteria
       /\ FromDocument(f[r]).status \in PendingVerifyStatuses =>
            ca[r] <= FromDocument(f[r]).attempts /\ Spaced(la[r], FromDocument(f[r]))
  ELSE ca[r] = 0 /\ la[r] = NoTime

\* The record a process is about to store, against the one on file.
Succeeds(r, rec, f, is, st, ca, la) ==
  /\ rec.status \notin LegacyStatuses
  /\ is[r] # NoCriteria
  /\ IF Exists(f, r)
     THEN /\ rec.attempts >= FromDocument(f[r]).attempts
          /\ \/ Phase(f[r]) = "open" /\ Phase(rec) \in {"open", "closed", "ready"}
             \/ Phase(f[r]) = "ready" /\ Phase(rec) = "downloaded" /\ st[r] # {}
     ELSE rec.status = "VERIFY_SCHEDULED"
  /\ rec.status \in PendingVerifyStatuses => ca[r] <= rec.attempts /\ Spaced(la[r], rec)

\* The verification under way may ask SAT.
Callable(u, ca, la) == ca[u.cur] <= u.rec.attempts /\ Rested(la[u.cur], u.now)

\* A command in execution that has the file for itself.
Follows(u, f, is, st, ca, la) ==
  /\ u.step \notin {"batch", "call", "read", "write"} => u.todo = {}
  /\ u.step = "submit" => u.crit \in Criteria
  /\ \A r \in u.todo :
       /\ Exists(f, r) /\ Agrees(u.snap[r], FromDocument(f[r])) /\ u.snap[r].next <= u.now
       /\ u.step # "batch" => r # u.cur
  /\ u.step \in {"read", "write"} => Succeeds(u.cur, u.rec, f, is, st, ca, la)
  /\ u.step \in {"read", "write"} /\ u.then = "call" => Callable(u, ca, la)
  /\ u.step = "write" => u.buf = ReadState(f)
  /\ u.step = "call" =>
       /\ is[u.cur] # NoCriteria /\ f[u.cur].status = "VERIFY_IN_PROGRESS"
       /\ FromDocument(f[u.cur]).attempts = u.rec.attempts
       /\ Callable(u, ca, la)
  /\ u.step = "download" =>
       /\ is[u.cur] # NoCriteria /\ f[u.cur].status = "PACKAGE_READY"
       /\ FromDocument(f[u.cur]).attempts = u.rec.attempts
       /\ \E k \in Packages : u.pkg = {k}

AllTracked == \A r \in Refs : Tracked(r, file, issued, calls, lastCall)
AllFollow == \A p \in Procs : Follows(run[p], file, issued, stored, calls, lastCall)

AloneInv == OneProcess /\ JustifiedInv /\ AllTracked /\ AllFollow

\* An idle process follows anything.
LEMMA IdleFollows ==
  ASSUME NEW f, NEW is, NEW st, NEW ca, NEW la PROVE Follows(IdleRun, f, is, st, ca, la)
BY DEF IdleRun, Follows

\* There is no other process to look after.
LEMMA SetFollows ==
  ASSUME OneProcess, TypeOK, NEW p \in Procs, NEW u, Set(p, u),
         Follows(u, file', issued', stored', calls', lastCall')
  PROVE  AllFollow'
<1>1. \A q \in Procs : q = p
  BY DEF OneProcess
<1>2. run'[p] = u
  BY DEF Set, TypeOK
<1> QED
  BY <1>1, <1>2 DEF AllFollow

LEMMA QuitFollows == ASSUME OneProcess, TypeOK, NEW p \in Procs, Quit(p) PROVE AllFollow'
BY IdleFollows, SetFollows DEF Quit

\* What the invariant says of the types.
LEMMA AloneTypes ==
  ASSUME AloneInv, NEW p \in Procs
  PROVE  /\ OneProcess /\ JustifiedInv /\ ScheduleInv /\ TypeOK
         /\ run[p] \in Run /\ run[p].cur \in Refs /\ run[p].rec \in Record /\ run[p].now \in Nat
         /\ SaneRun(run[p]) /\ JustifiedRun(run[p], stored, calls)
         /\ Follows(run[p], file, issued, stored, calls, lastCall)
BY DEF AloneInv, JustifiedInv, ScheduleInv, TypeOK, AllFollow, Run

-----------------------------------------------------------------------------
(* Commands that start. *)

\* The file and what SAT knows stay as they are.
LEMMA QuietTracked ==
  ASSUME AloneInv, UNCHANGED <<file, issued, calls, lastCall>> PROVE AllTracked'
BY DEF AloneInv, AllTracked

\* run_verify_due: the selected records are on file as they were read, and due.
LEMMA SelectFollows ==
  ASSUME AloneInv, NEW p \in Procs, NEW scope \in SUBSET Refs, NEW limit, NEW live \in BOOLEAN,
         Select(p, scope, limit, live), UNCHANGED <<file, issued, stored, calls, lastCall>>
  PROVE  AllFollow'
<1>0. OneProcess /\ TypeOK
  BY AloneTypes
<1> DEFINE snap == ReadState(file)
           new(todo) == [IdleRun EXCEPT !.step = "batch", !.live = live, !.now = clock,
                  !.todo = todo,
                  !.snap = [r \in Refs |-> IF r \in todo THEN snap[r] ELSE Absent]]
<1>1. PICK todo \in SUBSET DueRefs(snap, scope, clock) : Set(p, new(todo))
  BY DEF Select, FirstDue
<1>2. \A r \in todo : r \in Refs /\ snap[r].status \in PendingVerifyStatuses
                      /\ snap[r].next <= clock
  BY <1>1 DEF DueRefs, IsDue
<1>3. \A r \in todo : Exists(file, r) /\ snap[r] = FromDocument(file[r])
  BY <1>2 DEF ReadState, Absent, PendingVerifyStatuses
<1> HIDE DEF snap
<1>4. /\ new(todo).step = "batch" /\ new(todo).todo = todo /\ new(todo).now = clock
      /\ \A r \in todo : new(todo).snap[r] = snap[r]
  BY <1>2, IdleRunType DEF Run
<1> HIDE DEF new
<1>5. Follows(new(todo), file, issued, stored, calls, lastCall)
  BY <1>2, <1>3, <1>4 DEF Follows, Agrees
<1> QED
  BY <1>0, <1>1, <1>5, SetFollows

LEMMA CommandFollows ==
  ASSUME AloneInv, NEW p \in Procs, Command(p) PROVE AllTracked' /\ AllFollow'
<1>0. OneProcess /\ TypeOK
  BY AloneTypes
<1>1. UNCHANGED <<file, issued, stored, calls, lastCall>>
  BY DEF Command, SmokeSubmit, BackfillSubmit, VerifyDue, LivePreflight, DownloadPackage, history
<1>2. AllTracked'
  BY <1>1, QuietTracked
<1>3. ASSUME NEW c \in Criteria, SmokeSubmit(p, c) \/ BackfillSubmit(p, c) PROVE AllFollow'
  <2> DEFINE u == [IdleRun EXCEPT !.step = "submit", !.crit = c]
  <2>1. u.step = "submit" /\ u.crit = c /\ u.todo = {} /\ Set(p, u)
    BY <1>3 DEF IdleRun, SmokeSubmit, BackfillSubmit
  <2> HIDE DEF u
  <2>2. Follows(u, file', issued', stored', calls', lastCall')
    BY <2>1 DEF Follows
  <2> QED
    BY <1>0, <2>1, <2>2, SetFollows
<1>4. ASSUME NEW scope \in SUBSET Refs, NEW limit, VerifyDue(p, scope, limit) PROVE AllFollow'
  BY <1>1, <1>4, SelectFollows DEF VerifyDue
<1>5. ASSUME NEW r \in Refs, LivePreflight(p, r) PROVE AllFollow'
  <2> DEFINE u == [IdleRun EXCEPT !.step = "guard", !.cur = r]
  <2>1. u.step = "guard" /\ u.todo = {} /\ Set(p, u)
    BY <1>5 DEF IdleRun, LivePreflight
  <2> HIDE DEF u
  <2>2. Follows(u, file', issued', stored', calls', lastCall')
    BY <2>1 DEF Follows
  <2> QED
    BY <1>0, <2>1, <2>2, SetFollows
<1>6. ASSUME NEW r \in Refs, NEW k \in Packages, DownloadPackage(p, r, k) PROVE AllFollow'
  <2> DEFINE rec == ReadState(file)[r]
             u == [IdleRun EXCEPT !.step = "download", !.cur = r, !.pkg = {k}, !.rec = rec]
  <2>1. rec.status = "PACKAGE_READY" /\ Set(p, u)
    BY <1>6 DEF DownloadPackage
  <2>2. Exists(file, r) /\ rec = FromDocument(file[r]) /\ file[r] \in Record
    BY <1>0, <2>1 DEF ReadState, Absent, TypeOK
  <2>3. file[r].status = "PACKAGE_READY"
    BY <2>1, <2>2, SeenRecord DEF NormalizeStatus
  <2>4. issued[r] # NoCriteria
    BY <2>2 DEF AloneInv, AllTracked, Tracked
  <2> HIDE DEF rec
  <2>5. u.step = "download" /\ u.todo = {} /\ u.cur = r /\ u.rec = rec /\ u.pkg = {k}
    BY DEF IdleRun
  <2> HIDE DEF u
  <2>6. Follows(u, file', issued', stored', calls', lastCall')
    BY <1>1, <2>2, <2>3, <2>4, <2>5 DEF Follows
  <2> QED
    BY <1>0, <2>1, <2>6, SetFollows
<1> QED
  BY <1>2, <1>3, <1>4, <1>5, <1>6 DEF Command

-----------------------------------------------------------------------------
(* Commands that go on. *)

\* The fields of the command that starts an upsert.
LEMMA UpsertFields ==
  ASSUME NEW p \in Procs, run[p] \in Run, NEW r, NEW rec, NEW then
  PROVE  LET u == [run[p] EXCEPT !.step = "read", !.cur = r, !.rec = rec, !.then = then]
         IN  u.step = "read" /\ u.cur = r /\ u.rec = rec /\ u.then = then
             /\ u.todo = run[p].todo /\ u.snap = run[p].snap /\ u.now = run[p].now
BY DEF Run

\* SAT accepts a request: its reference is new, so it has no record and no history.
LEMMA AcceptedFollows ==
  ASSUME AloneInv, NEW p \in Procs, NEW r \in Refs, SubmitAccepted(p, r)
  PROVE  AllTracked' /\ AllFollow'
<1>0. /\ OneProcess /\ TypeOK /\ run[p] \in Run
      /\ Follows(run[p], file, issued, stored, calls, lastCall)
  BY AloneTypes
<1>1. /\ run[p].step = "submit" /\ issued[r] = NoCriteria
      /\ issued' = [issued EXCEPT ![r] = run[p].crit]
      /\ UNCHANGED <<file, stored, calls, lastCall>>
  BY DEF SubmitAccepted, At, history
<1>2. run[p].crit \in Criteria /\ run[p].todo = {}
  BY <1>0, <1>1 DEF Follows
<1>3. issued'[r] # NoCriteria /\ \A s \in Refs \ {r} : issued'[s] = issued[s]
  BY <1>0, <1>1, <1>2 DEF TypeOK
<1>4. ~Exists(file, r) /\ calls[r] = 0 /\ lastCall[r] = NoTime
  BY <1>1 DEF AloneInv, AllTracked, Tracked
<1>5. AllTracked'
  BY <1>1, <1>3 DEF AloneInv, AllTracked, Tracked
<1> DEFINE u == [run[p] EXCEPT !.step = "read", !.cur = r, !.rec = NewRecord(clock), !.then = "idle"]
<1>6. /\ u.step = "read" /\ u.cur = r /\ u.rec = NewRecord(clock) /\ u.then = "idle"
      /\ u.todo = {}
  BY <1>0, <1>2, UpsertFields
<1>7. NewRecord(clock).status = "VERIFY_SCHEDULED" /\ NewRecord(clock).attempts = 0
  BY DEF NewRecord, NormalizeStatus
<1>8. Set(p, u)
  BY DEF SubmitAccepted, StartUpsert
<1> HIDE DEF u
<1>9. Succeeds(r, u.rec, file', issued', stored', calls', lastCall')
  BY <1>1, <1>3, <1>4, <1>6, <1>7 DEF Succeeds, LegacyStatuses, Spaced, Rested, Exists
<1>10. Follows(u, file', issued', stored', calls', lastCall')
  BY <1>6, <1>9 DEF Follows
<1> QED
  BY <1>0, <1>5, <1>8, <1>10, SetFollows

\* The read of an upsert.
LEMMA ReadFollows ==
  ASSUME AloneInv, NEW p \in Procs, UpsertRead(p) PROVE AllTracked' /\ AllFollow'
<1>0. /\ OneProcess /\ TypeOK /\ run[p] \in Run
      /\ Follows(run[p], file, issued, stored, calls, lastCall)
  BY AloneTypes
<1>1. run[p].step = "read" /\ UNCHANGED <<file, issued, stored, calls, lastCall>>
  BY DEF UpsertRead, At, history
<1> DEFINE u == [run[p] EXCEPT !.step = "write", !.buf = ReadState(file)]
<1>2. /\ u.step = "write" /\ u.cur = run[p].cur /\ u.rec = run[p].rec /\ u.then = run[p].then
      /\ u.todo = run[p].todo /\ u.snap = run[p].snap /\ u.now = run[p].now
      /\ u.buf = ReadState(file)
  BY <1>0 DEF Run
<1>3. Set(p, u)
  BY DEF UpsertRead
<1> HIDE DEF u
<1>4. Follows(u, file, issued, stored, calls, lastCall)
  BY <1>0, <1>1, <1>2 DEF Follows, Callable
<1> QED
  BY <1>0, <1>1, <1>3, <1>4, SetFollows, QuietTracked

\* The write of an upsert, when nobody else has written since the read: one record
\* becomes the new one, the others are what a reader has seen before.
LEMMA WriteFacts ==
  ASSUME AloneInv, NEW p \in Procs, UpsertWrite(p)
  PROVE  LET c == run[p].cur  rec == run[p].rec IN
         /\ file'[c] = rec /\ Sane(rec) /\ Exists(file', c)
         /\ Succeeds(c, rec, file, issued, stored, calls, lastCall)
         /\ Agrees(FromDocument(file'[c]), rec)
         /\ \A s \in Refs \ {c} :
              /\ Exists(file', s) <=> Exists(file, s)
              /\ Exists(file, s) => Agrees(FromDocument(file'[s]), FromDocument(file[s]))
              /\ Phase(file'[s]) = Phase(file[s])
              /\ file'[s].attempts = file[s].attempts \/ ~Exists(file, s)
<1> DEFINE c == run[p].cur
           rec == run[p].rec
<1>0. /\ TypeOK /\ ScheduleInv /\ run[p] \in Run /\ c \in Refs /\ rec \in Record
      /\ SaneRun(run[p]) /\ Follows(run[p], file, issued, stored, calls, lastCall)
  BY AloneTypes
<1>1. run[p].step = "write" /\ run[p].buf = ReadState(file)
  BY <1>0 DEF UpsertWrite, At, Follows
<1>2. file' = [ReadState(file) EXCEPT ![c] = rec]
  BY <1>1 DEF UpsertWrite, UpsertInto
<1>3. file'[c] = rec /\ \A s \in Refs \ {c} : file'[s] = ReadState(file)[s]
  BY <1>0, <1>2, ReadStateType DEF TypeOK
<1>4. Sane(rec) /\ Succeeds(c, rec, file, issued, stored, calls, lastCall)
  BY <1>0, <1>1 DEF SaneRun, Follows
<1>5. Exists(file', c)
  BY <1>3, <1>4 DEF Exists, Sane
<1>6. Agrees(FromDocument(file'[c]), rec)
  BY <1>0, <1>3, <1>4, ReadAgain DEF Succeeds
<1>7. ASSUME NEW s \in Refs \ {c}
      PROVE  /\ Exists(file', s) <=> Exists(file, s)
             /\ Exists(file, s) => Agrees(FromDocument(file'[s]), FromDocument(file[s]))
             /\ Phase(file'[s]) = Phase(file[s])
             /\ file'[s].attempts = file[s].attempts \/ ~Exists(file, s)
  <2>1. file[s] \in Record
    BY <1>0 DEF TypeOK
  <2>2. CASE Exists(file, s)
    <3>1. file'[s] = FromDocument(file[s])
      BY <1>3, <2>2 DEF ReadState
    <3>2. Sane(FromDocument(file[s])) /\ FromDocument(file[s]) \in Record
      BY <1>0, <2>1, <2>2, FromDocumentType DEF ScheduleInv
    <3>3. Agrees(FromDocument(FromDocument(file[s])), FromDocument(file[s]))
      BY <2>1, <3>2, ReadAgain, SeenRecord
    <3> QED
      BY <2>1, <2>2, <3>1, <3>3, SeenRecord DEF Exists
  <2>3. CASE ~Exists(file, s)
    <3>1. file'[s] = Absent
      BY <1>3, <2>3 DEF ReadState
    <3>2. file'[s].status = "ABSENT" /\ file[s].status = "ABSENT"
      BY <2>3, <3>1 DEF Absent, Exists
    <3>3. Phase(file'[s]) = "untracked" /\ Phase(file[s]) = "untracked"
      BY <3>2 DEF Phase, TerminalVerifyStatuses
    <3> QED
      BY <2>3, <3>2, <3>3 DEF Exists
  <2> QED
    BY <2>2, <2>3
<1> QED
  BY <1>3, <1>4, <1>5, <1>6, <1>7

LEMMA WriteFollows ==
  ASSUME AloneInv, NEW p \in Procs, UpsertWrite(p) PROVE AllTracked' /\ AllFollow'
<1> DEFINE c == run[p].cur
           rec == run[p].rec
<1>0. /\ OneProcess /\ TypeOK /\ run[p] \in Run /\ c \in Refs /\ rec \in Record
      /\ SaneRun(run[p]) /\ Follows(run[p], file, issued, stored, calls, lastCall)
  BY AloneTypes
<1>1. run[p].step = "write" /\ UNCHANGED <<issued, stored, calls, lastCall>>
  BY DEF UpsertWrite, At, history
<1>2. /\ file'[c] = rec /\ Exists(file', c) /\ Agrees(FromDocument(file'[c]), rec)
      /\ Succeeds(c, rec, file, issued, stored, calls, lastCall)
  BY WriteFacts
<1>3. \A s \in Refs \ {c} :
        /\ Exists(file', s) <=> Exists(file, s)
        /\ Exists(file, s) => Agrees(FromDocument(file'[s]), FromDocument(file[s]))
  BY WriteFacts
<1>4. AllTracked'
  <2> SUFFICES ASSUME NEW r \in Refs PROVE Tracked(r, file', issued, calls, lastCall)
    BY <1>1 DEF AllTracked
  <2>1. Tracked(r, file, issued, calls, lastCall)
    BY DEF AloneInv, AllTracked
  <2>2. CASE r = c
    BY <1>2, <2>2 DEF Tracked, Agrees, Succeeds, Spaced
  <2>3. CASE r # c
    BY <1>3, <2>1, <2>3 DEF Tracked, Agrees, Spaced
  <2> QED
    BY <2>2, <2>3
<1>5. CASE run[p].then = "idle"
  BY <1>0, <1>4, <1>5, QuitFollows DEF UpsertWrite
<1>6. CASE run[p].then # "idle"
  <2> DEFINE u == [run[p] EXCEPT !.step = run[p].then, !.buf = EmptyFile]
  <2>1. /\ u.step = run[p].then /\ u.cur = c /\ u.rec = rec
        /\ u.todo = run[p].todo /\ u.snap = run[p].snap /\ u.now = run[p].now
        /\ run[p].then \in {"batch", "call"} /\ run[p].todo \subseteq Refs
    BY <1>0, <1>6 DEF Run
  <2>2. Set(p, u)
    BY <1>6 DEF UpsertWrite
  <2> HIDE DEF u
  <2>3. \A r \in u.todo : Exists(file', r) /\ Agrees(u.snap[r], FromDocument(file'[r]))
                          /\ u.snap[r].next <= u.now /\ r # c
    <3> SUFFICES ASSUME NEW r \in run[p].todo
                 PROVE  /\ Exists(file', r) /\ Agrees(u.snap[r], FromDocument(file'[r]))
                        /\ u.snap[r].next <= u.now /\ r # c
      BY <2>1
    <3>1. /\ Exists(file, r) /\ Agrees(run[p].snap[r], FromDocument(file[r]))
          /\ run[p].snap[r].next <= run[p].now /\ r # c
      BY <1>0, <1>1 DEF Follows
    <3>2. r \in Refs \ {c}
      BY <2>1, <3>1
    <3>3. Exists(file', r) /\ Agrees(FromDocument(file'[r]), FromDocument(file[r]))
      BY <1>3, <3>1, <3>2
    <3>4. Agrees(run[p].snap[r], FromDocument(file'[r]))
      BY <3>1, <3>3 DEF Agrees
    <3> QED
      BY <2>1, <3>1, <3>3, <3>4
  <2>4. CASE run[p].then = "call"
    <3>1. rec.status = "VERIFY_IN_PROGRESS" /\ Callable(u, calls, lastCall)
      BY <1>0, <1>1, <2>1, <2>4 DEF SaneRun, Follows, Callable
    <3>2. issued[c] # NoCriteria /\ FromDocument(file'[c]).attempts = rec.attempts
      BY <1>2 DEF Succeeds, Agrees
    <3>3. Follows(u, file', issued, stored, calls, lastCall)
      BY <1>2, <2>1, <2>3, <2>4, <3>1, <3>2 DEF Follows
    <3> QED
      BY <1>0, <1>1, <1>4, <2>2, <3>3, SetFollows
  <2>5. CASE run[p].then = "batch"
    <3>1. Follows(u, file', issued, stored, calls, lastCall)
      BY <2>1, <2>3, <2>5 DEF Follows
    <3> QED
      BY <1>0, <1>1, <1>4, <2>2, <3>1, SetFollows
  <2> QED
    BY <2>1, <2>4, <2>5
<1> QED
  BY <1>5, <1>6

\* What _verify_one stores before it calls the verifier, by fields.
LEMMA VerifyRecordFields ==
  ASSUME NEW rec \in Record, NEW now \in Nat
  PROVE  /\ VerifyRecord(rec, now).attempts = rec.attempts
         /\ VerifyRecord(rec, now).status \in
              {"VERIFY_EXPIRED", "VERIFY_FAILED_PERMANENT", "VERIFY_IN_PROGRESS"}
         /\ Phase(VerifyRecord(rec, now)) \in {"open", "closed"}
<1>1. /\ VerifyRecord(rec, now).attempts = rec.attempts
      /\ VerifyRecord(rec, now).status \in
           {"VERIFY_EXPIRED", "VERIFY_FAILED_PERMANENT", "VERIFY_IN_PROGRESS"}
  BY DEF VerifyRecord, Rewrite, InProgress, Record
<1>2. Phase(VerifyRecord(rec, now)) \in {"open", "closed"}
  BY <1>1 DEF Phase, TerminalVerifyStatuses
<1> QED
  BY <1>1, <1>2

\* Pending records are open.
LEMMA PendingOpen ==
  ASSUME NEW rec, rec.status \in PendingVerifyStatuses \cup {"VERIFY_IN_PROGRESS"}
  PROVE  Phase(rec) = "open"
BY DEF Phase, PendingVerifyStatuses, TerminalVerifyStatuses

LEMMA VerifyOneFollows ==
  ASSUME AloneInv, NEW p \in Procs, NEW r \in Refs, VerifyOne(p, r)
  PROVE  AllTracked' /\ AllFollow'
<1> DEFINE rec == run[p].snap[r]
           now == run[p].now
           over == IsExpired(rec, now) \/ AttemptsExhausted(rec.attempts)
           then == IF over THEN "batch" ELSE "call"
           new == VerifyRecord(rec, now)
           u == [run[p] EXCEPT !.step = "read", !.cur = r, !.todo = @ \ {r},
                               !.rec = new, !.then = then]
<1>0. /\ OneProcess /\ TypeOK /\ run[p] \in Run /\ now \in Nat /\ SaneRun(run[p])
      /\ Follows(run[p], file, issued, stored, calls, lastCall)
  BY AloneTypes
<1>1. /\ run[p].step = "batch" /\ r \in run[p].todo
      /\ UNCHANGED <<file, issued, stored, calls, lastCall>>
  BY DEF VerifyOne, At, history
<1>2. rec \in Record /\ Sane(rec) /\ rec.status \in PendingVerifyStatuses /\ file[r] \in Record
  BY <1>0, <1>1 DEF Run, SaneRun, TypeOK
<1>3. Exists(file, r) /\ Agrees(rec, FromDocument(file[r])) /\ rec.next <= now
  BY <1>0, <1>1 DEF Follows
<1>4. /\ issued[r] # NoCriteria /\ calls[r] <= FromDocument(file[r]).attempts
      /\ Spaced(lastCall[r], FromDocument(file[r]))
  BY <1>2, <1>3 DEF AloneInv, AllTracked, Tracked, Agrees
<1>5. calls[r] <= rec.attempts /\ Spaced(lastCall[r], rec)
  BY <1>3, <1>4 DEF Agrees, Spaced
<1>6. ~IsExpired(rec, now) => Rested(lastCall[r], now)
  <2>1. rec.next \in Nat /\ rec.expires \in Nat /\ lastCall[r] \in Int /\ MinBackoff \in Nat
    BY <1>0, <1>2, ShortestDelay DEF Sane, Schedulable, TypeOK, Times, NoTime
  <2> QED
    BY <1>0, <1>3, <1>5, <2>1 DEF IsExpired, Spaced, Rested
<1>7. Set(p, u)
  BY DEF VerifyOne, VerifyRecord
<1>8. /\ new.attempts = rec.attempts
      /\ new.status \in {"VERIFY_EXPIRED", "VERIFY_FAILED_PERMANENT", "VERIFY_IN_PROGRESS"}
      /\ Phase(new) \in {"open", "closed"}
  BY <1>0, <1>2, VerifyRecordFields
<1>9. then = "call" => ~IsExpired(rec, now)
  OBVIOUS
<1>10. Phase(file[r]) = "open"
  <2>1. FromDocument(file[r]).status \in PendingVerifyStatuses
    BY <1>2, <1>3 DEF Agrees
  <2> QED
    BY <1>2, <2>1, PendingOpen, SeenRecord
<1>11. new.attempts >= FromDocument(file[r]).attempts
  <2>1. rec.attempts \in Nat
    BY <1>2 DEF Record
  <2> QED
    BY <1>3, <1>8, <2>1 DEF Agrees
<1> HIDE DEF new, over, then
<1>12. /\ u.step = "read" /\ u.rec = new /\ u.then = then /\ u.todo = run[p].todo \ {r}
       /\ u.snap = run[p].snap /\ u.cur = r /\ u.now = now
  BY <1>0 DEF Run
<1> HIDE DEF u
<1>13. Succeeds(r, new, file, issued, stored, calls, lastCall)
  BY <1>3, <1>4, <1>8, <1>10, <1>11 DEF Succeeds, LegacyStatuses, PendingVerifyStatuses
<1>14. then = "call" => Callable(u, calls, lastCall)
  BY <1>5, <1>6, <1>8, <1>9, <1>12 DEF Callable
<1>15. Follows(u, file, issued, stored, calls, lastCall)
  BY <1>0, <1>1, <1>12, <1>13, <1>14 DEF Follows
<1> QED
  BY <1>0, <1>1, <1>7, <1>15, SetFollows, QuietTracked

\* What the scheduler may store after a verification attempt, by fields.
Verified(rec, new, now, delay) ==
  /\ new.attempts = rec.attempts + 1
  /\ new.expires = rec.expires
  /\ new.status \notin LegacyStatuses
  /\ new.status \in PendingVerifyStatuses => new.next = NextCheckAt(rec, now, delay)
  /\ Phase(new) \in {"open", "closed", "ready"}

\* _record_result, and the statuses it gives.
LEMMA RecordResultVerified ==
  ASSUME NEW rec \in Record, NEW result, NEW packages, NEW now \in Nat, NEW delay \in Nat
  PROVE  Verified(rec, RecordResult(rec, result, packages, now, delay), now, delay)
<1> DEFINE status == ResultStatus(result, rec.attempts + 1)
           new == RecordResult(rec, result, packages, now, delay)
<1>1. status \in {"PACKAGE_READY", "VERIFY_NO_DATA", "VERIFY_EXPIRED", "VERIFY_REJECTED",
                  "VERIFY_FAILED_PERMANENT", "VERIFY_IN_PROGRESS_SAT", "VERIFY_FAILED_RETRYABLE"}
  BY DEF ResultStatus
<1>2. /\ Attempted(rec) \in Record /\ Attempted(rec).attempts = rec.attempts + 1
      /\ Attempted(rec).expires = rec.expires
  BY AttemptedType DEF Attempted, Record
<1>3. /\ new.attempts = rec.attempts + 1 /\ new.expires = rec.expires /\ new.status = status
      /\ new.next = IF status \in PendingVerifyStatuses
                    THEN NextCheckAt(Attempted(rec), now, delay) ELSE NoTime
  BY <1>2 DEF RecordResult, Rewrite, Record
<1>4. NextCheckAt(Attempted(rec), now, delay) = NextCheckAt(rec, now, delay)
  BY <1>2 DEF NextCheckAt
<1> HIDE DEF new, status
<1>5. Phase(new) \in {"open", "closed", "ready"}
  BY <1>1, <1>3 DEF Phase, TerminalVerifyStatuses
<1>6. Verified(rec, new, now, delay)
  BY <1>1, <1>3, <1>4, <1>5 DEF Verified, LegacyStatuses
<1> QED
  BY <1>6 DEF new

\* _retry_or_permanent
LEMMA RetryVerified ==
  ASSUME NEW rec \in Record, NEW now \in Nat, NEW delay \in Nat
  PROVE  Verified(rec, RetryOrPermanent(rec, now, delay), now, delay)
<1> DEFINE status == IF AttemptsExhausted(rec.attempts + 1)
                     THEN "VERIFY_FAILED_PERMANENT" ELSE "VERIFY_FAILED_RETRYABLE"
           new == RetryOrPermanent(rec, now, delay)
<1>1. status \in {"VERIFY_FAILED_PERMANENT", "VERIFY_FAILED_RETRYABLE"}
  OBVIOUS
<1>2. /\ Attempted(rec) \in Record /\ Attempted(rec).attempts = rec.attempts + 1
      /\ Attempted(rec).expires = rec.expires
  BY AttemptedType DEF Attempted, Record
<1>3. /\ new.attempts = rec.attempts + 1 /\ new.expires = rec.expires /\ new.status = status
      /\ new.next = IF status \in PendingVerifyStatuses
                    THEN NextCheckAt(Attempted(rec), now, delay) ELSE NoTime
  BY <1>2 DEF RetryOrPermanent, Rewrite, Record
<1>4. NextCheckAt(Attempted(rec), now, delay) = NextCheckAt(rec, now, delay)
  BY <1>2 DEF NextCheckAt
<1> HIDE DEF new, status
<1>5. Phase(new) \in {"open", "closed", "ready"}
  BY <1>1, <1>3 DEF Phase, TerminalVerifyStatuses
<1>6. Verified(rec, new, now, delay)
  BY <1>1, <1>3, <1>4, <1>5 DEF Verified, LegacyStatuses
<1> QED
  BY <1>6 DEF new

\* The record a verification ends in, and its delay.
LEMMA VerificationEnds ==
  ASSUME AloneInv, NEW p \in Procs, VerifierAnswers(p) \/ VerifierRaises(p)
  PROVE  \E new, delay :
           /\ delay \in Nat /\ delay >= MinBackoff
           /\ Verified(run[p].rec, new, run[p].now, delay)
           /\ StartUpsert(p, run[p].cur, new, "batch")
<1>0. run[p].rec \in Record /\ run[p].now \in Nat
  BY AloneTypes
<1>1. run[p].rec.attempts + 1 \in Nat \ {0}
  BY <1>0 DEF Record
<1>2. \A d \in NextDelays(run[p].rec.attempts + 1) : d \in Nat /\ d >= MinBackoff
  BY <1>1, DelayType, ShortestDelay
<1>3. CASE VerifierAnswers(p)
  BY <1>0, <1>2, <1>3, RecordResultVerified DEF VerifierAnswers
<1>4. CASE VerifierRaises(p)
  BY <1>0, <1>2, <1>4, RetryVerified DEF VerifierRaises
<1> QED
  BY <1>3, <1>4

\* A live verification counts one call of its own request, a fake one none.
LEMMA Counted ==
  ASSUME TypeOK, NEW p \in Procs, VerifierAnswers(p) \/ VerifierRaises(p), run[p].cur \in Refs
  PROVE  LET c == run[p].cur IN
         /\ run[p].step = "call" /\ UNCHANGED <<file, issued, stored>>
         /\ \A s \in Refs \ {c} : calls'[s] = calls[s] /\ lastCall'[s] = lastCall[s]
         /\ IF run[p].live
            THEN /\ calls' = [calls EXCEPT ![c] = @ + 1]
                 /\ calls'[c] = calls[c] + 1 /\ lastCall'[c] = run[p].now
            ELSE calls' = calls /\ lastCall' = lastCall
BY DEF VerifierAnswers, VerifierRaises, CountCall, TypeOK, At, history

LEMMA VerificationFollows ==
  ASSUME AloneInv, NEW p \in Procs, VerifierAnswers(p) \/ VerifierRaises(p)
  PROVE  AllTracked' /\ AllFollow'
<1> DEFINE c == run[p].cur
           rec == run[p].rec
           now == run[p].now
<1>0. /\ OneProcess /\ TypeOK /\ run[p] \in Run /\ c \in Refs /\ rec \in Record /\ now \in Nat
      /\ Follows(run[p], file, issued, stored, calls, lastCall) /\ SaneRun(run[p])
  BY AloneTypes
<1>1. /\ run[p].step = "call" /\ UNCHANGED <<file, issued, stored>>
      /\ \A s \in Refs \ {c} : calls'[s] = calls[s] /\ lastCall'[s] = lastCall[s]
      /\ \/ calls'[c] = calls[c] + 1 /\ lastCall'[c] = now
         \/ calls'[c] = calls[c] /\ lastCall'[c] = lastCall[c]
  BY <1>0, Counted
<1>2. /\ issued[c] # NoCriteria /\ file[c].status = "VERIFY_IN_PROGRESS"
      /\ FromDocument(file[c]).attempts = rec.attempts
      /\ calls[c] <= rec.attempts /\ Rested(lastCall[c], now)
  BY <1>0, <1>1 DEF Follows, Callable
<1>3. PICK new, delay : /\ delay \in Nat /\ delay >= MinBackoff
                        /\ Verified(rec, new, now, delay)
                        /\ StartUpsert(p, c, new, "batch")
  BY VerificationEnds
<1>4. file[c] \in Record /\ rec.attempts \in Nat /\ calls[c] \in Nat /\ rec.expires \in Nat
      /\ lastCall[c] \in Int /\ MinBackoff \in Nat
  <2>1. Sane(rec)
    BY <1>0, <1>1 DEF SaneRun
  <2>2. rec.attempts \in Nat /\ rec.expires \in Nat
    BY <1>0, <2>1 DEF Record, Sane
  <2>3. file[c] \in Record /\ calls[c] \in Nat /\ lastCall[c] \in Times
    BY <1>0 DEF TypeOK
  <2> QED
    BY <2>2, <2>3, ShortestDelay DEF Times, NoTime
<1>5. FromDocument(file[c]).status = "VERIFY_IN_PROGRESS" /\ Exists(file, c)
  BY <1>2, <1>4, SeenRecord DEF NormalizeStatus, Exists
<1>6. AllTracked'
  <2> SUFFICES ASSUME NEW r \in Refs PROVE Tracked(r, file, issued, calls', lastCall')
    BY <1>1 DEF AllTracked
  <2>1. CASE r = c
    BY <1>2, <1>5, <2>1 DEF Tracked, PendingVerifyStatuses
  <2>2. CASE r # c
    BY <1>1, <2>2 DEF AloneInv, AllTracked, Tracked
  <2> QED
    BY <2>1, <2>2
<1>7. calls'[c] <= new.attempts /\ new.attempts >= rec.attempts
  BY <1>1, <1>2, <1>3, <1>4 DEF Verified
<1>8. new.status \in PendingVerifyStatuses => Spaced(lastCall'[c], new)
  <2> SUFFICES ASSUME new.status \in PendingVerifyStatuses PROVE Spaced(lastCall'[c], new)
    OBVIOUS
  <2>1. new.next = NextCheckAt(rec, now, delay) /\ new.expires = rec.expires
    BY <1>3 DEF Verified
  <2>2. new.next = rec.expires \/ new.next = now + delay
    BY <2>1 DEF NextCheckAt
  <2>3. Rested(lastCall'[c], now + delay)
    BY <1>0, <1>1, <1>2, <1>3, <1>4 DEF Rested
  <2> QED
    BY <2>1, <2>2, <2>3 DEF Spaced
<1>9. Phase(file[c]) = "open"
  BY <1>2, PendingOpen
<1>10. Succeeds(c, new, file, issued, stored, calls', lastCall')
  BY <1>2, <1>3, <1>5, <1>7, <1>8, <1>9 DEF Succeeds, Verified
<1> DEFINE u == [run[p] EXCEPT !.step = "read", !.cur = c, !.rec = new, !.then = "batch"]
<1>11. /\ u.step = "read" /\ u.cur = c /\ u.rec = new /\ u.then = "batch"
       /\ u.todo = run[p].todo /\ u.snap = run[p].snap /\ u.now = now
  BY <1>0, UpsertFields
<1>12. Set(p, u)
  BY <1>3 DEF StartUpsert
<1> HIDE DEF u
<1>13. Follows(u, file', issued', stored', calls', lastCall')
  BY <1>0, <1>1, <1>10, <1>11 DEF Follows
<1> QED
  BY <1>0, <1>6, <1>12, <1>13, SetFollows

\* The package is stored, then its record is written.
LEMMA DeliveredFollows ==
  ASSUME AloneInv, NEW p \in Procs, PackageDelivered(p) PROVE AllTracked' /\ AllFollow'
<1> DEFINE c == run[p].cur
           new == [run[p].rec EXCEPT !.status = "PACKAGE_DOWNLOADED"]
           u == [run[p] EXCEPT !.step = "read", !.cur = c, !.rec = new, !.then = "idle"]
<1>0. /\ OneProcess /\ TypeOK /\ run[p] \in Run /\ c \in Refs /\ run[p].rec \in Record
      /\ Follows(run[p], file, issued, stored, calls, lastCall)
  BY AloneTypes
<1>1. run[p].step = "download" /\ UNCHANGED <<file, issued, calls, lastCall>>
      /\ stored' = [stored EXCEPT ![c] = @ \cup run[p].pkg] /\ Set(p, u)
  BY DEF PackageDelivered, At, StartUpsert, history
<1>2. /\ issued[c] # NoCriteria /\ file[c].status = "PACKAGE_READY" /\ run[p].todo = {}
      /\ FromDocument(file[c]).attempts = run[p].rec.attempts /\ run[p].pkg # {}
  BY <1>0, <1>1 DEF Follows
<1>3. stored'[c] # {}
  BY <1>0, <1>1, <1>2 DEF TypeOK
<1>4. new.status = "PACKAGE_DOWNLOADED" /\ new.attempts = run[p].rec.attempts
      /\ run[p].rec.attempts \in Nat
  BY <1>0 DEF Record
<1>5. u.step = "read" /\ u.cur = c /\ u.rec = new /\ u.then = "idle" /\ u.todo = {}
  BY <1>0, <1>2, UpsertFields
<1> HIDE DEF new, u
<1>6. Phase(file[c]) = "ready" /\ Phase(new) = "downloaded"
  BY <1>2, <1>4 DEF Phase, TerminalVerifyStatuses
<1>7. Succeeds(c, new, file', issued', stored', calls', lastCall')
  BY <1>1, <1>2, <1>3, <1>4, <1>6 DEF Succeeds, LegacyStatuses, PendingVerifyStatuses, Exists
<1>8. Follows(u, file', issued', stored', calls', lastCall')
  BY <1>5, <1>7 DEF Follows
<1> QED
  BY <1>0, <1>1, <1>8, SetFollows, QuietTracked

LEMMA AloneInit == OneProcess /\ Init => AloneInv
<1> SUFFICES ASSUME OneProcess, Init PROVE AloneInv
  OBVIOUS
<1>1. AllFollow
  BY IdleFollows DEF Init, AllFollow
<1>2. AllTracked
  <2> SUFFICES ASSUME NEW r \in Refs PROVE Tracked(r, file, issued, calls, lastCall)
    BY DEF AllTracked
  <2>1. calls[r] = 0 /\ lastCall[r] = NoTime
    BY DEF Init
  <2>2. CASE r \in LegacyRefs
    <3>1. file[r] = LegacyRecord /\ issued[r] # NoCriteria
      BY <2>2 DEF Init
    <3>2. LegacyRecord \in Record
      BY AbsentType DEF LegacyRecord, Record, Statuses, PendingVerifyStatuses
    <3>3. LegacyRecord.attempts = 0
      BY DEF LegacyRecord, Absent
    <3>4. FromDocument(file[r]).attempts = 0
      BY <3>1, <3>2, <3>3, SeenRecord
    <3> QED
      BY <2>1, <3>1, <3>4 DEF Tracked, Spaced, Rested
  <2>3. CASE r \notin LegacyRefs
    <3>1. ~Exists(file, r)
      BY <2>3 DEF Init, Exists, Absent
    <3> QED
      BY <2>1, <3>1 DEF Tracked
  <2> QED
    BY <2>2, <2>3
<1> QED
  BY <1>1, <1>2, JustifiedInit DEF AloneInv

\* What a step of the process does, as long as it is the only one.
LEMMA AloneStep == AloneInv /\ [Next]_vars => AloneInv'
<1> SUFFICES ASSUME AloneInv, [Next]_vars PROVE AllTracked' /\ AllFollow'
  BY JustifiedStep DEF AloneInv, OneProcess
<1>0. OneProcess /\ TypeOK
  BY DEF AloneInv, JustifiedInv, ScheduleInv
<1>1. CASE UNCHANGED <<file, run, issued, stored, calls, lastCall>>
  BY <1>1 DEF AloneInv, AllTracked, AllFollow
<1>2. ASSUME NEW p \in Procs, Command(p) PROVE AllTracked' /\ AllFollow'
  BY <1>2, CommandFollows
<1>3. ASSUME NEW p \in Procs, Quit(p), UNCHANGED <<file, issued, calls, lastCall>>
      PROVE  AllTracked' /\ AllFollow'
  BY <1>0, <1>3, QuitFollows, QuietTracked
<1>4. ASSUME NEW p \in Procs,
             SubmitRefused(p) \/ LiveDenied(p) \/ BatchDone(p) \/ DownloadFails(p) \/ Crash(p)
      PROVE  AllTracked' /\ AllFollow'
  BY <1>3, <1>4 DEF SubmitRefused, LiveDenied, BatchDone, DownloadFails, Crash, history
<1>7. ASSUME NEW p \in Procs, NEW r \in Refs, AnswerLost(p, r) PROVE AllTracked' /\ AllFollow'
  <2>1. AllTracked'
    <3>1. ~Exists(file, r) /\ issued[r] = NoCriteria
      BY <1>7 DEF AnswerLost, AloneInv, AllTracked, Tracked
    <3>2. \A s \in Refs \ {r} : issued'[s] = issued[s]
      BY <1>0, <1>7 DEF AnswerLost, TypeOK
    <3> QED
      BY <1>7, <3>1, <3>2 DEF AnswerLost, AloneInv, AllTracked, Tracked, Exists, history
  <2> QED
    BY <1>0, <1>7, <2>1, QuitFollows DEF AnswerLost
<1>5. ASSUME NEW p \in Procs, LiveVerifyDue(p) PROVE AllTracked' /\ AllFollow'
  <2>1. {run[p].cur} \in SUBSET Refs
    BY AloneTypes
  <2>2. UNCHANGED <<file, issued, stored, calls, lastCall>>
    BY <1>5 DEF LiveVerifyDue, history
  <2> QED
    BY <1>5, <2>1, <2>2, SelectFollows, QuietTracked DEF LiveVerifyDue
<1>6. ASSUME NEW p \in Procs, Proceed(p) PROVE AllTracked' /\ AllFollow'
  BY <1>4, <1>5, <1>6, <1>7, AcceptedFollows, VerifyOneFollows, ReadFollows, WriteFollows,
     VerificationFollows, DeliveredFollows DEF Proceed
<1> QED
  BY <1>1, <1>2, <1>4, <1>6 DEF Next, vars, Tick, history

-----------------------------------------------------------------------------
(* Action properties. *)

\* A write keeps every record and every counted attempt.
LEMMA ProgressStep ==
  ASSUME AloneInv, [Next]_vars, NEW r \in Refs, Exists(file, r)
  PROVE  Exists(file', r) /\ file'[r].attempts >= file[r].attempts
<1>1. file[r] \in Record /\ file[r].attempts \in Nat
  BY DEF AloneInv, JustifiedInv, ScheduleInv, TypeOK, Record
<1>2. CASE file' = file
  BY <1>1, <1>2 DEF Exists
<1>3. ASSUME NEW p \in Procs, UpsertWrite(p)
      PROVE  Exists(file', r) /\ file'[r].attempts >= file[r].attempts
  <2>1. CASE r = run[p].cur
    <3>1. /\ file'[r] = run[p].rec /\ Exists(file', r)
          /\ Succeeds(r, run[p].rec, file, issued, stored, calls, lastCall)
      BY <1>3, <2>1, WriteFacts
    <3>2. FromDocument(file[r]).attempts = file[r].attempts
      BY <1>1, SeenRecord
    <3> QED
      BY <3>1, <3>2 DEF Succeeds
  <2>2. CASE r # run[p].cur
    BY <1>1, <1>3, <2>2, WriteFacts
  <2> QED
    BY <2>1, <2>2
<1> QED
  BY <1>2, <1>3, OnlyWriteChangesFile

\* Only a verification asks SAT.
LEMMA OnlyVerificationCalls ==
  ASSUME [Next]_vars, calls' # calls
  PROVE  \E p \in Procs : VerifierAnswers(p) \/ VerifierRaises(p)
BY DEF Next, vars, history, Tick, Command, Proceed, Crash, SmokeSubmit, BackfillSubmit, VerifyDue,
       LivePreflight, DownloadPackage, SubmitAccepted, AnswerLost, VerifyOne, SubmitRefused,
       UpsertRead, UpsertWrite, LiveVerifyDue, LiveDenied, BatchDone, PackageDelivered,
       DownloadFails

\* A call is made no sooner than the shortest delay after the one before.
LEMMA BackoffStep ==
  ASSUME AloneInv, [Next]_vars, NEW r \in Refs, calls'[r] > calls[r], lastCall[r] # NoTime
  PROVE  lastCall'[r] >= lastCall[r] + MinBackoff
<1>1. calls[r] \in Nat
  BY DEF AloneInv, JustifiedInv, ScheduleInv, TypeOK
<1>2. PICK p \in Procs : VerifierAnswers(p) \/ VerifierRaises(p)
  BY <1>1, OnlyVerificationCalls
<1>3. /\ TypeOK /\ run[p].cur \in Refs
      /\ Follows(run[p], file, issued, stored, calls, lastCall)
  BY AloneTypes
<1>4. r = run[p].cur /\ lastCall'[r] = run[p].now /\ run[p].step = "call"
  <2> DEFINE c == run[p].cur
  <2>1. /\ run[p].step = "call"
        /\ \A s \in Refs \ {c} : calls'[s] = calls[s]
        /\ lastCall'[c] = run[p].now \/ calls' = calls
    BY <1>2, <1>3, Counted
  <2>2. calls'[r] # calls[r]
    BY <1>1
  <2> QED
    BY <2>1, <2>2
<1>5. Rested(lastCall[r], run[p].now)
  BY <1>3, <1>4 DEF Follows, Callable
<1> QED
  BY <1>4, <1>5 DEF Rested

-----------------------------------------------------------------------------
(* The refinement. *)

phases == [r \in Refs |-> Phase(file[r])]

\* A file that was just found on disk stands for requests that are open or unknown.
LEMMA LifecycleStarts == OneProcess /\ Init => Abstract!LifecycleInit
<1> SUFFICES ASSUME Init PROVE Abstract!LifecycleInit
  OBVIOUS
<1>1. \A r \in Refs : Phase(file[r]) \in {"untracked", "open"}
  <2> TAKE r \in Refs
  <2>1. file[r].status \in {"accepted", "ABSENT"}
    BY DEF Init, LegacyRecord, Absent
  <2> QED
    BY <2>1 DEF Phase, TerminalVerifyStatuses
<1> QED
  BY <1>1 DEF Abstract!LifecycleInit, Init

\* The write of an upsert is one move of its request, or none.
LEMMA WriteIsLifecycle ==
  ASSUME AloneInv, NEW p \in Procs, UpsertWrite(p)
  PROVE  Abstract!LifecycleNext \/ UNCHANGED Abstract!lifecycleVars
<1> DEFINE c == run[p].cur
           rec == run[p].rec
<1>0. TypeOK /\ c \in Refs /\ rec \in Record /\ run[p].step = "write"
      /\ JustifiedRun(run[p], stored, calls) /\ UNCHANGED <<stored, calls>>
  BY AloneTypes DEF UpsertWrite, At, history
<1>1. /\ file'[c] = rec /\ Succeeds(c, rec, file, issued, stored, calls, lastCall)
      /\ \A s \in Refs \ {c} : Phase(file'[s]) = Phase(file[s])
  BY WriteFacts
<1>2. phases' = [phases EXCEPT ![c] = Phase(rec)]
  BY <1>0, <1>1 DEF phases
<1>3. CASE ~Exists(file, c)
  <2>1. file[c].status = "ABSENT" /\ rec.status = "VERIFY_SCHEDULED"
    BY <1>1, <1>3 DEF Exists, Succeeds
  <2>2. Phase(file[c]) = "untracked" /\ Phase(rec) = "open"
    BY <2>1 DEF Phase, TerminalVerifyStatuses
  <2>3. Abstract!Track(c)
    BY <1>0, <1>2, <2>2 DEF Abstract!Track, Abstract!Becomes, phases
  <2> QED
    BY <1>0, <2>3 DEF Abstract!LifecycleNext
<1>4. CASE Exists(file, c) /\ Phase(file[c]) = "open" /\ Phase(rec) = "open"
  <2>1. phases' = phases
    BY <1>0, <1>2, <1>4 DEF phases
  <2> QED
    BY <1>0, <2>1 DEF Abstract!lifecycleVars, phases
<1>5. CASE Exists(file, c) /\ Phase(file[c]) = "open" /\ Phase(rec) = "closed"
  <2>1. Abstract!Close(c)
    BY <1>0, <1>2, <1>5 DEF Abstract!Close, Abstract!Becomes, phases
  <2> QED
    BY <1>0, <2>1 DEF Abstract!LifecycleNext
<1>6. CASE Exists(file, c) /\ Phase(file[c]) = "open" /\ Phase(rec) = "ready"
  <2>1. rec.status = "PACKAGE_READY"
    BY <1>6 DEF Phase, TerminalVerifyStatuses
  <2>2. calls[c] > 0
    BY <1>0, <2>1 DEF JustifiedRun, Justified, Outcomes
  <2>3. Abstract!MakeReady(c)
    BY <1>0, <1>2, <1>6, <2>2 DEF Abstract!MakeReady, Abstract!Becomes, phases
  <2> QED
    BY <1>0, <2>3 DEF Abstract!LifecycleNext
<1>7. CASE Exists(file, c) /\ Phase(file[c]) = "ready" /\ Phase(rec) = "downloaded" /\ stored[c] # {}
  <2>1. Abstract!Complete(c)
    BY <1>0, <1>2, <1>7 DEF Abstract!Complete, Abstract!Becomes, phases
  <2> QED
    BY <1>0, <2>1 DEF Abstract!LifecycleNext
<1> QED
  BY <1>1, <1>3, <1>4, <1>5, <1>6, <1>7 DEF Succeeds

\* A live verification asks once more, within the budget; a fake one changes nothing.
LEMMA VerificationIsLifecycle ==
  ASSUME AloneInv, NEW p \in Procs, VerifierAnswers(p) \/ VerifierRaises(p)
  PROVE  Abstract!LifecycleNext \/ UNCHANGED Abstract!lifecycleVars
<1> DEFINE c == run[p].cur
<1>0. /\ TypeOK /\ c \in Refs /\ run[p].rec \in Record /\ SaneRun(run[p])
      /\ Follows(run[p], file, issued, stored, calls, lastCall)
  BY AloneTypes
<1>1. /\ run[p].step = "call" /\ UNCHANGED <<file, stored>>
      /\ calls' = calls \/ calls' = [calls EXCEPT ![c] = @ + 1]
  BY <1>0, Counted
<1>2. file[c].status = "VERIFY_IN_PROGRESS" /\ calls[c] <= run[p].rec.attempts
  BY <1>0, <1>1 DEF Follows, Callable
<1>3. run[p].rec.attempts < MaxAttempts
  BY <1>0, <1>1 DEF SaneRun, Sane, Schedulable
<1>4. calls[c] < MaxAttempts
  <2>1. calls[c] \in Nat /\ run[p].rec.attempts \in Nat /\ MaxAttempts \in Nat
    BY <1>0 DEF TypeOK, Record
  <2> QED
    BY <2>1, <1>2, <1>3
<1>5. Phase(file[c]) = "open"
  BY <1>2, PendingOpen
<1>6. CASE calls' = calls
  BY <1>1, <1>6 DEF Abstract!lifecycleVars
<1>7. CASE calls' = [calls EXCEPT ![c] = @ + 1]
  <2>1. Abstract!Ask(c)
    BY <1>0, <1>1, <1>4, <1>5, <1>7 DEF Abstract!Ask
  <2> QED
    BY <1>0, <2>1 DEF Abstract!LifecycleNext
<1> QED
  BY <1>1, <1>6, <1>7

\* A package is stored only for a request that is ready.
LEMMA DownloadIsLifecycle ==
  ASSUME AloneInv, NEW p \in Procs, PackageDelivered(p) \/ DownloadFails(p)
  PROVE  Abstract!LifecycleNext \/ UNCHANGED Abstract!lifecycleVars
<1> DEFINE c == run[p].cur
<1>0. c \in Refs /\ Follows(run[p], file, issued, stored, calls, lastCall)
  BY AloneTypes
<1>1. /\ run[p].step = "download" /\ UNCHANGED <<file, calls>>
      /\ stored' = stored \/ stored' = [stored EXCEPT ![c] = @ \cup run[p].pkg]
  BY DEF PackageDelivered, DownloadFails, At, history
<1>2. file[c].status = "PACKAGE_READY" /\ \E k \in Packages : run[p].pkg = {k}
  BY <1>0, <1>1 DEF Follows
<1>3. Phase(file[c]) = "ready"
  BY <1>2 DEF Phase, TerminalVerifyStatuses
<1>4. CASE stored' = stored
  BY <1>1, <1>4 DEF Abstract!lifecycleVars
<1>5. CASE stored' = [stored EXCEPT ![c] = @ \cup run[p].pkg]
  <2>1. Abstract!StorePackage(c)
    BY <1>0, <1>1, <1>2, <1>3, <1>5 DEF Abstract!StorePackage
  <2> QED
    BY <1>0, <2>1 DEF Abstract!LifecycleNext
<1> QED
  BY <1>1, <1>4, <1>5

LEMMA LifecycleStep ==
  AloneInv /\ [Next]_vars => [Abstract!LifecycleNext]_Abstract!lifecycleVars
<1> SUFFICES ASSUME AloneInv, [Next]_vars
             PROVE  Abstract!LifecycleNext \/ UNCHANGED Abstract!lifecycleVars
  OBVIOUS
<1>1. CASE UNCHANGED <<file, calls, stored>>
  BY <1>1 DEF Abstract!lifecycleVars
<1>2. ASSUME NEW p \in Procs, Command(p) \/ Crash(p) PROVE UNCHANGED <<file, calls, stored>>
  BY <1>2 DEF Command, Crash, SmokeSubmit, BackfillSubmit, VerifyDue, LivePreflight,
              DownloadPackage, history
<1>3. ASSUME NEW p \in Procs,
             \/ \E r \in Refs : SubmitAccepted(p, r) \/ AnswerLost(p, r) \/ VerifyOne(p, r)
             \/ SubmitRefused(p) \/ UpsertRead(p) \/ LiveVerifyDue(p) \/ LiveDenied(p) \/ BatchDone(p)
      PROVE  UNCHANGED <<file, calls, stored>>
  BY <1>3 DEF SubmitAccepted, AnswerLost, VerifyOne, SubmitRefused, UpsertRead, LiveVerifyDue, LiveDenied,
              BatchDone, history
<1>4. ASSUME NEW p \in Procs, Proceed(p)
      PROVE  Abstract!LifecycleNext \/ UNCHANGED Abstract!lifecycleVars
  BY <1>1, <1>3, <1>4, WriteIsLifecycle, VerificationIsLifecycle, DownloadIsLifecycle DEF Proceed
<1> QED
  BY <1>1, <1>2, <1>4 DEF Next, vars, Tick, history

LEMMA AloneAlways == OneProcess /\ Spec => []AloneInv
BY AloneInit, AloneStep, PTL DEF Spec

\* ImplementsLifecycle for every number of requests, every policy, and crashes anywhere: the
\* commands over the state file (live_request_state.py, run_verify_due, the smoke commands of
\* cli.py), one at a time, implement RequestLifecycle.
THEOREM CommandsImplementLifecycle == OneProcess /\ Spec => ImplementsLifecycle
<1>1. OneProcess /\ Spec => Abstract!LifecycleInit /\ [][Abstract!LifecycleNext]_Abstract!lifecycleVars
  BY LifecycleStarts, LifecycleStep, AloneAlways, PTL DEF Spec
<1> QED
  BY <1>1 DEF ImplementsLifecycle, Abstract!Lifecycle

\* BackoffRespected for every backoff policy: two live verifications of a request are never
\* closer than the shortest delay (_due_records, _next_check_at, _retry_or_permanent).
THEOREM CallsAreSpaced == OneProcess /\ Spec => BackoffRespected
<1> DEFINE A == \A r \in Refs : calls'[r] > calls[r] /\ lastCall[r] # NoTime
                                  => lastCall'[r] >= lastCall[r] + MinBackoff
<1>1. AloneInv /\ [Next]_vars => [A]_vars
  BY BackoffStep
<1>2. OneProcess /\ Spec => [][A]_vars
  BY <1>1, AloneAlways, PTL DEF Spec
<1> QED
  BY <1>2 DEF BackoffRespected

\* ProgressKept: as long as commands do not overlap, no upsert of live_request_state.py drops
\* the record of another request or takes back a counted attempt.
THEOREM UpsertsKeepProgress == OneProcess /\ Spec => ProgressKept
<1> DEFINE A == \A r \in Refs : Exists(file, r) =>
                   Exists(file', r) /\ file'[r].attempts >= file[r].attempts
<1>1. AloneInv /\ [Next]_vars => [A]_vars
  BY ProgressStep
<1>2. OneProcess /\ Spec => [][A]_vars
  BY <1>1, AloneAlways, PTL DEF Spec
<1> QED
  BY <1>2 DEF ProgressKept

-----------------------------------------------------------------------------
(* What SAT accepts is tracked, or its answer was lost. *)

\* Only accepted requests are lost.
LostWasIssued == \A r \in lost : issued[r] # NoCriteria

TrackedInv == AloneInv /\ LostWasIssued /\ AcceptedIsTracked

\* What AcceptedIsTracked says of a reference when process p is the only one.
LEMMA WhereItIs ==
  ASSUME AcceptedIsTracked, OneProcess, NEW p \in Procs, NEW r \in Refs, issued[r] # NoCriteria
  PROVE  Exists(file, r) \/ (run[p].step \in {"read", "write"} /\ run[p].cur = r) <=> r \notin lost
BY DEF AcceptedIsTracked, OneProcess

\* A command that starts no upsert of a new reference leaves the requests where they are.
LEMMA StillOnFile ==
  ASSUME AcceptedIsTracked, LostWasIssued, OneProcess, NEW p \in Procs,
         run[p].step \notin {"read", "write"},
         run'[p].step \in {"read", "write"} => Exists(file, run'[p].cur),
         UNCHANGED <<file, issued, lost>>
  PROVE  AcceptedIsTracked' /\ LostWasIssued'
<1>1. \A r \in Refs : issued[r] # NoCriteria => (Exists(file, r) <=> r \notin lost)
  BY WhereItIs
<1> QED
  BY <1>1 DEF AcceptedIsTracked, LostWasIssued, OneProcess, Exists

LEMMA TrackedStep == TrackedInv /\ [Next]_vars => TrackedInv'
<1> SUFFICES ASSUME TrackedInv, [Next]_vars PROVE AcceptedIsTracked' /\ LostWasIssued'
  BY AloneStep DEF TrackedInv
<1>0. AcceptedIsTracked /\ LostWasIssued /\ OneProcess /\ TypeOK
  BY DEF TrackedInv, AloneInv, JustifiedInv, ScheduleInv
<1>1. CASE UNCHANGED <<file, run, issued, lost>>
  BY <1>0, <1>1 DEF AcceptedIsTracked, LostWasIssued, Exists
<1>2. ASSUME NEW p \in Procs, NEW r \in Refs, SubmitAccepted(p, r)
      PROVE  AcceptedIsTracked' /\ LostWasIssued'
  <2>1. /\ run[p].step = "submit" /\ UNCHANGED <<file, lost>> /\ issued[r] = NoCriteria
        /\ issued' = [issued EXCEPT ![r] = run[p].crit]
        /\ run'[p].step = "read" /\ run'[p].cur = r
    BY <1>0, <1>2 DEF SubmitAccepted, StartUpsert, Set, At, TypeOK, Run
  <2>2. \A s \in Refs : issued[s] # NoCriteria => (Exists(file, s) <=> s \notin lost)
    BY <1>0, <2>1, WhereItIs
  <2>3. \A s \in Refs \ {r} : issued'[s] = issued[s]
    BY <1>0, <2>1 DEF TypeOK
  <2>4. r \notin lost
    BY <1>0, <2>1 DEF LostWasIssued
  <2> QED
    BY <1>0, <2>1, <2>2, <2>3, <2>4
    DEF AcceptedIsTracked, LostWasIssued, OneProcess, Exists, TypeOK
<1>3. ASSUME NEW p \in Procs, NEW r \in Refs, AnswerLost(p, r)
      PROVE  AcceptedIsTracked' /\ LostWasIssued'
  <2>1. /\ run[p].step = "submit" /\ file' = file /\ lost' = lost \cup {r}
        /\ issued[r] = NoCriteria /\ issued' = [issued EXCEPT ![r] = run[p].crit]
        /\ run'[p].step = "idle"
    BY <1>0, <1>3 DEF AnswerLost, Quit, Set, At, TypeOK, IdleRun
  <2>2. \A s \in Refs : issued[s] # NoCriteria => (Exists(file, s) <=> s \notin lost)
    BY <1>0, <2>1, WhereItIs
  <2>3. \A s \in Refs \ {r} : issued'[s] = issued[s]
    BY <1>0, <2>1 DEF TypeOK
  <2>4. ~Exists(file, r)
    BY <2>1 DEF TrackedInv, AloneInv, AllTracked, Tracked
  <2>5. issued'[r] # NoCriteria
    <3>1. run[p].crit \in Criteria
      BY <2>1, AloneTypes DEF TrackedInv, Follows
    <3> QED
      BY <1>0, <2>1, <3>1 DEF TypeOK
  <2> QED
    BY <1>0, <2>1, <2>2, <2>3, <2>4, <2>5
    DEF AcceptedIsTracked, LostWasIssued, OneProcess, Exists, TypeOK
<1>4. ASSUME NEW p \in Procs, UpsertRead(p) PROVE AcceptedIsTracked' /\ LostWasIssued'
  <2>1. /\ run[p].step = "read" /\ run'[p].step = "write" /\ run'[p].cur = run[p].cur
        /\ UNCHANGED <<file, issued, lost>>
    BY <1>0, <1>4 DEF UpsertRead, Set, At, TypeOK, Run
  <2>2. \A r \in Refs : issued[r] # NoCriteria =>
                          (Exists(file, r) \/ r = run[p].cur <=> r \notin lost)
    BY <1>0, <2>1, WhereItIs
  <2> QED
    BY <1>0, <2>1, <2>2 DEF AcceptedIsTracked, LostWasIssued, OneProcess, Exists
<1>5. ASSUME NEW p \in Procs, UpsertWrite(p) PROVE AcceptedIsTracked' /\ LostWasIssued'
  <2>1. AloneInv /\ run[p].step = "write" /\ UNCHANGED <<issued, lost>>
    BY <1>5 DEF TrackedInv, UpsertWrite, At
  <2>2. /\ Exists(file', run[p].cur)
        /\ \A s \in Refs \ {run[p].cur} : Exists(file', s) <=> Exists(file, s)
    BY <1>5, <2>1, WriteFacts
  <2>3. \A s \in Refs : issued[s] # NoCriteria =>
                          (Exists(file, s) \/ s = run[p].cur <=> s \notin lost)
    BY <1>0, <2>1, WhereItIs
  <2>4. run'[p].step \in {"idle", "batch", "call"}
    <3>1. run \in [Procs -> Run] /\ run[p] \in Run /\ IdleRun.step = "idle"
      BY <1>0 DEF TypeOK, IdleRun
    <3>2. run[p].then \in {"idle", "batch", "call"}
      BY <3>1 DEF Run
    <3>3. run'[p] = IdleRun
          \/ run'[p] = [run[p] EXCEPT !.step = run[p].then, !.buf = EmptyFile]
      BY <1>5, <3>1 DEF UpsertWrite, Quit, Set
    <3>4. [run[p] EXCEPT !.step = run[p].then, !.buf = EmptyFile].step = run[p].then
      BY <3>1 DEF Run
    <3> QED
      BY <3>1, <3>2, <3>3, <3>4
  <2> QED
    BY <1>0, <2>1, <2>2, <2>3, <2>4 DEF AcceptedIsTracked, LostWasIssued, OneProcess
<1>6. ASSUME NEW p \in Procs, Crash(p) PROVE AcceptedIsTracked' /\ LostWasIssued'
  <2>1. /\ UNCHANGED <<file, issued>> /\ run'[p].step = "idle"
        /\ lost' = IF StoresNew(p) THEN lost \cup {run[p].cur} ELSE lost
    BY <1>0, <1>6 DEF Crash, Quit, Set, TypeOK, IdleRun
  <2>2. run[p].step \in {"read", "write"} => issued[run[p].cur] # NoCriteria
    BY AloneTypes DEF TrackedInv, Follows, Succeeds
  <2>3. \A s \in Refs : issued[s] # NoCriteria => (Exists(file, s) <=> s \notin lost')
    BY <1>0, <2>1, WhereItIs DEF StoresNew
  <2> QED
    BY <1>0, <2>1, <2>2, <2>3 DEF AcceptedIsTracked, LostWasIssued, OneProcess, Exists, StoresNew
<1>7. ASSUME NEW p \in Procs, Command(p) PROVE AcceptedIsTracked' /\ LostWasIssued'
  <2>1. run[p].step = "idle" /\ UNCHANGED <<file, issued, lost>>
    BY <1>7 DEF Command, SmokeSubmit, BackfillSubmit, VerifyDue, LivePreflight, DownloadPackage, At
  <2>2. run'[p].step \notin {"read", "write"}
    <3>1. run \in [Procs -> Run] /\ IdleRun \in Run
      BY <1>0, IdleRunType DEF TypeOK
    <3>2. ASSUME NEW c \in Criteria, SmokeSubmit(p, c) \/ BackfillSubmit(p, c)
          PROVE  run'[p].step = "submit"
      <4>1. run'[p] = [IdleRun EXCEPT !.step = "submit", !.crit = c]
        BY <3>1, <3>2 DEF SmokeSubmit, BackfillSubmit, Set
      <4> QED
        BY <3>1, <4>1 DEF Run
    <3>3. ASSUME NEW scope, NEW limit, VerifyDue(p, scope, limit) PROVE run'[p].step = "batch"
      BY <3>1, <3>3 DEF VerifyDue, Select, Set, IdleRun
    <3>4. ASSUME NEW r \in Refs, LivePreflight(p, r) PROVE run'[p].step = "guard"
      <4>1. run'[p] = [IdleRun EXCEPT !.step = "guard", !.cur = r]
        BY <3>1, <3>4 DEF LivePreflight, Set
      <4> QED
        BY <3>1, <4>1 DEF Run
    <3>5. ASSUME NEW r \in Refs, NEW k \in Packages, DownloadPackage(p, r, k)
          PROVE  run'[p].step = "download"
      <4>1. run'[p] = [IdleRun EXCEPT !.step = "download", !.cur = r, !.pkg = {k},
                                      !.rec = ReadState(file)[r]]
        BY <3>1, <3>5 DEF DownloadPackage, Set
      <4> QED
        BY <3>1, <4>1 DEF Run
    <3> QED
      BY <1>7, <3>2, <3>3, <3>4, <3>5 DEF Command
  <2> QED
    BY <1>0, <2>1, <2>2, StillOnFile
<1>8. ASSUME NEW p \in Procs, NEW r \in Refs, VerifyOne(p, r)
      PROVE  AcceptedIsTracked' /\ LostWasIssued'
  <2>1. /\ run[p].step = "batch" /\ r \in run[p].todo /\ UNCHANGED <<file, issued, lost>>
        /\ run'[p].cur = r
    BY <1>0, <1>8 DEF VerifyOne, Set, At, TypeOK, Run
  <2>2. Exists(file, r)
    BY <2>1, AloneTypes DEF TrackedInv, Follows
  <2> QED
    BY <1>0, <2>1, <2>2, StillOnFile
<1>9. ASSUME NEW p \in Procs, VerifierAnswers(p) \/ VerifierRaises(p) \/ PackageDelivered(p)
      PROVE  AcceptedIsTracked' /\ LostWasIssued'
  <2>1. /\ run[p].step \in {"call", "download"} /\ UNCHANGED <<file, issued, lost>>
        /\ \E rec, then : StartUpsert(p, run[p].cur, rec, then)
    BY <1>9 DEF VerifierAnswers, VerifierRaises, PackageDelivered, At
  <2>2. run'[p].cur = run[p].cur
    BY <1>0, <2>1 DEF StartUpsert, Set, TypeOK, Run
  <2>3. Exists(file, run[p].cur)
    BY <2>1, AloneTypes DEF TrackedInv, Follows, Exists
  <2> QED
    BY <1>0, <2>1, <2>2, <2>3, StillOnFile
<1>10. ASSUME NEW p \in Procs, LiveVerifyDue(p) PROVE AcceptedIsTracked' /\ LostWasIssued'
  <2>1. run[p].step = "guard" /\ UNCHANGED <<file, issued, lost>> /\ run'[p].step = "batch"
    BY <1>0, <1>10 DEF LiveVerifyDue, Select, Set, At, IdleRun, TypeOK
  <2> QED
    BY <1>0, <2>1, StillOnFile
<1>11. ASSUME NEW p \in Procs,
              SubmitRefused(p) \/ LiveDenied(p) \/ BatchDone(p) \/ DownloadFails(p)
       PROVE  AcceptedIsTracked' /\ LostWasIssued'
  <2>1. /\ run[p].step \in {"submit", "guard", "batch", "download"}
        /\ UNCHANGED <<file, issued, lost>> /\ run'[p].step = "idle"
    BY <1>0, <1>11
    DEF SubmitRefused, LiveDenied, BatchDone, DownloadFails, Quit, Set, At, IdleRun, TypeOK
  <2> QED
    BY <1>0, <2>1, StillOnFile
<1> QED
  BY <1>0, <1>1, <1>2, <1>3, <1>4, <1>5, <1>6, <1>7, <1>8, <1>9, <1>10, <1>11
  DEF Next, Proceed, vars, Tick

LEMMA TrackedInit == OneProcess /\ Init => TrackedInv
<1> SUFFICES ASSUME OneProcess, Init PROVE TrackedInv
  OBVIOUS
<1>1. \A r \in Refs : issued[r] # NoCriteria => file[r] = LegacyRecord
  BY DEF Init
<1> QED
  BY <1>1, AloneInit
  DEF TrackedInv, LostWasIssued, AcceptedIsTracked, Init, Exists, LegacyRecord, Absent

\* AcceptedIsTracked for commands that do not overlap, with lost answers and crashes at any
\* step: from SAT's acceptance to the upsert of persist_live_metadata_request, the one way to
\* lose a request is that this command never gets to its write.  That commands do not overlap
\* is needed: an overlapping upsert does drop a request that was on file.
THEOREM AcceptedRequestsAreTracked == OneProcess /\ Spec => []AcceptedIsTracked
<1>1. TrackedInv => AcceptedIsTracked
  BY DEF TrackedInv
<1> QED
  BY <1>1, TrackedInit, TrackedStep, PTL DEF Spec

-----------------------------------------------------------------------------
(* Then the plan of a backfill sees every request SAT has accepted and was not lost. *)

Planned == "smoke" \notin Commands

\* The query that is about to be submitted has no request yet but lost ones.
NewCriteria ==
  \A p \in Procs : run[p].step = "submit" => \A r \in Refs \ lost : issued[r] # run[p].crit

CriteriaInv == TrackedInv /\ Planned /\ OneRequestPerCriteria /\ NewCriteria

LEMMA CriteriaStep == CriteriaInv /\ [Next]_vars => CriteriaInv'
<1> SUFFICES ASSUME CriteriaInv, [Next]_vars PROVE OneRequestPerCriteria' /\ NewCriteria'
  BY TrackedStep DEF CriteriaInv, Planned
<1>0. /\ AcceptedIsTracked /\ OneProcess /\ TypeOK
      /\ OneRequestPerCriteria /\ NewCriteria /\ Planned
  BY DEF CriteriaInv, TrackedInv, AloneInv, JustifiedInv, ScheduleInv
<1>1. CASE UNCHANGED <<run, issued, lost>>
  BY <1>0, <1>1 DEF OneRequestPerCriteria, NewCriteria
<1>2. ASSUME NEW p \in Procs, NEW r \in Refs, SubmitAccepted(p, r) \/ AnswerLost(p, r)
      PROVE  OneRequestPerCriteria' /\ NewCriteria'
  <2>1. /\ run[p].step = "submit" /\ issued' = [issued EXCEPT ![r] = run[p].crit]
        /\ run'[p].step # "submit" /\ lost \subseteq lost'
    <3>1. CASE SubmitAccepted(p, r)
      BY <1>0, <3>1 DEF SubmitAccepted, StartUpsert, Set, At, TypeOK, Run
    <3>2. CASE AnswerLost(p, r)
      <4>1. IdleRun.step = "idle" /\ run \in [Procs -> Run]
        BY <1>0 DEF IdleRun, TypeOK
      <4> QED
        BY <3>2, <4>1 DEF AnswerLost, Quit, Set, At
    <3> QED
      BY <1>2, <3>1, <3>2
  <2>2. issued'[r] = run[p].crit /\ \A s \in Refs \ {r} : issued'[s] = issued[s]
    BY <1>0, <2>1 DEF TypeOK
  <2>3. OneRequestPerCriteria'
    BY <1>0, <2>1, <2>2 DEF OneRequestPerCriteria, NewCriteria
  <2>4. NewCriteria'
    BY <1>0, <2>1 DEF NewCriteria, OneProcess
  <2> QED
    BY <2>3, <2>4
<1>3. ASSUME NEW p \in Procs, issued' = issued, lost \subseteq lost', run'[p].step # "submit"
      PROVE  OneRequestPerCriteria' /\ NewCriteria'
  BY <1>0, <1>3 DEF OneRequestPerCriteria, NewCriteria, OneProcess
<1>4. ASSUME NEW p \in Procs, NEW c \in Criteria, SmokeSubmit(p, c) \/ BackfillSubmit(p, c)
      PROVE  OneRequestPerCriteria' /\ NewCriteria'
  <2>1. /\ run[p].step = "idle" /\ issued' = issued /\ lost' = lost /\ ~HasRequest(c)
        /\ run'[p].step = "submit" /\ run'[p].crit = c
    <3>1. /\ run[p].step = "idle" /\ issued' = issued /\ lost' = lost /\ ~HasRequest(c)
          /\ run' = [run EXCEPT ![p] = [IdleRun EXCEPT !.step = "submit", !.crit = c]]
      BY <1>0, <1>4 DEF SmokeSubmit, BackfillSubmit, Planned, Set, At
    <3>2. run'[p] = [IdleRun EXCEPT !.step = "submit", !.crit = c]
      BY <1>0, <3>1 DEF TypeOK
    <3> QED
      BY <3>1, <3>2, IdleRunType DEF Run
  <2>2. \A r \in Refs \ lost : issued[r] # NoCriteria => Exists(file, r)
    <3>1. run[p].step \notin {"read", "write"}
      BY <2>1
    <3> QED
      BY <1>0, <3>1, WhereItIs
  <2>3. \A r \in Refs \ lost : issued[r] # c
    BY <2>1, <2>2 DEF HasRequest
  <2> QED
    BY <1>0, <2>1, <2>3 DEF OneRequestPerCriteria, NewCriteria, OneProcess
<1>5. ASSUME NEW p \in Procs,
             \/ \E scope \in SUBSET Refs, limit \in 1..MaxLimit : VerifyDue(p, scope, limit)
             \/ \E r \in Refs : LivePreflight(p, r) \/ VerifyOne(p, r)
             \/ \E r \in Refs, k \in Packages : DownloadPackage(p, r, k)
             \/ SubmitRefused(p) \/ UpsertRead(p) \/ UpsertWrite(p)
             \/ LiveVerifyDue(p) \/ LiveDenied(p) \/ BatchDone(p)
             \/ VerifierAnswers(p) \/ VerifierRaises(p) \/ PackageDelivered(p) \/ DownloadFails(p)
             \/ Crash(p)
      PROVE  issued' = issued /\ lost \subseteq lost' /\ run'[p].step # "submit"
  <2>1. run \in [Procs -> Run] /\ run[p].then # "submit"
    BY <1>0 DEF TypeOK, Run
  <2>2. issued' = issued /\ lost \subseteq lost'
    BY <1>5 DEF VerifyDue, LivePreflight, VerifyOne, DownloadPackage, SubmitRefused, UpsertRead,
         UpsertWrite, LiveVerifyDue, LiveDenied, BatchDone, VerifierAnswers, VerifierRaises,
         PackageDelivered, DownloadFails, Crash
  <2>3. run'[p].step # "submit"
    <3>1. IdleRun.step = "idle"
      BY DEF IdleRun
    <3>2. CASE \/ \E scope \in SUBSET Refs, limit \in 1..MaxLimit : VerifyDue(p, scope, limit)
               \/ LiveVerifyDue(p)
      <4>1. \E scope, limit, live : Select(p, scope, limit, live)
        BY <3>2 DEF VerifyDue, LiveVerifyDue
      <4> QED
        BY <2>1, <4>1 DEF Select, Set, IdleRun
    <3>3. CASE \E r \in Refs : LivePreflight(p, r)
      <4>1. \E r : run' = [run EXCEPT ![p] = [IdleRun EXCEPT !.step = "guard", !.cur = r]]
        BY <3>3 DEF LivePreflight, Set
      <4> QED
        BY <2>1, <4>1, IdleRunType DEF Run
    <3>4. CASE \E r \in Refs, k \in Packages : DownloadPackage(p, r, k)
      <4>1. \E r, pkg, rec : run' = [run EXCEPT ![p] = [IdleRun EXCEPT
              !.step = "download", !.cur = r, !.pkg = pkg, !.rec = rec]]
        BY <3>4 DEF DownloadPackage, Set
      <4> QED
        BY <2>1, <4>1, IdleRunType DEF Run
    <3>5. CASE SubmitRefused(p) \/ LiveDenied(p) \/ BatchDone(p) \/ DownloadFails(p) \/ Crash(p)
      BY <2>1, <3>1, <3>5 DEF SubmitRefused, LiveDenied, BatchDone, DownloadFails, Crash, Quit, Set
    <3>6. CASE UpsertRead(p)
      BY <2>1, <3>6 DEF UpsertRead, Set, Run
    <3>7. CASE VerifierAnswers(p) \/ VerifierRaises(p) \/ PackageDelivered(p)
      <4>1. \E r, rec, then : StartUpsert(p, r, rec, then)
        BY <3>7 DEF VerifierAnswers, VerifierRaises, PackageDelivered
      <4> QED
        BY <2>1, <4>1 DEF StartUpsert, Set, Run
    <3>8. ASSUME NEW r \in Refs, VerifyOne(p, r) PROVE run'[p].step # "submit"
      <4>1. \E todo, rec, then : run' = [run EXCEPT ![p] = [run[p] EXCEPT
              !.step = "read", !.cur = r, !.todo = todo, !.rec = rec, !.then = then]]
        BY <3>8 DEF VerifyOne, Set
      <4> QED
        BY <2>1, <4>1 DEF Run
    <3>9. CASE UpsertWrite(p)
      BY <2>1, <3>1, <3>9 DEF UpsertWrite, Quit, Set, Run
    <3> QED
      BY <1>5, <3>2, <3>3, <3>4, <3>5, <3>6, <3>7, <3>8, <3>9
  <2> QED
    BY <2>2, <2>3
<1>6. ASSUME NEW p \in Procs, Command(p) \/ Proceed(p) \/ Crash(p)
      PROVE  OneRequestPerCriteria' /\ NewCriteria'
  <2>1. 1 \in 1..MaxLimit /\ Refs \in SUBSET Refs /\ \A r \in Refs : {r} \in SUBSET Refs
    OBVIOUS
  <2> QED
    BY <1>2, <1>3, <1>4, <1>5, <1>6, <2>1 DEF Command, Proceed
<1> QED
  BY <1>0, <1>1, <1>6 DEF Next, vars, Tick

LEMMA CriteriaInit == OneProcess /\ Planned /\ OneRequestPerCriteria /\ Init => CriteriaInv
BY TrackedInit DEF CriteriaInv, NewCriteria, Init, IdleRun

\* OneRequestPerCriteria for commands that do not overlap, without the smoke command, which
\* never looks at the file, with lost answers and crashes at any step: build_backfill_plan
\* finds the request of every query SAT has accepted, so that a query is submitted again only
\* after its request was lost, as long as the file it starts from holds no duplicates.
THEOREM QueriesAreAskedOnce ==
  OneProcess /\ Planned /\ OneRequestPerCriteria /\ Spec => []OneRequestPerCriteria
<1>1. CriteriaInv => OneRequestPerCriteria
  BY DEF CriteriaInv
<1> QED
  BY <1>1, CriteriaInit, CriteriaStep, PTL DEF Spec
=============================================================================

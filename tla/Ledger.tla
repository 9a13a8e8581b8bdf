------------------------------- MODULE Ledger -------------------------------
(***************************************************************************)
(* The metadata ledger and its reconciliation with XML evidence            *)
(* (reconciliation.py and _upsert_metadata, _store_xml_package,            *)
(* ingest_metadata_file, reconcile of recovery_service.py).                *)
(*                                                                         *)
(* Every operation is one database transaction of a worker or a command:   *)
(* it reads rows, computes new ones and commits.  Nothing locks what it    *)
(* has read, so another transaction can commit in between; the ORM then    *)
(* writes the columns this one changed, and a row both have inserted       *)
(* violates a unique constraint and rolls the transaction back.            *)
(***************************************************************************)
EXTENDS Integers

CONSTANTS
  Procs,        \* workers and commands with a transaction each
  Uuids,        \* document identifiers of one tenant
  Directions,   \* issued, received
  MetaStatuses  \* estadoComprobante of metadata rows, by class (see below)

\* CANCELLED_STATUSES and TRANSIENT_STATUSES; every status stands for its spellings.
CancelledStatuses == {"cancelado"}
TransientStatuses == {"en_proceso"}

ASSUME LedgerAssumption ==
  /\ Procs # {} /\ Uuids # {} /\ Directions # {}
  /\ MetaStatuses \subseteq {"vigente", "cancelado", "en_proceso", "otro"}

\* The members of ReconciliationState that code assigns.
States == {"DISCOVERED_IN_METADATA", "XML_PENDING", "XML_DOWNLOADED",
           "CANCELLED_METADATA", "STATE_CHECK_PENDING"}

Keys == Uuids \X Directions         \* uq_metadata_ledger_uuid_direction
Row == [state : States \cup {"none"}, status : MetaStatuses \cup {"none"}]
Doc == [state : States \cup {"none"}, status : MetaStatuses \cup {"vigente", "none"}, xml : BOOLEAN]
NoRow == [state |-> "none", status |-> "none"]
NoDoc == [state |-> "none", status |-> "none", xml |-> FALSE]

\* The tables: ledger rows, documents, uuids with XML evidence, and the new_state of the
\* latest ReconciliationEvent written with each ledger row.  (An event names only tenant
\* and uuid: the events of a uuid both issued and received are told apart here by the
\* row they were written with.)
Database == [ledger : [Keys -> Row], docs : [Uuids -> Doc], evidence : SUBSET Uuids,
             events : [Keys -> States \cup {"none"}]]
EmptyDatabase == [ledger   |-> [k \in Keys |-> NoRow], docs |-> [u \in Uuids |-> NoDoc],
                  evidence |-> {}, events |-> [k \in Keys |-> "none"]]
-----------------------------------------------------------------------------
\* Mutant: a cancellation outranks the XML at hand.
DecideCancelledFirst(status, hasXml, isNew, previous) ==
  IF status \in CancelledStatuses THEN "CANCELLED_METADATA"
  ELSE IF hasXml THEN "XML_DOWNLOADED"
  ELSE IF status \in TransientStatuses \/ (previous # "none" /\ previous # status)
       THEN "STATE_CHECK_PENDING"
  ELSE IF isNew THEN "DISCOVERED_IN_METADATA" ELSE "XML_PENDING"

\* decide_metadata_state; previous is "none" when there is no previous status.
DecideMetadataState(status, hasXml, isNew, previous) ==
  IF hasXml THEN "XML_DOWNLOADED"
  ELSE IF status \in CancelledStatuses THEN "CANCELLED_METADATA"
  ELSE IF status \in TransientStatuses \/ (previous # "none" /\ previous # status)
       THEN "STATE_CHECK_PENDING"
  ELSE IF isNew THEN "DISCOVERED_IN_METADATA"
  ELSE "XML_PENDING"

\* retry_action_for_state for a row without attempts or errors.
RetryActionForState(state) ==
  CASE state \in {"CANCELLED_METADATA", "STATE_CHECK_PENDING"}     -> "check_status"
    [] state \in {"DISCOVERED_IN_METADATA", "XML_PENDING"}         -> "download_xml"
    [] OTHER                                                       -> "do_not_retry"

\* The events of a transaction that gives the rows of K the states of new.
Log(events, old, new, K) ==
  [k \in Keys |-> IF k \in K /\ old[k].state # new[k].state THEN new[k].state ELSE events[k]]

\* _upsert_metadata on a file, a function from uuids to statuses, for direction d.
\* Only a metadata request touches documents.
UpsertMetadata(db, d, rows, isMetadata) ==
  LET decided(u) == LET old == db.ledger[<<u, d>>] IN
        DecideMetadataState(rows[u], u \in db.evidence, old.state = "none", old.status)
      ledger == [k \in Keys |->
        IF k[2] = d /\ k[1] \in DOMAIN rows
        THEN [state |-> decided(k[1]), status |-> rows[k[1]]] ELSE db.ledger[k]]
      docs == [u \in Uuids |->
        IF ~isMetadata \/ u \notin DOMAIN rows THEN db.docs[u]
        ELSE [db.docs[u] EXCEPT !.status = rows[u],
                                !.state  = IF db.docs[u].xml THEN @ ELSE decided(u)]]
  IN  [db EXCEPT !.ledger = ledger, !.docs = docs,
                 !.events = Log(@, db.ledger, ledger, Keys)]

\* Mutant: the ledger row is updated without an event.
StoreWithoutEvent(db, d, S) ==
  [db EXCEPT
     !.ledger = [k \in Keys |-> IF k[2] = d /\ k[1] \in S /\ @[k].state # "none"
                                THEN [@[k] EXCEPT !.state = "XML_DOWNLOADED"] ELSE @[k]],
     !.docs = [u \in Uuids |->
                 IF u \notin S THEN @[u]
                 ELSE [state |-> "XML_DOWNLOADED", xml |-> TRUE,
                       status |-> IF @[u].state = "none" THEN "vigente" ELSE @[u].status]],
     !.evidence = @ \cup S]

\* _store_xml_package for the XML of the uuids in S: only the ledger rows of the
\* direction of the query are updated, and a document seen first here is "vigente".
StoreXmlPackage(db, d, S) ==
  LET ledger == [k \in Keys |->
        IF k[2] = d /\ k[1] \in S /\ db.ledger[k].state # "none"
        THEN [db.ledger[k] EXCEPT !.state = "XML_DOWNLOADED"] ELSE db.ledger[k]]
      docs == [u \in Uuids |->
        IF u \notin S THEN db.docs[u]
        ELSE [state |-> "XML_DOWNLOADED", xml |-> TRUE,
              status |-> IF db.docs[u].state = "none" THEN "vigente" ELSE db.docs[u].status]]
  IN  [db EXCEPT !.ledger = ledger, !.docs = docs, !.evidence = @ \cup S,
                 !.events = Log(@, db.ledger, ledger, Keys)]

\* Mutant: a document counts as XML.
ReconcileByDocument(db) ==
  LET ledger == [k \in Keys |->
        IF db.ledger[k].state = "none" THEN db.ledger[k]
        ELSE [db.ledger[k] EXCEPT
                !.state = DecideMetadataState(db.ledger[k].status, db.docs[k[1]].state # "none",
                                              FALSE, "none")]]
  IN  [db EXCEPT !.ledger = ledger, !.events = Log(@, db.ledger, ledger, Keys)]

\* Mutant: only the rows of one direction are visited.
ReconcileOneDirection(db) ==
  LET ledger == [k \in Keys |->
        IF db.ledger[k].state = "none" \/ k[2] # CHOOSE d \in Directions : TRUE THEN db.ledger[k]
        ELSE [db.ledger[k] EXCEPT
                !.state = DecideMetadataState(db.ledger[k].status, db.docs[k[1]].xml, FALSE, "none")]]
  IN  [db EXCEPT !.ledger = ledger, !.events = Log(@, db.ledger, ledger, Keys)]

\* reconcile: every row again, by the document of its uuid and without a previous status.
ReconcileAll(db) ==
  LET ledger == [k \in Keys |->
        IF db.ledger[k].state = "none" THEN db.ledger[k]
        ELSE [db.ledger[k] EXCEPT
                !.state = DecideMetadataState(db.ledger[k].status, db.docs[k[1]].xml, FALSE, "none")]]
  IN  [db EXCEPT !.ledger = ledger, !.events = Log(@, db.ledger, ledger, Keys)]
-----------------------------------------------------------------------------
VARIABLES
  db,         \* the committed database
  tx,         \* [Procs -> Transaction]
  overlapped  \* history: two transactions have been open at the same time

vars == <<db, tx, overlapped>>

\* A transaction: the database it has read and what it has made of it.
Operations == {"metadata", "xml", "reconcile"}
Transaction == [op : Operations \cup {"none"}, read : Database, result : Database]
NoTx == [op |-> "none", read |-> EmptyDatabase, result |-> EmptyDatabase]

Init == db = EmptyDatabase /\ tx = [p \in Procs |-> NoTx] /\ overlapped = FALSE

Begin(p, op, result) ==
  /\ tx[p].op = "none"
  /\ tx' = [tx EXCEPT ![p] = [op |-> op, read |-> db, result |-> result]]
  /\ overlapped' = (overlapped \/ \E q \in Procs \ {p} : tx[q].op # "none")
  /\ UNCHANGED db

\* ingest_metadata_file, or the metadata of a METADATA job.
BeginMetadata(p, d, rows) == Begin(p, "metadata", UpsertMetadata(db, d, rows, TRUE))

\* A CFDI job: the metadata of the answer, then the XML of its packages.
BeginXml(p, d, rows, S) ==
  Begin(p, "xml", StoreXmlPackage(UpsertMetadata(db, d, rows, FALSE), d, S))

BeginReconcile(p) == Begin(p, "reconcile", ReconcileAll(db))

\* Columns a transaction has not changed keep the committed value.
MergeRow(now, read, result) ==
  [c \in DOMAIN now |-> IF result[c] # read[c] THEN result[c] ELSE now[c]]

\* What the flush of transaction t leaves in the database.
Flush(t) ==
  [ledger   |-> [k \in Keys |-> MergeRow(db.ledger[k], t.read.ledger[k], t.result.ledger[k])],
   docs     |-> [u \in Uuids |-> MergeRow(db.docs[u], t.read.docs[u], t.result.docs[u])],
   evidence |-> db.evidence \cup t.result.evidence,
   events   |-> [k \in Keys |-> IF t.result.events[k] # t.read.events[k]
                                THEN t.result.events[k] ELSE db.events[k]]]

\* A row t inserts has been inserted by somebody else since t read the table.
Conflict(t) ==
  \/ \E k \in Keys : /\ t.read.ledger[k].state = "none" /\ t.result.ledger[k].state # "none"
                     /\ db.ledger[k].state # "none"
  \/ \E u \in Uuids : /\ t.read.docs[u].state = "none" /\ t.result.docs[u].state # "none"
                      /\ db.docs[u].state # "none"
  \/ \E u \in t.result.evidence \ t.read.evidence : u \in db.evidence

Commit(p) ==
  /\ tx[p].op # "none"
  /\ ~Conflict(tx[p])
  /\ db' = Flush(tx[p])
  /\ tx' = [tx EXCEPT ![p] = NoTx]
  /\ UNCHANGED overlapped

\* IntegrityError, or any other failure before the commit.
Rollback(p) ==
  /\ tx[p].op # "none"
  /\ tx' = [tx EXCEPT ![p] = NoTx]
  /\ UNCHANGED <<db, overlapped>>

\* Files: any statuses for any set of uuids.
Files == UNION {[S -> MetaStatuses] : S \in SUBSET Uuids}

Next ==
  \E p \in Procs :
    \/ \E d \in Directions, rows \in Files : BeginMetadata(p, d, rows)
    \/ \E d \in Directions, rows \in Files, S \in SUBSET Uuids : BeginXml(p, d, rows, S)
    \/ BeginReconcile(p)
    \/ Commit(p)
    \/ Rollback(p)

Spec == Init /\ [][Next]_vars
-----------------------------------------------------------------------------
\* No row claims XML that is not there: XML_DOWNLOADED in the ledger or on a document
\* implies evidence, whatever transactions overlap, and whether has_xml was computed
\* from evidence rows (_upsert_metadata) or from documents (reconcile).
NoPhantomXml ==
  /\ \A k \in Keys : db.ledger[k].state = "XML_DOWNLOADED" => k[1] \in db.evidence
  /\ \A u \in Uuids : db.docs[u].xml \/ db.docs[u].state = "XML_DOWNLOADED" => u \in db.evidence

\* Every state of the ledger is explained by the latest reconciliation event of its row,
\* even when transactions overlap and the later one overwrites the earlier.
EventsExplainLedger == \A k \in Keys : db.events[k] = db.ledger[k].state

\* A reconcile that commits leaves every row in the state its status and the XML at hand call
\* for, in both directions of a uuid, unless something else was committed since it began.
Reconciled ==
  \A k \in Keys : db.ledger[k].state # "none" =>
    db.ledger[k].state = DecideMetadataState(db.ledger[k].status, k[1] \in db.evidence, FALSE, "none")
ReconcileRepairs ==
  [][\A p \in Procs :
       tx[p].op = "reconcile" /\ tx'[p].op = "none" /\ db' = Flush(tx[p]) /\ tx[p].read = db
         => Reconciled']_vars

\* "Cancelled and changed statuses request confirmation before XML recovery." and "Query CFDI
\* status before retrying XML." (docs/sat-download/metadata-first-reconciliation.md): a
\* reconcile, which asks nobody, never makes a row whose status is to be checked one whose XML
\* is to be downloaded.
ConfirmedBeforeDownload ==
  [][\A p \in Procs : tx[p].op = "reconcile" /\ tx'[p].op = "none" =>
       \A k \in Keys : RetryActionForState(db.ledger[k].state) = "check_status" =>
                         RetryActionForState(db'.ledger[k].state) # "download_xml"]_vars

\* "`XML_DOWNLOADED` | Do not retry." (docs/sat-download/metadata-first-reconciliation.md):
\* as long as no two transactions overlap, a row never leaves XML_DOWNLOADED.
DownloadedIsFinal ==
  [][~overlapped => \A k \in Keys :
       db.ledger[k].state = "XML_DOWNLOADED" => db'.ledger[k].state = "XML_DOWNLOADED"]_vars
=============================================================================

--------------------------- MODULE Ledger_proofs ---------------------------
(***************************************************************************)
(* Theorems about Ledger, for every number of transactions, uuids and      *)
(* directions, overlapping or not.                                         *)
(***************************************************************************)
EXTENDS Ledger, TLAPS

USE LedgerAssumption

-----------------------------------------------------------------------------
(* Single rows and decisions. *)

\* The columns of a flushed ledger row.
LEMMA MergeRowColumns ==
  ASSUME NEW now \in Row, NEW read \in Row, NEW result \in Row
  PROVE  /\ MergeRow(now, read, result) \in Row
         /\ MergeRow(now, read, result).state =
              IF result.state # read.state THEN result.state ELSE now.state
         /\ MergeRow(now, read, result).status =
              IF result.status # read.status THEN result.status ELSE now.status
BY DEF MergeRow, Row

\* The columns of a flushed document.
LEMMA MergeDocColumns ==
  ASSUME NEW now \in Doc, NEW read \in Doc, NEW result \in Doc
  PROVE  /\ MergeRow(now, read, result) \in Doc
         /\ MergeRow(now, read, result).state =
              IF result.state # read.state THEN result.state ELSE now.state
         /\ MergeRow(now, read, result).status =
              IF result.status # read.status THEN result.status ELSE now.status
         /\ MergeRow(now, read, result).xml =
              IF result.xml # read.xml THEN result.xml ELSE now.xml
BY DEF MergeRow, Doc
-----------------------------------------------------------------------------
(* What holds of a database as a whole, and what an operation makes of it. *)

\* XML_DOWNLOADED is backed by evidence, evidence by a document with XML, and the state of
\* every ledger row by its latest event.
Sound(d) ==
  /\ \A k \in Keys : d.ledger[k].state = "XML_DOWNLOADED" => k[1] \in d.evidence
  /\ \A u \in Uuids : d.docs[u].xml \/ d.docs[u].state = "XML_DOWNLOADED" => u \in d.evidence
  /\ \A u \in d.evidence : d.docs[u].xml
  /\ \A k \in Keys : d.events[k] = d.ledger[k].state

\* What every operation makes of a sound database: evidence, documents with XML and
\* downloaded rows stay what they are.
Develops(d, e) ==
  /\ e \in Database /\ Sound(e)
  /\ d.evidence \subseteq e.evidence
  /\ \A u \in Uuids : d.docs[u].xml => e.docs[u].xml
  /\ \A k \in Keys : d.ledger[k].state = "XML_DOWNLOADED" => e.ledger[k].state = "XML_DOWNLOADED"

\* The parts of a database and their types.
LEMMA DatabaseParts ==
  ASSUME NEW d \in Database
  PROVE  /\ d.ledger \in [Keys -> Row] /\ d.docs \in [Uuids -> Doc] /\ d.evidence \subseteq Uuids
         /\ d.events \in [Keys -> States \cup {"none"}]
         /\ d = [ledger |-> d.ledger, docs |-> d.docs, evidence |-> d.evidence, events |-> d.events]
BY DEF Database

\* Replacing parts of a database.
Consists(e, l, x, s, v) ==
  e \in Database /\ e.ledger = l /\ e.docs = x /\ e.evidence = s /\ e.events = v

LEMMA DatabaseUpdate ==
  ASSUME NEW d \in Database, NEW l \in [Keys -> Row], NEW x \in [Uuids -> Doc],
         NEW s \in SUBSET Uuids, NEW v \in [Keys -> States \cup {"none"}]
  PROVE  /\ Consists([d EXCEPT !.ledger = l, !.docs = x, !.evidence = s, !.events = v], l, x, s, v)
         /\ Consists([d EXCEPT !.ledger = l, !.docs = x, !.events = v], l, x, d.evidence, v)
         /\ Consists([d EXCEPT !.ledger = l, !.events = v], l, d.docs, d.evidence, v)
BY DEF Database, Consists

\* The components of a key.
LEMMA KeyParts ==
  ASSUME NEW k \in Keys PROVE k[1] \in Uuids /\ k[2] \in Directions /\ k = <<k[1], k[2]>>
BY DEF Keys

\* Events that follow the states of a ledger follow those of the next one.
LEMMA LogExplains ==
  ASSUME NEW events, NEW old, NEW new \in [Keys -> Row], NEW k \in Keys,
         events[k] \in States \cup {"none"}, events[k] = old[k].state
  PROVE  /\ Log(events, old, new, Keys)[k] = new[k].state
         /\ Log(events, old, new, Keys)[k] \in States \cup {"none"}
<1>1. new[k].state \in States \cup {"none"}
  BY DEF Row
<1> QED
  BY <1>1 DEF Log

\* An empty database is sound.
LEMMA EmptyDevelops == EmptyDatabase \in Database /\ Develops(EmptyDatabase, EmptyDatabase)
<1>1. NoRow \in Row /\ NoDoc \in Doc
  BY DEF NoRow, NoDoc, Row, Doc
<1>2. EmptyDatabase \in Database
  BY <1>1 DEF EmptyDatabase, Database
<1>3. Sound(EmptyDatabase)
  BY DEF Sound, EmptyDatabase, NoRow, NoDoc
<1> QED
  BY <1>2, <1>3 DEF Develops

\* Two operations of one transaction, one after the other.
LEMMA DevelopsTransitive ==
  ASSUME NEW d, NEW e, NEW f, Develops(d, e), Develops(e, f) PROVE Develops(d, f)
BY DEF Develops

\* _upsert_metadata
LEMMA UpsertDevelops ==
  ASSUME NEW d \in Database, Sound(d), NEW dir \in Directions, NEW rows \in Files, NEW b \in BOOLEAN
  PROVE  Develops(d, UpsertMetadata(d, dir, rows, b))
<1> DEFINE decided(u) == DecideMetadataState(rows[u], u \in d.evidence,
                           d.ledger[<<u, dir>>].state = "none", d.ledger[<<u, dir>>].status)
           ledger == [k \in Keys |-> IF k[2] = dir /\ k[1] \in DOMAIN rows
                       THEN [state |-> decided(k[1]), status |-> rows[k[1]]] ELSE d.ledger[k]]
           docs == [u \in Uuids |-> IF ~b \/ u \notin DOMAIN rows THEN d.docs[u]
                       ELSE [d.docs[u] EXCEPT !.status = rows[u],
                                              !.state  = IF d.docs[u].xml THEN @ ELSE decided(u)]]
           events == Log(d.events, d.ledger, ledger, Keys)
           e == UpsertMetadata(d, dir, rows, b)
<1>1. \A u \in DOMAIN rows : rows[u] \in MetaStatuses /\ u \in Uuids
  BY DEF Files
<1>2. ASSUME NEW u
      PROVE  decided(u) \in States /\ (decided(u) = "XML_DOWNLOADED" <=> u \in d.evidence)
  BY DEF DecideMetadataState, States
<1> HIDE DEF decided
<1>4. ledger \in [Keys -> Row]
  BY <1>1, <1>2, DatabaseParts DEF Row
<1>5. docs \in [Uuids -> Doc]
  <2> SUFFICES ASSUME NEW u \in Uuids PROVE docs[u] \in Doc
    OBVIOUS
  <2>1. d.docs[u] \in Doc
    BY DatabaseParts
  <2> QED
    BY <2>1, <1>1, <1>2 DEF Doc
<1> HIDE DEF ledger
<1>6. \A k \in Keys : events[k] = ledger[k].state /\ events[k] \in States \cup {"none"}
  BY <1>4, LogExplains, DatabaseParts DEF Sound
<1>7. events \in [Keys -> States \cup {"none"}]
  BY <1>6 DEF Log
<1>8. Consists(e, ledger, docs, d.evidence, events)
  BY <1>4, <1>5, <1>7, DatabaseUpdate, Zenon DEF UpsertMetadata, ledger, decided
<1>9. \A k \in Keys : ledger[k].state = "XML_DOWNLOADED" => k[1] \in d.evidence
  BY <1>2 DEF ledger, Sound
<1>10. \A k \in Keys : d.ledger[k].state = "XML_DOWNLOADED" => ledger[k].state = "XML_DOWNLOADED"
  BY <1>2 DEF ledger, Sound
<1>11. ASSUME NEW u \in Uuids
       PROVE  /\ docs[u].xml = d.docs[u].xml
              /\ docs[u].state = "XML_DOWNLOADED" => u \in d.evidence
  <2>1. d.docs[u] \in Doc
    BY DatabaseParts
  <2> QED
    BY <2>1, <1>2 DEF Sound, Doc
<1> HIDE DEF docs, events, e
<1>13. Sound(e)
  BY <1>8, <1>6, <1>9, <1>11, DatabaseParts DEF Consists, Sound
<1> QED
  BY <1>8, <1>10, <1>11, <1>13 DEF Consists, Develops, e

\* _store_xml_package
LEMMA StoreDevelops ==
  ASSUME NEW d \in Database, Sound(d), NEW dir \in Directions, NEW S \in SUBSET Uuids
  PROVE  Develops(d, StoreXmlPackage(d, dir, S))
<1> DEFINE ledger == [k \in Keys |-> IF k[2] = dir /\ k[1] \in S /\ d.ledger[k].state # "none"
                       THEN [d.ledger[k] EXCEPT !.state = "XML_DOWNLOADED"] ELSE d.ledger[k]]
           docs == [u \in Uuids |-> IF u \notin S THEN d.docs[u]
                       ELSE [state |-> "XML_DOWNLOADED", xml |-> TRUE,
                             status |-> IF d.docs[u].state = "none" THEN "vigente" ELSE d.docs[u].status]]
           events == Log(d.events, d.ledger, ledger, Keys)
           e == StoreXmlPackage(d, dir, S)
<1>1. ASSUME NEW k \in Keys
      PROVE  /\ ledger[k] \in Row
             /\ ledger[k].status = d.ledger[k].status
             /\ ledger[k].state = d.ledger[k].state \/ (ledger[k].state = "XML_DOWNLOADED" /\ k[1] \in S)
  <2>1. d.ledger[k] \in Row
    BY DatabaseParts
  <2> QED
    BY <2>1 DEF Row, States
<1>2. ledger \in [Keys -> Row]
  BY <1>1
<1>3. docs \in [Uuids -> Doc]
  <2> SUFFICES ASSUME NEW u \in Uuids PROVE docs[u] \in Doc
    OBVIOUS
  <2>1. d.docs[u] \in Doc
    BY DatabaseParts
  <2> QED
    BY <2>1 DEF Doc, States
<1>4. ASSUME NEW u \in Uuids
      PROVE  IF u \in S THEN docs[u].xml ELSE docs[u] = d.docs[u]
  OBVIOUS
<1> HIDE DEF ledger, docs
<1>5. \A k \in Keys : events[k] = ledger[k].state /\ events[k] \in States \cup {"none"}
  BY <1>2, LogExplains, DatabaseParts DEF Sound
<1>6. events \in [Keys -> States \cup {"none"}]
  BY <1>5 DEF Log
<1>7. d.evidence \cup S \in SUBSET Uuids
  BY DatabaseParts
<1>8. Consists(e, ledger, docs, d.evidence \cup S, events)
  BY <1>2, <1>3, <1>6, <1>7, DatabaseUpdate, Zenon DEF StoreXmlPackage, ledger, docs
<1> HIDE DEF events, e
<1>9. Sound(e)
  BY <1>1, <1>4, <1>5, <1>8, DatabaseParts DEF Consists, Sound
<1> QED
  BY <1>1, <1>4, <1>8, <1>9 DEF Consists, Develops, e

\* A ledger whose rows are in the states their status and the XML at hand call for.
ReconciledIn(d) ==
  \A k \in Keys : d.ledger[k].state # "none" =>
    d.ledger[k].state = DecideMetadataState(d.ledger[k].status, k[1] \in d.evidence, FALSE, "none")

\* reconcile
LEMMA ReconcileDevelops ==
  ASSUME NEW d \in Database, Sound(d)
  PROVE  Develops(d, ReconcileAll(d)) /\ ReconciledIn(ReconcileAll(d))
<1> DEFINE decided(k) == DecideMetadataState(d.ledger[k].status, d.docs[k[1]].xml, FALSE, "none")
           ledger == [k \in Keys |-> IF d.ledger[k].state = "none" THEN d.ledger[k]
                                     ELSE [d.ledger[k] EXCEPT !.state = decided(k)]]
           events == Log(d.events, d.ledger, ledger, Keys)
           e == ReconcileAll(d)
<1>1. ASSUME NEW k \in Keys
      PROVE  /\ d.docs[k[1]].xml \in BOOLEAN
             /\ d.docs[k[1]].xml <=> k[1] \in d.evidence
  BY KeyParts, DatabaseParts DEF Sound, Doc
<1>2. ASSUME NEW k \in Keys
      PROVE  /\ decided(k) = DecideMetadataState(d.ledger[k].status, k[1] \in d.evidence, FALSE, "none")
             /\ decided(k) \in States
             /\ decided(k) = "XML_DOWNLOADED" <=> k[1] \in d.evidence
  BY <1>1 DEF DecideMetadataState, States
<1> HIDE DEF decided
<1>3. ASSUME NEW k \in Keys
      PROVE  /\ ledger[k] \in Row
             /\ ledger[k].status = d.ledger[k].status
             /\ ledger[k].state = IF d.ledger[k].state = "none" THEN "none" ELSE decided(k)
  <2>1. d.ledger[k] \in Row
    BY DatabaseParts
  <2> QED
    BY <1>2, <2>1 DEF Row
<1>4. ledger \in [Keys -> Row]
  BY <1>3
<1> HIDE DEF ledger
<1>5. \A k \in Keys : events[k] = ledger[k].state /\ events[k] \in States \cup {"none"}
  BY <1>4, LogExplains, DatabaseParts DEF Sound
<1>6. events \in [Keys -> States \cup {"none"}]
  BY <1>5 DEF Log
<1>7. Consists(e, ledger, d.docs, d.evidence, events)
  BY <1>4, <1>6, DatabaseParts, DatabaseUpdate, Zenon DEF ReconcileAll, ledger, decided
<1> HIDE DEF events, e
<1>8. Sound(e)
  BY <1>2, <1>3, <1>5, <1>7, DatabaseParts DEF Consists, Sound
<1>10. ReconciledIn(e)
  BY <1>2, <1>3, <1>7 DEF Consists, ReconciledIn
<1>11. \A k \in Keys : d.ledger[k].state = "XML_DOWNLOADED" => e.ledger[k].state = "XML_DOWNLOADED"
  BY <1>2, <1>3, <1>7 DEF Consists, Sound
<1> QED
  BY <1>7, <1>8, <1>10, <1>11 DEF Consists, Develops, e

-----------------------------------------------------------------------------
(* The inductive invariant. *)

\* A transaction has read a sound database whose evidence is still there, and has
\* developed it.
Honest(t) ==
  /\ Sound(t.read)
  /\ t.read.evidence \subseteq db.evidence
  /\ Develops(t.read, t.result)
  /\ t.op = "reconcile" => t.result = ReconcileAll(t.read)

\* Without overlap there is one open transaction at most, and it has read what is there.
Alone ==
  /\ \A p \in Procs : tx[p].op # "none" => tx[p].read = db
  /\ \A p, q \in Procs : tx[p].op # "none" /\ tx[q].op # "none" => p = q

LedgerInv ==
  /\ db \in Database /\ Sound(db)
  /\ tx \in [Procs -> Transaction] /\ overlapped \in BOOLEAN
  /\ \A p \in Procs : Honest(tx[p])
  /\ ~overlapped => Alone

\* The parts of a flush, whatever has been committed since the transaction read: columns
\* it has changed are its own, the others those of the database.
LEMMA FlushParts ==
  ASSUME LedgerInv, NEW p \in Procs
  PROVE  /\ Flush(tx[p]) \in Database /\ Sound(Flush(tx[p]))
         /\ db.evidence \subseteq Flush(tx[p]).evidence
<1> DEFINE t == tx[p]
           f == Flush(t)
<1>1. t.read \in Database /\ t.result \in Database /\ db \in Database
  BY DEF LedgerInv, Transaction
<1>2. Sound(t.read) /\ Sound(t.result) /\ Sound(db) /\ t.read.evidence \subseteq db.evidence
      /\ \A u \in Uuids : t.read.docs[u].xml => t.result.docs[u].xml
  BY DEF LedgerInv, Honest, Develops
<1> HIDE DEF t
<1>3. /\ f.ledger = [k \in Keys |-> MergeRow(db.ledger[k], t.read.ledger[k], t.result.ledger[k])]
      /\ f.docs = [u \in Uuids |-> MergeRow(db.docs[u], t.read.docs[u], t.result.docs[u])]
      /\ f.evidence = db.evidence \cup t.result.evidence
      /\ f.events = [k \in Keys |-> IF t.result.events[k] # t.read.events[k]
                                     THEN t.result.events[k] ELSE db.events[k]]
      /\ f = [ledger |-> f.ledger, docs |-> f.docs, evidence |-> f.evidence, events |-> f.events]
  BY DEF Flush
<1> HIDE DEF f
<1>4. ASSUME NEW k \in Keys
      PROVE  /\ f.ledger[k] \in Row
             /\ f.ledger[k].state = IF t.result.ledger[k].state # t.read.ledger[k].state
                                     THEN t.result.ledger[k].state ELSE db.ledger[k].state
  BY <1>1, <1>3, MergeRowColumns, DatabaseParts
<1>5. ASSUME NEW u \in Uuids
      PROVE  /\ f.docs[u] \in Doc
             /\ f.docs[u].state = IF t.result.docs[u].state # t.read.docs[u].state
                                   THEN t.result.docs[u].state ELSE db.docs[u].state
             /\ f.docs[u].xml = IF t.result.docs[u].xml # t.read.docs[u].xml
                                 THEN t.result.docs[u].xml ELSE db.docs[u].xml
             /\ t.result.docs[u].xml \in BOOLEAN /\ t.read.docs[u].xml \in BOOLEAN
             /\ db.docs[u].xml \in BOOLEAN
  <2>1. db.docs[u] \in Doc /\ t.read.docs[u] \in Doc /\ t.result.docs[u] \in Doc
    BY <1>1, DatabaseParts
  <2>2. f.docs[u] = MergeRow(db.docs[u], t.read.docs[u], t.result.docs[u])
    BY <1>3
  <2>3. t.result.docs[u].xml \in BOOLEAN /\ t.read.docs[u].xml \in BOOLEAN /\ db.docs[u].xml \in BOOLEAN
    BY <2>1 DEF Doc
  <2> QED
    BY <2>1, <2>2, <2>3, MergeDocColumns
<1>6. f.events \in [Keys -> States \cup {"none"}]
  BY <1>1, <1>3, DatabaseParts
<1>7. f.evidence \subseteq Uuids
  BY <1>1, <1>3, DatabaseParts
<1>8. f \in Database
  BY <1>3, <1>4, <1>5, <1>6, <1>7 DEF Database
<1>9. \A k \in Keys : f.ledger[k].state = "XML_DOWNLOADED" => k[1] \in f.evidence
  BY <1>2, <1>3, <1>4 DEF Sound
<1>10. \A u \in Uuids : f.docs[u].xml \/ f.docs[u].state = "XML_DOWNLOADED" => u \in f.evidence
  BY <1>2, <1>3, <1>5 DEF Sound
<1>11. \A u \in f.evidence : f.docs[u].xml
  <2> SUFFICES ASSUME NEW u \in f.evidence PROVE f.docs[u].xml
    OBVIOUS
  <2>1. u \in Uuids
    BY <1>7
  <2>2. CASE u \in db.evidence
    BY <1>2, <1>5, <2>1, <2>2 DEF Sound
  <2>3. CASE u \in t.result.evidence
    BY <1>2, <1>5, <2>1, <2>3 DEF Sound
  <2> QED
    BY <1>3, <2>2, <2>3
<1>12. \A k \in Keys : f.events[k] = f.ledger[k].state
  BY <1>2, <1>3, <1>4 DEF Sound
<1> QED
  BY <1>3, <1>8, <1>9, <1>10, <1>11, <1>12 DEF Sound, f, t

\* Nobody has committed since the transaction read: a flush leaves its result.
LEMMA FlushAlone ==
  ASSUME LedgerInv, NEW p \in Procs, tx[p].read = db
  PROVE  Flush(tx[p]) = tx[p].result
<1> DEFINE t == tx[p]
<1>1. t.result \in Database /\ db \in Database /\ db.evidence \subseteq t.result.evidence
  BY DEF LedgerInv, Transaction, Honest, Develops
<1>2. \A k \in Keys : MergeRow(db.ledger[k], db.ledger[k], t.result.ledger[k]) = t.result.ledger[k]
  <2> SUFFICES ASSUME NEW k \in Keys
               PROVE  MergeRow(db.ledger[k], db.ledger[k], t.result.ledger[k]) = t.result.ledger[k]
    OBVIOUS
  <2>1. db.ledger[k] \in Row /\ t.result.ledger[k] \in Row
    BY <1>1, DatabaseParts
  <2> QED
    BY <2>1, MergeRowColumns DEF Row
<1>3. \A u \in Uuids : MergeRow(db.docs[u], db.docs[u], t.result.docs[u]) = t.result.docs[u]
  <2> SUFFICES ASSUME NEW u \in Uuids
               PROVE  MergeRow(db.docs[u], db.docs[u], t.result.docs[u]) = t.result.docs[u]
    OBVIOUS
  <2>1. db.docs[u] \in Doc /\ t.result.docs[u] \in Doc
    BY <1>1, DatabaseParts
  <2> QED
    BY <2>1, MergeDocColumns DEF Doc
<1>4. /\ [k \in Keys |-> MergeRow(db.ledger[k], db.ledger[k], t.result.ledger[k])] = t.result.ledger
      /\ [u \in Uuids |-> MergeRow(db.docs[u], db.docs[u], t.result.docs[u])] = t.result.docs
      /\ db.evidence \cup t.result.evidence = t.result.evidence
      /\ [k \in Keys |-> IF t.result.events[k] # db.events[k] THEN t.result.events[k] ELSE db.events[k]]
           = t.result.events
  BY <1>1, <1>2, <1>3, DatabaseParts
<1>5. Flush(t) = [ledger |-> t.result.ledger, docs |-> t.result.docs,
                  evidence |-> t.result.evidence, events |-> t.result.events]
  <2>1. t.read = db
    OBVIOUS
  <2> HIDE DEF t
  <2> QED
    BY <1>4, <2>1 DEF Flush
<1> QED
  BY <1>1, <1>5, DatabaseParts, Zenon

\* A transaction that begins, with what an operation has made of the database.
LEMMA BeginStep ==
  ASSUME LedgerInv, NEW p \in Procs, NEW op \in Operations, NEW result, Develops(db, result),
         op = "reconcile" => result = ReconcileAll(db), Begin(p, op, result)
  PROVE  LedgerInv'
<1> DEFINE t == [op |-> op, read |-> db, result |-> result]
<1>1. t \in Transaction /\ tx' = [tx EXCEPT ![p] = t] /\ db' = db
  BY DEF Begin, Transaction, Develops, LedgerInv
<1>2. t.op = op /\ t.read = db /\ t.result = result
  OBVIOUS
<1> HIDE DEF t
<1>3. tx' \in [Procs -> Transaction] /\ \A q \in Procs : tx'[q] = IF q = p THEN t ELSE tx[q]
  BY <1>1 DEF LedgerInv
<1>4. \A q \in Procs : Honest(tx[q])'
  BY <1>1, <1>2, <1>3 DEF LedgerInv, Honest
<1>5. overlapped' \in BOOLEAN
  BY DEF Begin, LedgerInv
<1>6. ASSUME ~overlapped' PROVE Alone'
  <2>1. ~overlapped /\ \A q \in Procs \ {p} : tx[q].op = "none"
    BY <1>6 DEF Begin, LedgerInv
  <2> QED
    BY <1>1, <1>2, <1>3, <2>1 DEF LedgerInv, Alone
<1> QED
  BY <1>1, <1>3, <1>4, <1>5, <1>6 DEF LedgerInv

\* A transaction that ends, with a database that is sound and has kept its evidence.
LEMMA EndStep ==
  ASSUME LedgerInv, NEW p \in Procs, tx[p].op # "none", tx' = [tx EXCEPT ![p] = NoTx],
         UNCHANGED overlapped, db' \in Database, Sound(db'), db.evidence \subseteq db'.evidence
  PROVE  LedgerInv'
<1>1. NoTx \in Transaction /\ NoTx.op = "none" /\ NoTx.read = EmptyDatabase /\ NoTx.result = EmptyDatabase
  BY EmptyDevelops DEF NoTx, Transaction
<1>2. tx' \in [Procs -> Transaction] /\ \A q \in Procs : tx'[q] = IF q = p THEN NoTx ELSE tx[q]
  BY <1>1 DEF LedgerInv
<1>3. ASSUME NEW q \in Procs PROVE Honest(tx[q])'
  <2>1. CASE q = p
    <3>1. EmptyDatabase.evidence = {}
      BY DEF EmptyDatabase
    <3> QED
      BY <1>1, <1>2, <2>1, <3>1, EmptyDevelops DEF Honest, Develops
  <2>2. CASE q # p
    BY <1>2, <2>2 DEF LedgerInv, Honest
  <2> QED
    BY <2>1, <2>2
<1>4. ASSUME ~overlapped' PROVE Alone'
  BY <1>1, <1>2, <1>4 DEF LedgerInv, Alone
<1> QED
  BY <1>2, <1>3, <1>4 DEF LedgerInv

\* The invariant is inductive.
LEMMA LedgerStep == LedgerInv /\ [Next]_vars => LedgerInv'
<1> SUFFICES ASSUME LedgerInv, [Next]_vars PROVE LedgerInv'
  OBVIOUS
<1>1. ASSUME NEW p \in Procs, NEW d \in Directions, NEW rows \in Files, BeginMetadata(p, d, rows)
      PROVE  LedgerInv'
  <2>1. Develops(db, UpsertMetadata(db, d, rows, TRUE))
    BY UpsertDevelops DEF LedgerInv
  <2> QED
    BY <1>1, <2>1, BeginStep DEF BeginMetadata, Operations
<1>2. ASSUME NEW p \in Procs, NEW d \in Directions, NEW rows \in Files, NEW S \in SUBSET Uuids,
             BeginXml(p, d, rows, S)
      PROVE  LedgerInv'
  <2> DEFINE e == UpsertMetadata(db, d, rows, FALSE)
  <2>1. Develops(db, e)
    BY UpsertDevelops DEF LedgerInv
  <2> HIDE DEF e
  <2>2. Develops(e, StoreXmlPackage(e, d, S))
    BY <2>1, StoreDevelops DEF Develops
  <2>3. Develops(db, StoreXmlPackage(e, d, S))
    BY <2>1, <2>2, DevelopsTransitive
  <2> QED
    BY <1>2, <2>3, BeginStep DEF BeginXml, Operations, e
<1>3. ASSUME NEW p \in Procs, BeginReconcile(p) PROVE LedgerInv'
  <2>1. Develops(db, ReconcileAll(db))
    BY ReconcileDevelops DEF LedgerInv
  <2> QED
    BY <1>3, <2>1, BeginStep DEF BeginReconcile, Operations
<1>4. ASSUME NEW p \in Procs, Commit(p) PROVE LedgerInv'
  <2>1. db' \in Database /\ Sound(db') /\ db.evidence \subseteq db'.evidence
    BY <1>4, FlushParts DEF Commit
  <2> QED
    BY <1>4, <2>1, EndStep DEF Commit
<1>5. ASSUME NEW p \in Procs, Rollback(p) PROVE LedgerInv'
  <2>1. db' = db
    BY <1>5 DEF Rollback
  <2>2. db' \in Database /\ Sound(db')
    BY <2>1 DEF LedgerInv
  <2> QED
    BY <1>5, <2>1, <2>2, EndStep DEF Rollback
<1>6. CASE UNCHANGED vars
  BY <1>6 DEF vars, LedgerInv, Honest, Alone
<1> QED
  BY <1>1, <1>2, <1>3, <1>4, <1>5, <1>6 DEF Next

\* The invariant holds of the empty tables.
LEMMA LedgerInit == Init => LedgerInv
<1> SUFFICES ASSUME Init PROVE LedgerInv
  OBVIOUS
<1>1. EmptyDatabase \in Database /\ Sound(EmptyDatabase) /\ Develops(EmptyDatabase, EmptyDatabase)
  BY EmptyDevelops DEF Develops
<1>3. NoTx \in Transaction /\ NoTx.op = "none" /\ NoTx.read = EmptyDatabase /\ NoTx.result = EmptyDatabase
  BY <1>1 DEF NoTx, Transaction
<1>4. db = EmptyDatabase /\ overlapped = FALSE /\ tx = [p \in Procs |-> NoTx]
  BY DEF Init
<1> QED
  BY <1>1, <1>3, <1>4 DEF LedgerInv, Honest, Alone

\* The invariant always holds.
LEMMA LedgerAlways == Spec => []LedgerInv
BY LedgerInit, LedgerStep, PTL DEF Spec

-----------------------------------------------------------------------------
(* The theorems. *)

\* However many transactions overlap, and whatever each has read, no ledger row and no
\* document claims XML without evidence (_upsert_metadata, _store_xml_package, reconcile).
THEOREM XmlIsReal == Spec => []NoPhantomXml
<1>1. LedgerInv => NoPhantomXml
  BY DEF LedgerInv, Sound, NoPhantomXml
<1> QED
  BY <1>1, LedgerAlways, PTL

\* However many transactions overlap, the latest event of a ledger row names its state.
THEOREM EventsExplain == Spec => []EventsExplainLedger
<1>1. LedgerInv => EventsExplainLedger
  BY DEF LedgerInv, Sound, EventsExplainLedger
<1> QED
  BY <1>1, LedgerAlways, PTL

\* As long as no transactions overlap, no metadata, package or reconcile takes a row out of
\* XML_DOWNLOADED.
THEOREM DownloadedStays == Spec => DownloadedIsFinal
<1> DEFINE A == ~overlapped => \A k \in Keys :
       db.ledger[k].state = "XML_DOWNLOADED" => db'.ledger[k].state = "XML_DOWNLOADED"
<1>1. LedgerInv /\ [Next]_vars => [A]_vars
  <2> SUFFICES ASSUME LedgerInv, Next, ~overlapped
               PROVE  \A k \in Keys : db.ledger[k].state = "XML_DOWNLOADED" => db'.ledger[k].state = "XML_DOWNLOADED"
    OBVIOUS
  <2>1. ASSUME NEW p \in Procs, Commit(p)
        PROVE  \A k \in Keys : db.ledger[k].state = "XML_DOWNLOADED" => db'.ledger[k].state = "XML_DOWNLOADED"
    <3>1. tx[p].read = db
      BY <2>1 DEF LedgerInv, Alone, Commit
    <3>2. db' = tx[p].result /\ Develops(db, tx[p].result)
      BY <2>1, <3>1, FlushAlone DEF Commit, LedgerInv, Honest
    <3> QED
      BY <3>2 DEF Develops
  <2>2. CASE UNCHANGED db
    BY <2>2
  <2> QED
    BY <2>1, <2>2 DEF Next, BeginMetadata, BeginXml, BeginReconcile, Begin, Rollback
<1> QED
  BY <1>1, LedgerAlways, PTL DEF Spec, DownloadedIsFinal

\* However many transactions overlap, a reconcile that commits leaves every row in the state
\* its status and the XML at hand call for, unless another one committed since it began.
THEOREM ReconcileWorks == Spec => ReconcileRepairs
<1> DEFINE A == \A p \in Procs :
             tx[p].op = "reconcile" /\ tx'[p].op = "none" /\ db' = Flush(tx[p]) /\ tx[p].read = db
               => Reconciled'
<1>1. LedgerInv /\ [Next]_vars => [A]_vars
  <2> SUFFICES ASSUME LedgerInv, NEW p \in Procs, tx[p].op = "reconcile", db' = Flush(tx[p]), tx[p].read = db
               PROVE  Reconciled'
    OBVIOUS
  <2>1. tx[p].read = db /\ tx[p].result = ReconcileAll(tx[p].read)
    BY DEF LedgerInv, Honest
  <2>2. db' = ReconcileAll(db)
    BY <2>1, FlushAlone
  <2>3. ReconciledIn(db')
    BY <2>2, ReconcileDevelops DEF LedgerInv
  <2> QED
    BY <2>3 DEF ReconciledIn, Reconciled
<1> QED
  BY <1>1, LedgerAlways, PTL DEF Spec, ReconcileRepairs
=============================================================================

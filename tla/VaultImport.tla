----------------------------- MODULE VaultImport ----------------------------
(***************************************************************************)
(* `cfdi-vault import xml` and `import zip`: CFDI files become rows of the *)
(* local invoice table (service.py, parser.py, db.py).  Every file has a   *)
(* transaction of its own: look the UUID up, insert, commit; the table's   *)
(* unique constraint decides between two commands that both found nothing. *)
(* A command may die between any two transactions.                         *)
(***************************************************************************)
EXTENDS Integers, Sequences

CONSTANTS
  ImportProcs,       \* import commands that may run at the same time
  Xmls,              \* files, see IsXml
  Batches,           \* what commands import: sequences of Xmls (one file, or a ZIP)
  MaxImports,        \* bound on the number of commands
  MaxImportCrashes   \* bound on crashes

\* What import_zip_file and parse_cfdi_xml look at: is it an .xml member, does it parse
\* as a stamped Comprobante, its UUID exactly as it is written, and its bytes.
IsXml(x) ==
  /\ DOMAIN x = {"uuid", "sha", "isXml", "parses"}
  /\ x.isXml \in BOOLEAN /\ x.parses \in BOOLEAN

ASSUME ImportAssumption ==
  /\ \A x \in Xmls : IsXml(x)
  /\ Batches \subseteq Seq(Xmls)
  /\ MaxImports \in Nat /\ MaxImportCrashes \in Nat

VARIABLES
  invoices,      \* the table: set of [uuid, sha, importer]
  importer,      \* [ImportProcs -> the command's progress]
  claims,        \* history: records of all commands: [uuid, sha, importer, result]
  completed,     \* history: batches imported to the end
  imports, importCrashes

importVars == <<invoices, importer, claims, completed, imports, importCrashes>>

IdleImport == [step |-> "idle", batch |-> <<>>, at |-> 1]

ImportInit ==
  /\ invoices = {}
  /\ importer = [p \in ImportProcs |-> IdleImport]
  /\ claims = {} /\ completed = {} /\ imports = 0 /\ importCrashes = 0

Current(p) == importer[p].batch[importer[p].at]
HasUuid(u) == \E row \in invoices : row.uuid = u
ImportAt(p, step) == importer[p].step = step /\ importer[p].at \in DOMAIN importer[p].batch
NextMember(p) == importer' = [importer EXCEPT ![p].step = "member", ![p].at = @ + 1]
Claim(p, result) ==
  claims' = claims \cup {[uuid |-> Current(p).uuid, sha |-> Current(p).sha, by |-> p, result |-> result]}
-----------------------------------------------------------------------------
StartImport(p, batch) ==
  /\ importer[p].step = "idle"
  /\ imports < MaxImports
  /\ imports' = imports + 1
  /\ importer' = [importer EXCEPT ![p] = [step |-> "member", batch |-> batch, at |-> 1]]
  /\ UNCHANGED <<invoices, claims, completed, importCrashes>>

\* Mutant: the first unusable member ends the loop.
MemberGivenUp(p) ==
  /\ ImportAt(p, "member")
  /\ ~Current(p).isXml \/ ~Current(p).parses
  /\ importer' = [importer EXCEPT ![p].at = Len(importer[p].batch) + 1]
  /\ UNCHANGED <<invoices, claims, completed, imports, importCrashes>>

\* Members that are not .xml are passed over; one that does not parse is reported.
SkipMember(p) ==
  /\ ImportAt(p, "member")
  /\ ~Current(p).isXml \/ ~Current(p).parses
  /\ IF Current(p).isXml THEN Claim(p, "failed") ELSE UNCHANGED claims
  /\ NextMember(p)
  /\ UNCHANGED <<invoices, completed, imports, importCrashes>>

\* import_xml_bytes: the lookup, which ends the import of a UUID that is there ...
LookUp(p) ==
  /\ ImportAt(p, "member")
  /\ Current(p).isXml /\ Current(p).parses
  /\ IF HasUuid(Current(p).uuid)
     THEN Claim(p, "duplicate") /\ NextMember(p)
     ELSE importer' = [importer EXCEPT ![p].step = "insert"] /\ UNCHANGED claims
  /\ UNCHANGED <<invoices, completed, imports, importCrashes>>

\* Mutant: a row that came in between is replaced.
InsertOrReplace(p) ==
  /\ ImportAt(p, "insert")
  /\ invoices' = {row \in invoices : row.uuid # Current(p).uuid}
                   \cup {[uuid |-> Current(p).uuid, sha |-> Current(p).sha, by |-> p]}
  /\ Claim(p, "imported")
  /\ NextMember(p)
  /\ UNCHANGED <<completed, imports, importCrashes>>

\* ... and the insert; commit() succeeds unless another command committed the UUID since
\* the lookup.
InsertInvoice(p) ==
  /\ ImportAt(p, "insert")
  /\ ~HasUuid(Current(p).uuid)
  /\ invoices' = invoices \cup {[uuid |-> Current(p).uuid, sha |-> Current(p).sha, by |-> p]}
  /\ Claim(p, "imported")
  /\ NextMember(p)
  /\ UNCHANGED <<completed, imports, importCrashes>>

\* The IntegrityError is caught nowhere: the command ends, the rest of its batch with it.
UniqueViolation(p) ==
  /\ ImportAt(p, "insert")
  /\ HasUuid(Current(p).uuid)
  /\ importer' = [importer EXCEPT ![p] = IdleImport]
  /\ UNCHANGED <<invoices, claims, completed, imports, importCrashes>>

FinishImport(p) ==
  /\ importer[p].step = "member"
  /\ importer[p].at \notin DOMAIN importer[p].batch
  /\ completed' = completed \cup {importer[p].batch}
  /\ importer' = [importer EXCEPT ![p] = IdleImport]
  /\ UNCHANGED <<invoices, claims, imports, importCrashes>>

ImportCrash(p) ==
  /\ importer[p].step # "idle"
  /\ importCrashes < MaxImportCrashes
  /\ importCrashes' = importCrashes + 1
  /\ importer' = [importer EXCEPT ![p] = IdleImport]
  /\ UNCHANGED <<invoices, claims, completed, imports>>

ImportNext ==
  \E p \in ImportProcs :
    \/ \E b \in Batches : StartImport(p, b)
    \/ SkipMember(p) \/ LookUp(p) \/ InsertInvoice(p) \/ UniqueViolation(p)
    \/ FinishImport(p) \/ ImportCrash(p)

ImportSpec == ImportInit /\ [][ImportNext]_importVars

-----------------------------------------------------------------------------
\* Reports can be trusted: a UUID is reported as imported at most once over all commands,
\* and what that report names is the row of the table, so that the totals of `summary`
\* count each CFDI once; a UUID reported as a duplicate is in the table.
ReportsAreTrue ==
  /\ \A c \in claims : c.result = "imported" =>
       [uuid |-> c.uuid, sha |-> c.sha, by |-> c.by] \in invoices
  /\ \A c \in claims : c.result = "duplicate" => HasUuid(c.uuid)
  /\ \A r, s \in invoices : r.uuid = s.uuid => r = s

\* A ZIP import that reaches its end has every valid file of the ZIP in the table, even
\* when earlier attempts at it were cut off by a crash or by a racing import: running the
\* command again is all the recovery there is.
CompletedIsComplete ==
  \A b \in completed : \A i \in DOMAIN b :
    b[i].isXml /\ b[i].parses => HasUuid(b[i].uuid)
=============================================================================

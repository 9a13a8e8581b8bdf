------------------------- MODULE LocalParts_proofs --------------------------
(***************************************************************************)
(* Proofs about the parts that work on local files and tables, each with   *)
(* its own specification, for any inputs and any number of commands and    *)
(* crashes: the XML vault (VaultImport), the extraction of packages        *)
(* (PackageExtraction), the profile configuration (ConfigOnboarding) and   *)
(* the backfill plans (Backfill).  The diagnoses of failed exchanges       *)
(* (TransportErrors) are compared for every exception and answer.          *)
(***************************************************************************)
EXTENDS MCLocalParts, FiniteSetTheorems, WellFoundedInduction, TLAPS

-----------------------------------------------------------------------------
(* Natural numbers. *)

\* Sets of natural numbers have a least member.
LEMMA LeastExists == ASSUME NEW T \in SUBSET Nat, T # {} PROVE Min(T) \in T /\ \A x \in T : Min(T) =< x
<1> DEFINE R == {ss \in Nat \X Nat : ss[1] < ss[2]}
<1>1. IsWellFoundedOn(R, Nat)
  BY NatLessThanWellFounded DEF OpToRel
<1>2. \E x \in T : \A y \in T : <<y, x>> \notin R
  <2> HIDE DEF R
  <2> QED
    BY <1>1, WFMin
<1>3. PICK x \in T : \A y \in T : <<y, x>> \notin R
  BY <1>2
<1>4. \A y \in T : x =< y
  <2> SUFFICES ASSUME NEW y \in T PROVE x =< y
    OBVIOUS
  <2>1. ~ (y < x)
    BY <1>3
  <2>2. x \in Nat /\ y \in Nat
    OBVIOUS
  <2> HIDE DEF R
  <2> QED
    BY <2>1, <2>2
<1> HIDE DEF R
<1> QED
  BY <1>3, <1>4 DEF Min

\* Induction over the natural numbers, for a set.
LEMMA SetInduction ==
  ASSUME NEW S, 0 \in S, \A n \in Nat : n \in S => n + 1 \in S
  PROVE  Nat \subseteq S
<1> SUFFICES ASSUME Nat \ S # {} PROVE FALSE
  OBVIOUS
<1> DEFINE x == Min(Nat \ S)
<1>1. x \in Nat \ S /\ \A y \in Nat \ S : x =< y
  BY LeastExists
<1> HIDE DEF x
<1>2. x - 1 \in Nat /\ ~(x =< x - 1)
  BY <1>1
<1>3. x - 1 \in S
  BY <1>1, <1>2
<1> QED
  BY <1>1, <1>2, <1>3

-----------------------------------------------------------------------------
(* XML vault. *)

Importers == [step : {"idle", "member", "insert"}, batch : Seq(Xmls), at : Nat \ {0}]

\* What a command has got through of its batch is in the table.
InRows(rows, u) == \E row \in rows : row.uuid = u
Imported(rows, s) ==
  s.step # "idle" =>
    \A i \in DOMAIN s.batch :
      i < s.at /\ s.batch[i].isXml /\ s.batch[i].parses => InRows(rows, s.batch[i].uuid)

ImportInv ==
  /\ importer \in [ImportProcs -> Importers]
  /\ \A p \in ImportProcs : Imported(invoices, importer[p])
  /\ ReportsAreTrue /\ CompletedIsComplete

LEMMA ImportStep == ImportInv /\ [ImportNext]_importVars => ImportInv'
<1> SUFFICES ASSUME ImportInv, [ImportNext]_importVars PROVE ImportInv'
  OBVIOUS
<1> USE ImportAssumption
<1>1. CASE UNCHANGED importVars
  BY <1>1 DEF importVars, ImportInv, Imported, ReportsAreTrue, CompletedIsComplete, HasUuid
\* Rows only come, so that what has been imported stays imported.
<1>2. ASSUME invoices \subseteq invoices', NEW p \in ImportProcs, NEW s \in Importers, Imported(invoices', s),
             importer' = [importer EXCEPT ![p] = s]
      PROVE  /\ importer' \in [ImportProcs -> Importers]
             /\ \A q \in ImportProcs : Imported(invoices', importer'[q])
  <2>1. importer' \in [ImportProcs -> Importers]
    BY <1>2 DEF ImportInv
  <2>2. ASSUME NEW q \in ImportProcs PROVE Imported(invoices', importer'[q])
    <3>1. CASE q = p
      BY <1>2, <3>1 DEF ImportInv
    <3>2. CASE q # p
      <4>1. importer'[q] = importer[q] /\ Imported(invoices, importer[q])
        BY <1>2, <3>2 DEF ImportInv
      <4> QED
        BY <1>2, <4>1 DEF Imported, InRows
    <3> QED
      BY <3>1, <3>2
  <2> QED
    BY <2>1, <2>2
<1>3. IdleImport \in Importers /\ Imported(invoices', IdleImport)
  BY DEF IdleImport, Importers, Imported
<1>4. ASSUME NEW p \in ImportProcs, importer[p].step # "idle", NEW st \in {"member", "insert"},
             NEW n \in Nat \ {0}, invoices \subseteq invoices',
             n = importer[p].at \/ /\ n = importer[p].at + 1
                                   /\ Current(p).isXml /\ Current(p).parses => InRows(invoices', Current(p).uuid),
             importer' = [importer EXCEPT ![p].step = st, ![p].at = n]
      PROVE  /\ importer' \in [ImportProcs -> Importers]
             /\ \A q \in ImportProcs : Imported(invoices', importer'[q])
  <2> DEFINE s == [importer[p] EXCEPT !.step = st, !.at = n]
  <2>1. importer[p] \in Importers /\ Imported(invoices, importer[p])
    BY DEF ImportInv
  <2>2. s \in Importers /\ s.batch = importer[p].batch /\ s.at = n /\ s.step = st
    BY <2>1 DEF Importers
  <2>3. importer' = [importer EXCEPT ![p] = s]
    BY <1>4
  <2> HIDE DEF s
  <2>4. Imported(invoices', s)
    BY <1>4, <2>1, <2>2 DEF Imported, InRows, Current, Importers
  <2> QED
    BY <1>2, <1>4, <2>2, <2>3, <2>4
<1>5. ASSUME NEW p \in ImportProcs, NEW b \in Batches, StartImport(p, b) PROVE ImportInv'
  <2> DEFINE s == [step |-> "member", batch |-> b, at |-> 1]
  <2>1. s \in Importers /\ Imported(invoices', s)
    BY DEF Importers, Imported
  <2>2. importer' = [importer EXCEPT ![p] = s] /\ UNCHANGED <<invoices, claims, completed>>
    BY <1>5 DEF StartImport
  <2> HIDE DEF s
  <2> QED
    BY <1>2, <2>1, <2>2 DEF ImportInv, ReportsAreTrue, CompletedIsComplete, HasUuid
<1>6. ASSUME NEW p \in ImportProcs, ImportAt(p, "member") \/ ImportAt(p, "insert")
      PROVE  importer[p].at \in Nat \ {0} /\ importer[p].at + 1 \in Nat \ {0} /\ importer[p].step # "idle"
  BY <1>6 DEF ImportAt, ImportInv, Importers
<1>7. ASSUME NEW p \in ImportProcs, SkipMember(p) PROVE ImportInv'
  <2>1. /\ ImportAt(p, "member") /\ ~(Current(p).isXml /\ Current(p).parses)
        /\ importer' = [importer EXCEPT ![p].step = "member", ![p].at = importer[p].at + 1]
        /\ UNCHANGED <<invoices, completed>>
    BY <1>7 DEF SkipMember, NextMember
  <2>2. \A c \in claims' : c \in claims \/ c.result = "failed"
    BY <1>7 DEF SkipMember, Claim
  <2>3. ReportsAreTrue'
    BY <2>1, <2>2 DEF ImportInv, ReportsAreTrue, HasUuid
  <2>4. CompletedIsComplete'
    BY <2>1 DEF ImportInv, CompletedIsComplete, HasUuid
  <2> QED
    BY <1>4, <1>6, <2>1, <2>3, <2>4 DEF ImportInv
<1>8. ASSUME NEW p \in ImportProcs, LookUp(p) PROVE ImportInv'
  <2>1. ImportAt(p, "member") /\ UNCHANGED <<invoices, completed>>
    BY <1>8 DEF LookUp
  <2>2. \A c \in claims' : c \in claims \/ (c.result = "duplicate" /\ HasUuid(c.uuid))
    BY <1>8 DEF LookUp, Claim
  <2>3. ReportsAreTrue'
    BY <2>1, <2>2 DEF ImportInv, ReportsAreTrue, HasUuid
  <2>4. CompletedIsComplete'
    BY <2>1 DEF ImportInv, CompletedIsComplete, HasUuid
  <2>5. CASE HasUuid(Current(p).uuid)
    <3>1. importer' = [importer EXCEPT ![p].step = "member", ![p].at = importer[p].at + 1]
      BY <1>8, <2>5 DEF LookUp, NextMember
    <3>2. InRows(invoices', Current(p).uuid)
      BY <2>1, <2>5 DEF HasUuid, InRows
    <3> QED
      BY <1>4, <1>6, <2>1, <2>3, <2>4, <3>1, <3>2 DEF ImportInv
  <2>6. CASE ~HasUuid(Current(p).uuid)
    <3>1. importer' = [importer EXCEPT ![p].step = "insert", ![p].at = importer[p].at]
      BY <1>8, <2>6 DEF LookUp, ImportInv, Importers
    <3> QED
      BY <1>4, <1>6, <2>1, <2>3, <2>4, <3>1 DEF ImportInv
  <2> QED
    BY <2>5, <2>6
<1>9. ASSUME NEW p \in ImportProcs, InsertInvoice(p) PROVE ImportInv'
  <2> DEFINE u == Current(p).uuid
             h == Current(p).sha
             r == [uuid |-> u, sha |-> h, by |-> p]
  <2>1. /\ ImportAt(p, "insert") /\ ~HasUuid(r.uuid) /\ UNCHANGED completed
        /\ importer' = [importer EXCEPT ![p].step = "member", ![p].at = importer[p].at + 1]
        /\ invoices' = invoices \cup {r}
        /\ claims' = claims \cup {[uuid |-> u, sha |-> h, by |-> p, result |-> "imported"]}
    BY <1>9 DEF InsertInvoice, NextMember, Claim
  <2> HIDE DEF u, h
  <2>2. \A c \in claims' :
          \/ c \in claims
          \/ [uuid |-> c.uuid, sha |-> c.sha, by |-> c.by] = r /\ c.result = "imported"
    <3> TAKE c \in claims'
    <3>1. CASE c = [uuid |-> u, sha |-> h, by |-> p, result |-> "imported"]
      <4>1. c.uuid = u /\ c.sha = h /\ c.by = p /\ c.result = "imported"
        BY <3>1
      <4> QED
        BY <4>1
    <3>2. CASE c \in claims
      BY <3>2
    <3>3. c \in claims \/ c = [uuid |-> u, sha |-> h, by |-> p, result |-> "imported"]
      BY <2>1
    <3> HIDE DEF r
    <3> QED
      BY <3>1, <3>2, <3>3
  <2>3. InRows(invoices', u)
    <3>1. r.uuid = u /\ r \in invoices'
      BY <2>1
    <3> QED
      BY <3>1 DEF InRows
  <2>6. u = Current(p).uuid
    BY DEF u
  <2> HIDE DEF r
  <2>4. ReportsAreTrue'
    BY <2>1, <2>2 DEF ImportInv, ReportsAreTrue, HasUuid
  <2>5. CompletedIsComplete'
    BY <2>1 DEF ImportInv, CompletedIsComplete, HasUuid
  <2> QED
    BY <1>4, <1>6, <2>1, <2>3, <2>4, <2>5, <2>6 DEF ImportInv
<1>10. ASSUME NEW p \in ImportProcs, UniqueViolation(p) \/ ImportCrash(p) PROVE ImportInv'
  <2>1. importer' = [importer EXCEPT ![p] = IdleImport] /\ UNCHANGED <<invoices, claims, completed>>
    BY <1>10 DEF UniqueViolation, ImportCrash
  <2> QED
    BY <1>2, <1>3, <2>1 DEF ImportInv, ReportsAreTrue, CompletedIsComplete, HasUuid
<1>11. ASSUME NEW p \in ImportProcs, FinishImport(p) PROVE ImportInv'
  <2> DEFINE b == importer[p].batch
  <2>1. /\ importer[p].step = "member" /\ importer[p].at \notin DOMAIN b
        /\ importer' = [importer EXCEPT ![p] = IdleImport] /\ UNCHANGED <<invoices, claims>>
        /\ completed' = completed \cup {b}
    BY <1>11 DEF FinishImport
  <2>2. b \in Seq(Xmls) /\ importer[p].at \in Nat /\ importer[p].at > 0 /\ Imported(invoices, importer[p])
    BY <2>1 DEF ImportInv, Importers
  <2>3. \A i \in DOMAIN b : i < importer[p].at
    BY <2>1, <2>2
  <2>4. \A i \in DOMAIN b : b[i].isXml /\ b[i].parses => HasUuid(b[i].uuid)
    BY <2>1, <2>2, <2>3 DEF Imported, InRows, HasUuid
  <2> HIDE DEF b
  <2>5. CompletedIsComplete'
    BY <2>1, <2>4 DEF ImportInv, CompletedIsComplete, HasUuid
  <2> QED
    BY <1>2, <1>3, <2>1, <2>5 DEF ImportInv, ReportsAreTrue, HasUuid
<1> QED
  BY <1>1, <1>5, <1>7, <1>8, <1>9, <1>10, <1>11 DEF ImportNext

LEMMA ImportAlways == ImportSpec => []ImportInv
<1>1. ImportInit => ImportInv
  BY DEF ImportInit, ImportInv, IdleImport, Importers, Imported, ReportsAreTrue, CompletedIsComplete
<1> QED
  BY <1>1, ImportStep, PTL DEF ImportSpec

\* ReportsAreTrue (import_xml_bytes of service.py): what import commands report as imported
\* or as a duplicate is in the table, and no UUID is there twice, however many of them race.
THEOREM ImportReportsAreTrue == ImportSpec => []ReportsAreTrue
BY ImportAlways, PTL DEF ImportInv

\* CompletedIsComplete (import_zip_file): an import that reached its end has every valid
\* file of its batch in the table, whatever crashed or raced before.
THEOREM CompletedImportsAreComplete == ImportSpec => []CompletedIsComplete
BY ImportAlways, PTL DEF ImportInv
-----------------------------------------------------------------------------
(* Package extraction. *)

\* The file is there, or a second command is just rewriting it, or died over it.
Present(z, i) ==
  \/ objects[<<z, i>>] = "whole"
  \/ /\ <<z, i>> \in overwritten
     /\ \/ \E p \in ExtractProcs : ExtractAt(p, "write") /\ KeyAt(p) = <<z, i>>
        \/ extractCrashes > 0

ExtractSteps == {"idle", "check", "open", "write", "parse"}
Extracting(e) ==
  /\ DOMAIN e = {"step", "zip", "at", "accepted", "rejected"}
  /\ e.step \in ExtractSteps /\ e.zip \in Zips /\ e.at \in Nat
  /\ e.step # "idle" => Acceptable(e.zip)
  /\ e.step \in {"check", "open", "write"} => e.at \in FilesOf(e.zip)

ExtractTypes ==
  /\ objects \in [Keys -> {"absent", "torn", "whole"}]
  /\ extract = [p \in ExtractProcs |-> extract[p]]
  /\ \A p \in ExtractProcs : Extracting(extract[p])
  /\ outcomes = [z \in Zips |-> outcomes[z]]
  /\ extractCrashes \in Nat

\* A command has the files behind it, and all of them once it parses.
Behind(e, i) == e.step # "idle" /\ (i < e.at \/ e.step = "parse")
FilesBehind ==
  \A p \in ExtractProcs : \A i \in FilesOf(extract[p].zip) :
    Behind(extract[p], i) => Present(extract[p].zip, i)

OnlyAcceptable ==
  \A z \in Zips :
    /\ Reported(z, "rejected") => ~Acceptable(z)
    /\ \A i \in FilesOf(z) : objects[<<z, i>>] # "absent" => Acceptable(z)
    /\ Reported(z, "downloaded") => \A i \in FilesOf(z) : Present(z, i)

ExtractInv == ExtractTypes /\ FilesBehind /\ OnlyAcceptable

LEMMA IdleExtractType == IdleExtract.step = "idle" /\ Extracting(IdleExtract)
BY ExtractionAssumption DEF IdleExtract, Extracting, ExtractSteps

LEMMA MemberCount == ASSUME NEW z \in Zips PROVE Len(z.members) \in Nat
BY ExtractionAssumption DEF IsZip

LEMMA KeysOfFiles == \A z \in Zips : \A i \in FilesOf(z) : <<z, i>> \in Keys
BY DEF Keys

\* A command that changes nothing but its own progress.
LEMMA OwnProgress ==
  ASSUME ExtractTypes, NEW p \in ExtractProcs, NEW e, Extracting(e),
         extract' = [extract EXCEPT ![p] = e]
  PROVE  /\ extract' = [q \in ExtractProcs |-> extract'[q]]
         /\ \A q \in ExtractProcs : Extracting(extract'[q])
         /\ extract'[p] = e
         /\ \A q \in ExtractProcs \ {p} : extract'[q] = extract[q]
BY DEF ExtractTypes

\* What is present stays present, as long as no command stops writing without having
\* written the file, or a crash is counted.
LEMMA PresentStays ==
  ASSUME ExtractTypes, NEW z \in Zips, NEW i \in FilesOf(z), Present(z, i),
         overwritten \subseteq overwritten', extractCrashes' \in Nat, extractCrashes' >= extractCrashes,
         objects'[<<z, i>>] = "whole"
           \/ /\ objects'[<<z, i>>] = objects[<<z, i>>]
              /\ extractCrashes' > 0
                   \/ \A p \in ExtractProcs : ExtractAt(p, "write") => extract'[p] = extract[p]
           \/ /\ <<z, i>> \in overwritten'
              /\ \E p \in ExtractProcs : extract'[p].step = "write" /\ <<extract'[p].zip, extract'[p].at>> = <<z, i>>
  PROVE  Present(z, i)'
<1>1. CASE objects'[<<z, i>>] = "whole"
  BY <1>1 DEF Present
<1>2. CASE /\ <<z, i>> \in overwritten'
           /\ \E p \in ExtractProcs : extract'[p].step = "write" /\ <<extract'[p].zip, extract'[p].at>> = <<z, i>>
  BY <1>2 DEF Present, ExtractAt, KeyAt
<1>3. CASE /\ objects'[<<z, i>>] = objects[<<z, i>>]
           /\ extractCrashes' > 0 \/ \A p \in ExtractProcs : ExtractAt(p, "write") => extract'[p] = extract[p]
  <2>1. CASE objects[<<z, i>>] = "whole"
    BY <1>3, <2>1 DEF Present
  <2>2. CASE <<z, i>> \in overwritten /\ (extractCrashes > 0 \/ extractCrashes' > 0)
    <3>1. extractCrashes' > 0
      BY <2>2 DEF ExtractTypes
    <3> QED
      BY <2>2, <3>1 DEF Present
  <2>3. CASE /\ <<z, i>> \in overwritten /\ ~(extractCrashes' > 0)
             /\ \E p \in ExtractProcs : ExtractAt(p, "write") /\ KeyAt(p) = <<z, i>>
    <3>1. PICK p \in ExtractProcs : ExtractAt(p, "write") /\ KeyAt(p) = <<z, i>>
      BY <2>3
    <3>2. extract'[p] = extract[p]
      BY <1>3, <2>3, <3>1
    <3> QED
      BY <2>3, <3>1, <3>2 DEF Present, ExtractAt, KeyAt
  <2> QED
    BY <2>1, <2>2, <2>3 DEF Present
<1> QED
  BY <1>1, <1>2, <1>3

\* A command ends with a report about its package.
LEMMA ReportEnds ==
  ASSUME ExtractInv, NEW p \in ExtractProcs, NEW kind \in {"collision", "downloaded"},
         NEW accepted, NEW rejected, ~ExtractAt(p, "idle"), ~ExtractAt(p, "write"),
         kind = "downloaded" => \A i \in FilesOf(extract[p].zip) : Present(extract[p].zip, i),
         Report(p, Result(kind, accepted, rejected)),
         UNCHANGED <<objects, overwritten, extractCrashes>>
  PROVE  ExtractInv'
<1> DEFINE z == extract[p].zip
<1>1. /\ extract' = [extract EXCEPT ![p] = IdleExtract]
      /\ outcomes' = [outcomes EXCEPT ![z] = @ \cup {[kind |-> kind, accepted |-> accepted, rejected |-> rejected]}]
  BY DEF Report, Result
<1>2. z \in Zips /\ Acceptable(z)
  BY DEF ExtractInv, ExtractTypes, Extracting, ExtractAt
<1> HIDE DEF z
<1>3. /\ extract' = [q \in ExtractProcs |-> extract'[q]]
      /\ \A q \in ExtractProcs : Extracting(extract'[q])
      /\ extract'[p] = IdleExtract
      /\ \A q \in ExtractProcs \ {p} : extract'[q] = extract[q]
  BY <1>1, OwnProgress, IdleExtractType DEF ExtractInv
<1>4. ExtractTypes'
  BY <1>1, <1>3 DEF ExtractInv, ExtractTypes
<1>5. ASSUME NEW y \in Zips, NEW i \in FilesOf(y), Present(y, i) PROVE Present(y, i)'
  <2>1. \A q \in ExtractProcs : ExtractAt(q, "write") => extract'[q] = extract[q]
    BY <1>3
  <2>2. extractCrashes' \in Nat /\ extractCrashes' >= extractCrashes
    BY DEF ExtractInv, ExtractTypes
  <2> QED
    BY <1>5, <2>1, <2>2, PresentStays DEF ExtractInv
<1>6. FilesBehind'
  BY <1>3, <1>5, IdleExtractType DEF ExtractInv, FilesBehind, Behind, ExtractTypes, Extracting
<1>7. ASSUME NEW y \in Zips PROVE /\ Reported(y, "rejected")' => Reported(y, "rejected")
                                  /\ Reported(y, "downloaded")' => Reported(y, "downloaded") \/ (kind = "downloaded" /\ y = z)
  <2>1. CASE y = z
    <3>1. outcomes'[y] = outcomes[y] \cup {[kind |-> kind, accepted |-> accepted, rejected |-> rejected]}
      BY <1>1, <1>2, <2>1 DEF ExtractInv, ExtractTypes
    <3> QED
      BY <2>1, <3>1 DEF Reported
  <2>2. CASE y # z
    <3>1. outcomes'[y] = outcomes[y]
      BY <1>1, <2>2 DEF ExtractInv, ExtractTypes
    <3> QED
      BY <3>1 DEF Reported
  <2> QED
    BY <2>1, <2>2
<1>8. OnlyAcceptable'
  BY <1>5, <1>7 DEF ExtractInv, OnlyAcceptable, z
<1> QED
  BY <1>4, <1>6, <1>8 DEF ExtractInv

\* A command moves on, and its file is in the state the step leaves it in: whole, torn by
\* its own hand, or as it was.
LEMMA MoveOn ==
  ASSUME ExtractInv, NEW p \in ExtractProcs, NEW e, Extracting(e), UNCHANGED outcomes,
         extract' = [extract EXCEPT ![p] = e],
         objects' \in [Keys -> {"absent", "torn", "whole"}],
         overwritten \subseteq overwritten', extractCrashes' \in Nat, extractCrashes' >= extractCrashes,
         \A k \in Keys : /\ objects'[k] # "absent" /\ objects[k] = "absent" => Acceptable(k[1])
                         /\ objects'[k] # objects[k] /\ objects'[k] # "whole" =>
                              /\ k = <<e.zip, e.at>> /\ e.step = "write"
                              /\ objects[k] # "absent" => k \in overwritten',
         \/ ~ExtractAt(p, "write") \/ extractCrashes' > 0
         \/ objects'[KeyAt(p)] = "whole",
         \A i \in FilesOf(e.zip) : Behind(e, i) =>
           \/ objects'[<<e.zip, i>>] = "whole"
           \/ e.zip = extract[p].zip /\ Behind(extract[p], i)
  PROVE  ExtractInv'
<1>1. /\ extract' = [q \in ExtractProcs |-> extract'[q]]
      /\ \A q \in ExtractProcs : Extracting(extract'[q])
      /\ extract'[p] = e
      /\ \A q \in ExtractProcs \ {p} : extract'[q] = extract[q]
  BY OwnProgress DEF ExtractInv
<1>2. ExtractTypes'
  BY <1>1 DEF ExtractInv, ExtractTypes
<1>3. ASSUME NEW y \in Zips, NEW i \in FilesOf(y), Present(y, i) PROVE Present(y, i)'
  <2> DEFINE k == <<y, i>>
  <2>1. k \in Keys
    BY KeysOfFiles
  <2>2. CASE objects'[k] = "whole"
    BY <2>2 DEF Present
  <2>3. CASE objects'[k] # objects[k] /\ objects'[k] # "whole"
    <3>1. k = <<e.zip, e.at>> /\ e.step = "write" /\ (objects[k] # "absent" => k \in overwritten')
      BY <2>1, <2>3
    <3>2. k \in overwritten'
      BY <1>3, <3>1 DEF Present
    <3> QED
      BY <1>1, <3>1, <3>2 DEF Present, ExtractAt, KeyAt
  <2>4. CASE objects'[k] = objects[k] /\ objects'[k] # "whole"
    <3>1. CASE extractCrashes' > 0 \/ ~ExtractAt(p, "write")
      <4>1. extractCrashes' > 0 \/ \A q \in ExtractProcs : ExtractAt(q, "write") => extract'[q] = extract[q]
        BY <1>1, <3>1
      <4> QED
        BY <1>3, <2>4, <4>1, PresentStays DEF ExtractInv
    <3>2. CASE ~(extractCrashes' > 0) /\ objects'[KeyAt(p)] = "whole"
      <4>1. k \in overwritten /\ ~(extractCrashes > 0)
        BY <1>3, <2>4, <3>2 DEF Present, ExtractInv, ExtractTypes
      <4>2. PICK q \in ExtractProcs : ExtractAt(q, "write") /\ KeyAt(q) = k
        BY <1>3, <2>4, <4>1 DEF Present
      <4>3. q # p
        BY <2>4, <3>2, <4>2
      <4>4. extract'[q] = extract[q]
        BY <1>1, <4>3
      <4> QED
        BY <4>1, <4>2, <4>4 DEF Present, ExtractAt, KeyAt
    <3> QED
      BY <3>1, <3>2
  <2> QED
    BY <2>2, <2>3, <2>4
<1>4. FilesBehind'
  <2>1. ASSUME NEW q \in ExtractProcs, NEW z \in Zips, z = extract'[q].zip, NEW i \in FilesOf(z), Behind(extract'[q], i)
        PROVE  Present(z, i)'
    <3>1. CASE objects'[<<z, i>>] = "whole"
      BY <3>1 DEF Present
    <3>2. CASE z = extract[q].zip /\ Behind(extract[q], i)
      BY <1>3, <3>2 DEF ExtractInv, FilesBehind
    <3> QED
      BY <1>1, <2>1, <3>1, <3>2
  <2>2. \A q \in ExtractProcs : extract'[q].zip \in Zips
    BY <1>1 DEF Extracting
  <2> QED
    BY <2>1, <2>2 DEF FilesBehind, Present, FilesOf, Behind
<1>5. \A y \in Zips, kind \in {"rejected", "downloaded"} : Reported(y, kind)' = Reported(y, kind)
  BY DEF Reported
<1>6. ASSUME NEW y \in Zips, NEW i \in FilesOf(y), objects'[<<y, i>>] # "absent" PROVE Acceptable(y)
  <2>1. <<y, i>> \in Keys /\ <<y, i>>[1] = y
    BY KeysOfFiles
  <2> QED
    BY <1>6, <2>1 DEF ExtractInv, OnlyAcceptable
<1>7. OnlyAcceptable'
  BY <1>3, <1>5, <1>6 DEF ExtractInv, OnlyAcceptable
<1> QED
  BY <1>2, <1>4, <1>7 DEF ExtractInv

LEMMA ExtractStep == ExtractInv /\ [ExtractNext]_extractVars => ExtractInv'
<1> SUFFICES ASSUME ExtractInv, [ExtractNext]_extractVars PROVE ExtractInv'
  OBVIOUS
<1> USE ExtractionAssumption
<1>1. CASE UNCHANGED extractVars
  BY <1>1 DEF extractVars, ExtractInv, ExtractTypes, FilesBehind, OnlyAcceptable, Reported, Present,
              ExtractAt, KeyAt
<1>2. objects \in [Keys -> {"absent", "torn", "whole"}] /\ extractCrashes \in Nat /\ extractCrashes >= extractCrashes
  BY DEF ExtractInv, ExtractTypes
<1>3. ASSUME NEW p \in ExtractProcs, NEW z \in Zips, StartExtract(p, z) PROVE ExtractInv'
  <2>1. CASE Acceptable(z)
    <3> DEFINE e == [IdleExtract EXCEPT !.step = "check", !.zip = z]
    <3>1. e.step = "check" /\ e.zip = z /\ e.at = 0 /\ DOMAIN e = {"step", "zip", "at", "accepted", "rejected"}
      BY DEF IdleExtract
    <3>2. extract' = [extract EXCEPT ![p] = e] /\ ExtractAt(p, "idle")
          /\ UNCHANGED <<objects, outcomes, overwritten, extractCrashes>>
      BY <1>3, <2>1 DEF StartExtract
    <3> HIDE DEF e
    <3>3. Extracting(e) /\ ~ExtractAt(p, "write") /\ \A i \in FilesOf(e.zip) : ~Behind(e, i)
      BY <2>1, <3>1, <3>2, MemberCount DEF Extracting, ExtractSteps, FilesOf, Behind, ExtractAt
    <3> QED
      BY <1>2, <3>2, <3>3, MoveOn
  <2>2. CASE ~Acceptable(z)
    <3>1. /\ outcomes' = [outcomes EXCEPT ![z] = @ \cup {[kind |-> "rejected", accepted |-> 0, rejected |-> 0]}]
          /\ UNCHANGED <<extract, objects, overwritten, extractCrashes>>
      BY <1>3, <2>2 DEF StartExtract, Result
    <3>2. \A y \in Zips : \A i : Present(y, i)' = Present(y, i)
      BY <3>1 DEF Present, ExtractAt, KeyAt
    <3>3. ASSUME NEW y \in Zips PROVE /\ Reported(y, "rejected")' => Reported(y, "rejected") \/ y = z
                                      /\ Reported(y, "downloaded")' => Reported(y, "downloaded")
      <4>1. CASE y = z
        <5>1. outcomes'[y] = outcomes[y] \cup {[kind |-> "rejected", accepted |-> 0, rejected |-> 0]}
          BY <3>1, <4>1 DEF ExtractInv, ExtractTypes
        <5> QED
          BY <4>1, <5>1 DEF Reported
      <4>2. CASE y # z
        <5>1. outcomes'[y] = outcomes[y]
          BY <3>1, <4>2 DEF ExtractInv, ExtractTypes
        <5> QED
          BY <5>1 DEF Reported
      <4> QED
        BY <4>1, <4>2
    <3>4. ExtractTypes'
      BY <3>1 DEF ExtractInv, ExtractTypes
    <3>5. FilesBehind'
      <4>1. \A q \in ExtractProcs : extract[q].zip \in Zips
        BY DEF ExtractInv, ExtractTypes, Extracting
      <4> QED
        BY <3>1, <3>2, <4>1 DEF ExtractInv, FilesBehind, Present, ExtractAt, KeyAt
    <3>6. OnlyAcceptable'
      BY <2>2, <3>1, <3>2, <3>3 DEF ExtractInv, OnlyAcceptable
    <3> QED
      BY <3>4, <3>5, <3>6 DEF ExtractInv
  <2> QED
    BY <2>1, <2>2
\* The next file, once the one at hand is whole.
<1>4. ASSUME NEW p \in ExtractProcs, extract[p].step \in {"check", "write"}, NextFile(p), UNCHANGED <<outcomes, overwritten, extractCrashes>>,
             objects' = objects \/ objects' = [objects EXCEPT ![KeyAt(p)] = "whole"],
             objects'[KeyAt(p)] = "whole"
      PROVE  ExtractInv'
  <2> DEFINE n == Len(extract[p].zip.members)
             st == IF extract[p].at = n THEN "parse" ELSE "check"
             at == IF extract[p].at = n THEN 1 ELSE extract[p].at + 1
             e == [extract[p] EXCEPT !.step = st, !.at = at]
  <2>1. Extracting(extract[p]) /\ KeyAt(p) = <<extract[p].zip, extract[p].at>> /\ KeyAt(p) \in Keys
    BY <1>4, KeysOfFiles DEF ExtractInv, ExtractTypes, KeyAt, Extracting
  <2>2. e.step = st /\ e.at = at /\ e.zip = extract[p].zip /\ DOMAIN e = {"step", "zip", "at", "accepted", "rejected"}
    BY <2>1 DEF Extracting
  <2>3. extract' = [extract EXCEPT ![p] = e]
    BY <1>4 DEF NextFile
  <2>4. n \in Nat /\ extract[p].at \in 0..n /\ FilesOf(e.zip) = 0..n /\ Acceptable(e.zip) /\ e.zip \in Zips
    BY <1>4, <2>1, <2>2, MemberCount DEF Extracting, FilesOf
  <2> HIDE DEF e, n
  <2>5. Extracting(e)
    BY <2>2, <2>4 DEF Extracting, ExtractSteps
  <2>6. ASSUME NEW i \in FilesOf(e.zip), Behind(e, i)
        PROVE  objects'[<<e.zip, i>>] = "whole" \/ (e.zip = extract[p].zip /\ Behind(extract[p], i))
    <3>1. i \in 0..n /\ (i < at \/ st = "parse")
      BY <2>2, <2>4, <2>6 DEF Behind
    <3>2. i = extract[p].at \/ i < extract[p].at
      BY <2>4, <3>1
    <3> QED
      BY <1>4, <2>1, <2>2, <3>2 DEF Behind
  <2>7. \A k \in Keys : objects'[k] = objects[k] \/ (k = KeyAt(p) /\ objects'[k] = "whole")
    BY <1>2, <1>4
  <2>8. objects' \in [Keys -> {"absent", "torn", "whole"}]
    BY <1>2, <1>4
  <2>9. KeyAt(p)[1] = e.zip
    BY <2>1, <2>2
  <2> HIDE DEF st, at
  <2> QED
    BY <1>2, <1>4, <2>3, <2>4, <2>5, <2>6, <2>7, <2>8, <2>9, MoveOn
<1>5. ASSUME NEW p \in ExtractProcs, ReuseObject(p) PROVE ExtractInv'
  BY <1>4, <1>5 DEF ReuseObject, ExtractAt
<1>6. ASSUME NEW p \in ExtractProcs, WriteObject(p) PROVE ExtractInv'
  <2>1. KeyAt(p) \in Keys /\ ExtractAt(p, "write")
    BY <1>6, KeysOfFiles DEF WriteObject, ExtractAt, ExtractInv, ExtractTypes, KeyAt, Extracting
  <2> QED
    BY <1>2, <1>4, <1>6, <2>1 DEF WriteObject, ExtractAt
\* The step within the file at hand.
<1>7. ASSUME NEW p \in ExtractProcs, NEW st \in {"open", "write"}, extract[p].step \in {"check", "open"}, Proceeds(p, st)
      PROVE  \E e : /\ extract' = [extract EXCEPT ![p] = e] /\ Extracting(e) /\ e.step = st
                    /\ <<e.zip, e.at>> = KeyAt(p) /\ e.zip = extract[p].zip /\ KeyAt(p) \in Keys
                    /\ \A i \in FilesOf(e.zip) : Behind(e, i) => Behind(extract[p], i)
  <2> DEFINE e == [extract[p] EXCEPT !.step = st]
  <2>1. Extracting(extract[p])
    BY DEF ExtractInv, ExtractTypes
  <2>2. e.step = st /\ e.at = extract[p].at /\ e.zip = extract[p].zip
        /\ DOMAIN e = {"step", "zip", "at", "accepted", "rejected"}
    BY <2>1 DEF Extracting
  <2>3. extract' = [extract EXCEPT ![p] = e]
    BY <1>7 DEF Proceeds
  <2> HIDE DEF e
  <2>4. Extracting(e) /\ KeyAt(p) \in Keys
    BY <1>7, <2>1, <2>2, KeysOfFiles DEF Extracting, ExtractSteps, KeyAt
  <2> QED
    BY <1>7, <2>2, <2>3, <2>4 DEF Behind, KeyAt
<1>8. ASSUME NEW p \in ExtractProcs, Missing(p) PROVE ExtractInv'
  <2>1. Proceeds(p, "open") /\ ExtractAt(p, "check") /\ extract[p].step = "check"
        /\ UNCHANGED <<objects, outcomes, overwritten, extractCrashes>>
    BY <1>8 DEF Missing, ExtractAt
  <2>2. PICK e : /\ extract' = [extract EXCEPT ![p] = e] /\ Extracting(e) /\ e.step = "open"
                 /\ <<e.zip, e.at>> = KeyAt(p) /\ e.zip = extract[p].zip /\ KeyAt(p) \in Keys
                 /\ \A i \in FilesOf(e.zip) : Behind(e, i) => Behind(extract[p], i)
    BY <1>7, <2>1
  <2> QED
    BY <1>2, <2>1, <2>2, MoveOn DEF ExtractAt
<1>9. ASSUME NEW p \in ExtractProcs, OpenObject(p) PROVE ExtractInv'
  <2>1. Proceeds(p, "write") /\ ~ExtractAt(p, "write") /\ extract[p].step = "open"
        /\ UNCHANGED <<outcomes, extractCrashes>>
        /\ objects' = [objects EXCEPT ![KeyAt(p)] = "torn"]
        /\ overwritten \subseteq overwritten' /\ (objects[KeyAt(p)] # "absent" => KeyAt(p) \in overwritten')
    BY <1>9 DEF OpenObject, ExtractAt
  <2>2. PICK e : /\ extract' = [extract EXCEPT ![p] = e] /\ Extracting(e) /\ e.step = "write"
                 /\ <<e.zip, e.at>> = KeyAt(p) /\ e.zip = extract[p].zip /\ KeyAt(p) \in Keys
                 /\ \A i \in FilesOf(e.zip) : Behind(e, i) => Behind(extract[p], i)
    BY <1>7, <2>1
  <2>3. Acceptable(e.zip) /\ KeyAt(p)[1] = e.zip
    BY <2>2 DEF Extracting
  <2>4. \A k \in Keys : objects'[k] = objects[k] \/ k = KeyAt(p)
    BY <1>2, <2>1
  <2>5. objects' \in [Keys -> {"absent", "torn", "whole"}]
    BY <1>2, <2>1
  <2> QED
    BY <1>2, <2>1, <2>2, <2>3, <2>4, <2>5, MoveOn
<1>10. ASSUME NEW p \in ExtractProcs, ParseMember(p) PROVE ExtractInv'
  <2> DEFINE m == extract[p].zip.members[extract[p].at]
             seen == IF objects[KeyAt(p)] = "whole" THEN RowsAccepted(m) ELSE 0
             acc == IF m.ext = ".txt" THEN extract[p].accepted + seen ELSE extract[p].accepted
             rej == IF m.ext = ".txt" /\ objects[KeyAt(p)] = "whole"
                    THEN extract[p].rejected + RowsRejected(m) ELSE extract[p].rejected
             at == extract[p].at + 1
  <2>1. extract' = [extract EXCEPT ![p].at = at, ![p].accepted = acc, ![p].rejected = rej]
        /\ ExtractAt(p, "parse") /\ UNCHANGED <<objects, outcomes, overwritten, extractCrashes>>
    BY <1>10 DEF ParseMember
  <2> HIDE DEF acc, rej, at
  <2> DEFINE e == [extract[p] EXCEPT !.at = at, !.accepted = acc, !.rejected = rej]
  <2>2. Extracting(extract[p])
    BY DEF ExtractInv, ExtractTypes
  <2>3. e.step = extract[p].step /\ e.at = at /\ e.zip = extract[p].zip
        /\ DOMAIN e = {"step", "zip", "at", "accepted", "rejected"}
    BY <2>2 DEF Extracting
  <2>4. extract' = [extract EXCEPT ![p] = e]
    BY <2>1
  <2> HIDE DEF e
  <2>5. Extracting(e) /\ ~ExtractAt(p, "write")
    BY <2>1, <2>2, <2>3 DEF Extracting, ExtractAt, at
  <2>6. \A i \in FilesOf(e.zip) : Behind(e, i) => Behind(extract[p], i)
    BY <2>1, <2>3 DEF Behind, ExtractAt
  <2> QED
    BY <1>2, <2>1, <2>3, <2>4, <2>5, <2>6, MoveOn
<1>11. ASSUME NEW p \in ExtractProcs, Collision(p) \/ FinishExtract(p) PROVE ExtractInv'
  <2>1. PICK kind \in {"collision", "downloaded"} : \E accepted, rejected :
          /\ Report(p, Result(kind, accepted, rejected)) /\ ~ExtractAt(p, "idle") /\ ~ExtractAt(p, "write")
          /\ kind = "downloaded" => ExtractAt(p, "parse")
    BY <1>11 DEF Collision, FinishExtract, ExtractAt
  <2>2. kind = "downloaded" => \A i \in FilesOf(extract[p].zip) : Present(extract[p].zip, i)
    BY <2>1 DEF ExtractInv, FilesBehind, Behind, ExtractAt
  <2>3. UNCHANGED <<objects, overwritten, extractCrashes>>
    BY <1>11 DEF Collision, FinishExtract
  <2>4. PICK accepted, rejected :
          /\ Report(p, Result(kind, accepted, rejected)) /\ ~ExtractAt(p, "idle") /\ ~ExtractAt(p, "write")
    BY <2>1
  <2> QED
    BY <2>2, <2>3, <2>4, ReportEnds
<1>12. ASSUME NEW p \in ExtractProcs, ExtractCrash(p) PROVE ExtractInv'
  <2>1. extract' = [extract EXCEPT ![p] = IdleExtract] /\ extractCrashes' = extractCrashes + 1
        /\ UNCHANGED <<objects, outcomes, overwritten>>
    BY <1>12 DEF ExtractCrash
  <2>2. \A i \in FilesOf(IdleExtract.zip) : ~Behind(IdleExtract, i)
    BY IdleExtractType DEF Behind
  <2>3. extractCrashes' \in Nat /\ extractCrashes' >= extractCrashes /\ extractCrashes' > 0
    BY <1>2, <2>1
  <2> DEFINE e == IdleExtract
  <2>4. extract' = [extract EXCEPT ![p] = e] /\ Extracting(e) /\ \A i \in FilesOf(e.zip) : ~Behind(e, i)
    BY <2>1, <2>2, IdleExtractType
  <2> HIDE DEF e
  <2> QED
    BY <1>2, <2>1, <2>3, <2>4, MoveOn
<1> QED
  BY <1>1, <1>3, <1>5, <1>6, <1>8, <1>9, <1>10, <1>11, <1>12 DEF ExtractNext

\* StorageMatchesReports (process_sat_package, write_bytes_idempotent): a rejected package
\* leaves nothing in storage and a package reported as downloaded is there as a whole, for
\* any packages, commands side by side and crashes between their file operations.
THEOREM ReportedPackagesAreStored == ExtractSpec => []StorageMatchesReports
<1>1. ExtractInit => ExtractInv
  <2> SUFFICES ASSUME ExtractInit PROVE ExtractInv
    OBVIOUS
  <2>1. ExtractTypes
    BY IdleExtractType DEF ExtractInit, ExtractTypes
  <2>2. FilesBehind
    BY IdleExtractType DEF ExtractInit, FilesBehind, Behind
  <2>3. OnlyAcceptable
    BY KeysOfFiles DEF ExtractInit, OnlyAcceptable, Reported
  <2> QED
    BY <2>1, <2>2, <2>3 DEF ExtractInv
<1>2. ExtractInv => StorageMatchesReports
  BY DEF ExtractInv, ExtractTypes, OnlyAcceptable, StorageMatchesReports, Present
<1> QED
  BY <1>1, <1>2, ExtractStep, PTL DEF ExtractSpec

-----------------------------------------------------------------------------
(* Profile configuration. *)

WellFormed(d) == "profiles" \in DOMAIN d /\ \E S : d.profiles \in Seq(S)

ConfigSteps == {"idle", "read", "open", "write"}
OnboardingTypes ==
  /\ onboarding = [p \in Onboarders |-> onboarding[p]]
  /\ \A p \in Onboarders :
       /\ DOMAIN onboarding[p] = {"step", "request", "doc", "beneath"}
       /\ onboarding[p].step \in ConfigSteps
       /\ ~Free(p) => onboarding[p].request \in Requests
  /\ onboarded = [id \in Ids |-> onboarded[id]]
  /\ WellFormed(config.doc)

\* Nothing but valid documents is written.
Unwritten == config.doc = original /\ \A id \in Ids : onboarded[id] = Absent
ValidDocs ==
  /\ Unwritten \/ ValidConfig(config.doc)
  /\ \A p \in Onboarders : onboarding[p].step \in {"open", "write"} =>
       ValidConfig(onboarding[p].doc) /\ WellFormed(onboarding[p].doc)

\* A document has the operator's profiles and the latest version of each onboarded one.
HasVersion(d, id, version) ==
  \E i \in DOMAIN d.profiles : d.profiles[i].id = id /\ d.profiles[i].version = version
Keeps(first, d, versions) ==
  /\ \A i \in DOMAIN first.profiles : KnowsId(d, first.profiles[i].id)
  /\ \A id \in Ids : versions[id] # Absent => HasVersion(d, id, versions[id])

Alone == \A p, q \in Onboarders : ~Free(p) /\ ~Free(q) => p = q
ProfilesKept ==
  ~overlapped =>
    /\ Alone
    /\ config.state # "torn" => Keeps(original, config.doc, onboarded)
    /\ \A p \in Onboarders : onboarding[p].step \in {"open", "write"} =>
         Keeps(original, onboarding[p].doc, [onboarded EXCEPT ![onboarding[p].request.id] = onboarding[p].request.version])

ConfigInv == OnboardingTypes /\ ValidDocs /\ ProfilesKept

LEMMA IdleOnboardingType ==
  /\ IdleOnboarding.step = "idle"
  /\ DOMAIN IdleOnboarding = {"step", "request", "doc", "beneath"}
BY DEF IdleOnboarding

\* PutProfile puts the profile into the document and leaves those of other ids where they are.
LEMMA PutKeeps ==
  ASSUME NEW d, WellFormed(d), NEW profile
  PROVE  LET new == PutProfile(d, profile)
         IN  /\ WellFormed(new)
             /\ \E i \in DOMAIN new.profiles : new.profiles[i] = profile
             /\ \A i \in DOMAIN d.profiles : d.profiles[i].id # profile.id =>
                  i \in DOMAIN new.profiles /\ new.profiles[i] = d.profiles[i]
<1> DEFINE s == d.profiles
           I == {i \in 1..Len(s) : s[i].id = profile.id}
           t == IF I = {} THEN Append(s, profile) ELSE [s EXCEPT ![Min(I)] = profile]
<1>1. PICK S : s \in Seq(S)
  BY DEF WellFormed
<1>2. Len(s) \in Nat /\ DOMAIN s = 1..Len(s) /\ s \in Seq(S \cup {profile})
  BY <1>1
<1>3. I # {} => Min(I) \in I
  <2>1. I \in SUBSET Nat
    BY <1>2
  <2> HIDE DEF I
  <2> QED
    BY <2>1, LeastExists
<1>4. PutProfile(d, profile) = [d EXCEPT !.profiles = t]
  <2>1. CASE I = {}
    BY <2>1 DEF PutProfile, SelectInSeq
  <2>2. CASE I # {}
    <3>1. Min(I) # 0
      BY <1>2, <1>3, <2>2
    <3> QED
      BY <2>2, <3>1 DEF PutProfile, SelectInSeq
  <2> QED
    BY <2>1, <2>2
<1>5. /\ t \in Seq(S \cup {profile})
      /\ \E i \in DOMAIN t : t[i] = profile
      /\ \A i \in DOMAIN s : s[i].id # profile.id => i \in DOMAIN t /\ t[i] = s[i]
  <2>1. CASE I = {}
    <3> DEFINE n == Len(s)
    <3>1. t = Append(s, profile) /\ n \in Nat
      BY <1>2, <2>1
    <3> HIDE DEF t
    <3>2. t \in Seq(S \cup {profile}) /\ DOMAIN t = 1..(n + 1) /\ t[n + 1] = profile
      BY <1>2, <3>1
    <3>3. \A i \in 1..n : t[i] = s[i]
      BY <1>2, <3>1
    <3> HIDE DEF n
    <3>4. n + 1 \in DOMAIN t /\ \A i \in 1..n : i \in DOMAIN t
      BY <3>1, <3>2
    <3>5. DOMAIN s = 1..n
      BY <1>2 DEF n
    <3> QED
      BY <3>2, <3>3, <3>4, <3>5
  <2>2. CASE I # {}
    <3> DEFINE m == Min(I)
    <3>1. m \in DOMAIN s /\ s[m].id = profile.id
      BY <1>2, <1>3, <2>2
    <3>2. t = [s EXCEPT ![m] = profile]
      BY <2>2
    <3> HIDE DEF m, t
    <3>3. t \in Seq(S \cup {profile}) /\ DOMAIN t = DOMAIN s
      BY <1>2, <3>1, <3>2
    <3> QED
      BY <1>2, <3>1, <3>2, <3>3
  <2> QED
    BY <2>1, <2>2
<1> DEFINE new == [d EXCEPT !.profiles = t]
<1> HIDE DEF t
<1>6. new.profiles = t /\ "profiles" \in DOMAIN new
  BY DEF WellFormed
<1> HIDE DEF new
<1>7. WellFormed(new)
  BY <1>5, <1>6 DEF WellFormed
<1>8. PutProfile(d, profile) = new
  BY <1>4 DEF new
<1> QED
  BY <1>5, <1>6, <1>7, <1>8

\* A document that kept everything keeps it with the profile of a request put in.
LEMMA PutRequest ==
  ASSUME WellFormed(config.doc), NEW r \in Requests, onboarded = [id \in Ids |-> onboarded[id]],
         Keeps(original, config.doc, onboarded)
  PROVE  Keeps(original, PutProfile(config.doc, BuildProfile(r)), [onboarded EXCEPT ![r.id] = r.version])
<1> DEFINE b == BuildProfile(r)
           new == PutProfile(config.doc, b)
           versions == [onboarded EXCEPT ![r.id] = r.version]
<1>1. b.id = r.id /\ b.version = r.version /\ r.id \in Ids
  BY DEF BuildProfile, Ids
<1> HIDE DEF b
<1>2. /\ \E i \in DOMAIN new.profiles : new.profiles[i] = b
      /\ \A i \in DOMAIN config.doc.profiles : config.doc.profiles[i].id # b.id =>
           i \in DOMAIN new.profiles /\ new.profiles[i] = config.doc.profiles[i]
  BY PutKeeps
<1> HIDE DEF new
<1>3. ASSUME NEW id, KnowsId(config.doc, id) PROVE KnowsId(new, id)
  <2>1. CASE id = b.id
    BY <1>2, <2>1 DEF KnowsId
  <2>2. CASE id # b.id
    BY <1>2, <1>3, <2>2 DEF KnowsId
  <2> QED
    BY <2>1, <2>2
<1>4. ASSUME NEW id \in Ids, versions[id] # Absent PROVE HasVersion(new, id, versions[id])
  <2>1. CASE id = b.id
    <3>1. versions[id] = b.version
      BY <1>1, <2>1
    <3> QED
      BY <1>2, <2>1, <3>1 DEF HasVersion
  <2>2. CASE id # b.id
    <3>1. versions[id] = onboarded[id]
      BY <1>1, <2>2
    <3>2. HasVersion(config.doc, id, onboarded[id])
      BY <1>4, <3>1 DEF Keeps
    <3> QED
      BY <1>2, <2>2, <3>1, <3>2 DEF HasVersion
  <2> QED
    BY <2>1, <2>2
<1>5. Keeps(original, new, versions)
  BY <1>3, <1>4 DEF Keeps
<1> QED
  BY <1>5 DEF new, b

\* One command makes a step that does not write the document.
LEMMA OneMoves ==
  ASSUME ConfigInv, NEW p \in Onboarders, NEW o, UNCHANGED <<onboarded, original>>,
         onboarding' = [onboarding EXCEPT ![p] = o],
         config'.doc = config.doc, config'.state # "torn" => config.state # "torn",
         DOMAIN o = {"step", "request", "doc", "beneath"}, o.step \in ConfigSteps,
         o.step # "idle" => o.request \in Requests,
         o.step \in {"open", "write"} => ValidConfig(o.doc) /\ WellFormed(o.doc),
         ~overlapped' =>
           /\ ~overlapped
           /\ Free(p) /\ o.step # "idle" => \A q \in Onboarders \ {p} : Free(q)
           /\ o.step \in {"open", "write"} =>
                Keeps(original, o.doc, [onboarded EXCEPT ![o.request.id] = o.request.version])
  PROVE  ConfigInv'
<1>1. /\ onboarding' = [q \in Onboarders |-> onboarding'[q]]
      /\ onboarding'[p] = o
      /\ \A q \in Onboarders \ {p} : onboarding'[q] = onboarding[q]
  BY DEF ConfigInv, OnboardingTypes
<1>2. OnboardingTypes'
  <2>1. ASSUME NEW q \in Onboarders
        PROVE  /\ DOMAIN onboarding'[q] = {"step", "request", "doc", "beneath"}
               /\ onboarding'[q].step \in ConfigSteps
               /\ onboarding'[q].step # "idle" => onboarding'[q].request \in Requests
    BY <1>1 DEF ConfigInv, OnboardingTypes, Free
  <2>2. WellFormed(config'.doc)
    BY DEF ConfigInv, OnboardingTypes
  <2> QED
    BY <1>1, <2>1, <2>2 DEF ConfigInv, OnboardingTypes, Free
<1>3. ValidDocs'
  <2>1. Unwritten' = Unwritten
    BY DEF Unwritten
  <2> QED
    BY <1>1, <2>1 DEF ConfigInv, ValidDocs
<1>4. ASSUME ~overlapped' PROVE Alone' /\ \A q \in Onboarders : onboarding'[q].step \in {"open", "write"} =>
                  Keeps(original, onboarding'[q].doc,
                        [onboarded EXCEPT ![onboarding'[q].request.id] = onboarding'[q].request.version])
  <2>1. Alone /\ ~overlapped
    BY <1>4 DEF ConfigInv, ProfilesKept
  <2>2. Alone'
    BY <1>1, <1>4, <2>1 DEF Alone, Free
  <2>3. ASSUME NEW q \in Onboarders, onboarding'[q].step \in {"open", "write"}
        PROVE  Keeps(original, onboarding'[q].doc,
                     [onboarded EXCEPT ![onboarding'[q].request.id] = onboarding'[q].request.version])
    <3>1. CASE q = p
      BY <1>1, <1>4, <2>3, <3>1
    <3>2. CASE q # p
      <4>1. onboarding'[q] = onboarding[q]
        BY <1>1, <3>2
      <4> QED
        BY <2>1, <2>3, <4>1 DEF ConfigInv, ProfilesKept
    <3> QED
      BY <3>1, <3>2
  <2> QED
    BY <2>2, <2>3
<1>5. ~overlapped' => (config'.state # "torn" => Keeps(original, config'.doc, onboarded))
  BY DEF ConfigInv, ProfilesKept
<1>6. ProfilesKept'
  BY <1>4, <1>5 DEF ProfilesKept
<1> QED
  BY <1>2, <1>3, <1>6 DEF ConfigInv

\* The document goes to the file.
LEMMA WriteKeeps ==
  ASSUME ConfigInv, NEW p \in Onboarders, WriteConfig(p)
  PROVE  ConfigInv'
<1> DEFINE r == onboarding[p].request
           doc == onboarding[p].doc
           versions == [onboarded EXCEPT ![r.id] = r.version]
<1>1. /\ onboarding[p].step = "write" /\ r \in Requests /\ ValidConfig(doc) /\ WellFormed(doc)
      /\ ~overlapped => Alone /\ Keeps(original, doc, versions)
  BY DEF WriteConfig, ConfigInv, OnboardingTypes, ValidDocs, ProfilesKept, Free
<1>2. onboarded' = versions /\ UNCHANGED <<original, overlapped>>
  BY DEF WriteConfig
<1>3. config'.doc = doc
  <2>1. PICK state : config' = [state |-> state, doc |-> doc]
    BY DEF WriteConfig
  <2> QED
    BY <2>1
<1>4. /\ onboarding' = [q \in Onboarders |-> onboarding'[q]]
      /\ onboarding'[p] = IdleOnboarding
      /\ \A q \in Onboarders \ {p} :
           onboarding'[q] = [onboarding[q] EXCEPT !.beneath = @ \/ onboarding[q].step = "write"]
  BY DEF WriteConfig
<1>5. ASSUME NEW q \in Onboarders \ {p}
      PROVE  /\ DOMAIN onboarding'[q] = {"step", "request", "doc", "beneath"}
             /\ onboarding'[q].step = onboarding[q].step /\ onboarding'[q].request = onboarding[q].request
             /\ onboarding'[q].doc = onboarding[q].doc
  <2> DEFINE b == onboarding[q].beneath \/ onboarding[q].step = "write"
  <2>1. onboarding'[q] = [onboarding[q] EXCEPT !.beneath = b]
    BY <1>4
  <2> HIDE DEF b
  <2> QED
    BY <2>1 DEF ConfigInv, OnboardingTypes
<1>6. onboarded' = [id \in Ids |-> onboarded'[id]]
  BY <1>2 DEF ConfigInv, OnboardingTypes
<1> HIDE DEF versions, doc, r
<1>7. OnboardingTypes'
  <2>1. ASSUME NEW q \in Onboarders
        PROVE  /\ DOMAIN onboarding'[q] = {"step", "request", "doc", "beneath"}
               /\ onboarding'[q].step \in ConfigSteps
               /\ onboarding'[q].step # "idle" => onboarding'[q].request \in Requests
    <3>1. CASE q = p
      BY <1>4, <3>1, IdleOnboardingType DEF ConfigSteps
    <3>2. CASE q # p
      BY <1>5, <3>2 DEF ConfigInv, OnboardingTypes, Free
    <3> QED
      BY <3>1, <3>2
  <2>2. WellFormed(config'.doc)
    BY <1>1, <1>3
  <2> QED
    BY <1>4, <1>6, <2>1, <2>2 DEF OnboardingTypes, Free
<1>8. ValidDocs'
  <2>1. ValidConfig(config'.doc)
    BY <1>1, <1>3
  <2> QED
    BY <1>4, <1>5, <2>1, IdleOnboardingType DEF ConfigInv, ValidDocs
<1>9. ASSUME ~overlapped' PROVE /\ Alone' /\ Keeps(original', config'.doc, onboarded')
                                /\ \A q \in Onboarders : onboarding'[q].step = "idle"
  <2>1. ~overlapped /\ Alone /\ Keeps(original, doc, versions)
    BY <1>1, <1>2, <1>9
  <2>2. \A q \in Onboarders : onboarding'[q].step = "idle"
    BY <1>1, <1>4, <1>5, <2>1, IdleOnboardingType DEF Alone, Free
  <2> QED
    BY <1>2, <1>3, <2>1, <2>2 DEF Alone, Free
<1>10. ProfilesKept'
  BY <1>9 DEF ProfilesKept
<1> QED
  BY <1>7, <1>8, <1>10 DEF ConfigInv

LEMMA ConfigStep == ConfigInv /\ [ConfigNext]_configVars => ConfigInv'
<1> SUFFICES ASSUME ConfigInv, [ConfigNext]_configVars PROVE ConfigInv'
  OBVIOUS
<1>1. CASE UNCHANGED configVars
  BY <1>1 DEF configVars, ConfigInv, OnboardingTypes, ValidDocs, Unwritten, ProfilesKept, Alone, Free
\* What does not move a command keeps its fields.
<1>2. ASSUME NEW p \in Onboarders
      PROVE  /\ DOMAIN onboarding[p] = {"step", "request", "doc", "beneath"}
             /\ onboarding[p].step # "idle" => onboarding[p].request \in Requests
             /\ onboarding[p].step \in {"open", "write"} =>
                  /\ ValidConfig(onboarding[p].doc) /\ WellFormed(onboarding[p].doc)
                  /\ ~overlapped => Keeps(original, onboarding[p].doc,
                       [onboarded EXCEPT ![onboarding[p].request.id] = onboarding[p].request.version])
  BY DEF ConfigInv, OnboardingTypes, ValidDocs, ProfilesKept, Free
<1>3. ASSUME NEW p \in Onboarders, NEW r \in Requests, StartOnboarding(p, r) PROVE ConfigInv'
  <2> DEFINE o == [IdleOnboarding EXCEPT !.step = "read", !.request = r]
  <2>1. DOMAIN o = {"step", "request", "doc", "beneath"} /\ o.step = "read" /\ o.request = r
    BY IdleOnboardingType
  <2>2. onboarding' = [onboarding EXCEPT ![p] = o] /\ UNCHANGED <<config, onboarded, original>>
    BY <1>3 DEF StartOnboarding
  <2>3. ~overlapped' => ~overlapped /\ \A q \in Onboarders \ {p} : Free(q)
    BY <1>3 DEF StartOnboarding
  <2> HIDE DEF o
  <2> QED
    BY <2>1, <2>2, <2>3, OneMoves DEF ConfigSteps
<1>4. ASSUME NEW p \in Onboarders, EndOnboarding(p), UNCHANGED <<config, onboarded, original, overlapped>>
      PROVE  ConfigInv'
  <2> DEFINE o == IdleOnboarding
  <2>1. onboarding' = [onboarding EXCEPT ![p] = o] /\ o.step = "idle"
        /\ DOMAIN o = {"step", "request", "doc", "beneath"}
    BY <1>4, IdleOnboardingType DEF EndOnboarding
  <2> HIDE DEF o
  <2> QED
    BY <1>4, <2>1, OneMoves DEF ConfigSteps
<1>5. ASSUME NEW p \in Onboarders, ReadConfig(p) PROVE ConfigInv'
  <2> DEFINE r == onboarding[p].request
             doc == PutProfile(config.doc, BuildProfile(r))
  <2>1. UNCHANGED <<config, onboarded, original, overlapped>> /\ onboarding[p].step = "read" /\ r \in Requests
    BY <1>2, <1>5 DEF ReadConfig
  <2>2. WellFormed(config.doc) /\ onboarded = [id \in Ids |-> onboarded[id]]
    BY DEF ConfigInv, OnboardingTypes
  <2>3. CASE EndOnboarding(p)
    BY <1>4, <2>1, <2>3
  <2>4. CASE /\ config.state # "torn" /\ ValidConfig(doc)
             /\ onboarding' = [onboarding EXCEPT ![p].step = "open", ![p].doc = doc]
    <3>1. WellFormed(doc)
      BY <2>2, PutKeeps
    <3>2. ~overlapped => Keeps(original, doc, [onboarded EXCEPT ![r.id] = r.version])
      BY <2>1, <2>2, <2>4, PutRequest DEF ConfigInv, ProfilesKept
    <3> HIDE DEF doc
    <3> DEFINE o == [onboarding[p] EXCEPT !.step = "open", !.doc = doc]
    <3>3. onboarding' = [onboarding EXCEPT ![p] = o]
      BY <2>4
    <3>4. /\ DOMAIN o = {"step", "request", "doc", "beneath"}
          /\ o.step = "open" /\ o.doc = doc /\ o.request = r
      BY <1>2
    <3> HIDE DEF o, r
    <3>5. ~Free(p)
      BY <2>1 DEF Free
    <3> QED
      BY <2>1, <2>4, <3>1, <3>2, <3>3, <3>4, <3>5, OneMoves DEF ConfigSteps
  <2> QED
    BY <1>5, <2>3, <2>4 DEF ReadConfig
<1>6. ASSUME NEW p \in Onboarders, OpenConfig(p) PROVE ConfigInv'
  <2> DEFINE o == [onboarding[p] EXCEPT !.step = "write"]
  <2>1. /\ onboarding[p].step = "open" /\ onboarding' = [onboarding EXCEPT ![p] = o]
        /\ UNCHANGED <<onboarded, original, overlapped>>
        /\ config' = [config EXCEPT !.state = "torn"]
    BY <1>6 DEF OpenConfig
  <2>2. /\ DOMAIN o = {"step", "request", "doc", "beneath"} /\ o.step = "write"
        /\ o.doc = onboarding[p].doc /\ o.request = onboarding[p].request
    BY <1>2
  <2>3. config'.doc = config.doc /\ (config'.state # "torn" => config.state # "torn")
    BY <2>1
  <2> HIDE DEF o
  <2>4. /\ o.request \in Requests /\ ValidConfig(o.doc) /\ WellFormed(o.doc)
        /\ ~overlapped => Keeps(original, o.doc, [onboarded EXCEPT ![o.request.id] = o.request.version])
    BY <1>2, <2>1, <2>2
  <2> QED
    BY <2>1, <2>2, <2>3, <2>4, OneMoves DEF ConfigSteps, Free
<1>7. ASSUME NEW p \in Onboarders, ConfigCrash(p) PROVE ConfigInv'
  BY <1>4, <1>7 DEF ConfigCrash
<1> QED
  BY <1>1, <1>3, <1>5, <1>6, <1>7, WriteKeeps DEF ConfigNext

LEMMA ConfigAlways == ConfigSpec => []ConfigInv
<1>1. ConfigInit => ConfigInv
  <2> SUFFICES ASSUME ConfigInit PROVE ConfigInv
    OBVIOUS
  <2>1. WellFormed(config.doc)
    <3>1. WellFormed(EmptyDoc)
      <4>1. EmptyDoc.profiles = <<>> /\ "profiles" \in DOMAIN EmptyDoc
        BY DEF EmptyDoc
      <4>2. EmptyDoc.profiles \in Seq({})
        BY <4>1
      <4> QED
        BY <4>1, <4>2 DEF WellFormed
    <3>2. \A d \in HandWritten : WellFormed(d)
      BY ConfigAssumption DEF WellFormed
    <3>3. config.doc = EmptyDoc \/ config.doc \in HandWritten
      BY DEF ConfigInit, NoConfig
    <3> QED
      BY <3>1, <3>2, <3>3
  <2>2. OnboardingTypes
    BY <2>1, IdleOnboardingType DEF ConfigInit, OnboardingTypes, ConfigSteps, Free
  <2>3. ValidDocs
    BY IdleOnboardingType DEF ConfigInit, ValidDocs, Unwritten
  <2>4. Keeps(original, config.doc, onboarded)
    BY DEF ConfigInit, Keeps, KnowsId
  <2>5. ProfilesKept
    BY <2>4, IdleOnboardingType DEF ConfigInit, ProfilesKept, Alone, Free
  <2> QED
    BY <2>2, <2>3, <2>5 DEF ConfigInv
<1> QED
  BY <1>1, ConfigStep, PTL DEF ConfigSpec

\* ConfigStaysLoadable (write_profile_config): a complete configuration file is one that
\* load_config accepts or the operator's own text, whatever onboardings overlap or die.
THEOREM ConfigurationStaysLoadable == ConfigSpec => []ConfigStaysLoadable
<1>1. ConfigInv => ConfigStaysLoadable
  BY DEF ConfigInv, ValidDocs, Unwritten, ConfigStaysLoadable, Loads
<1> QED
  BY <1>1, ConfigAlways, PTL

\* ProfilesPreserved (write_profile_config): as long as no two onboardings overlap, no
\* profile is lost or doubled and each is as its latest onboarding reported it.
THEOREM ProfilesArePreserved == ConfigSpec => []ProfilesPreserved
<1>1. ASSUME ConfigInv PROVE ProfilesPreserved
  <2> SUFFICES ASSUME config.state = "json", ~overlapped, NEW id \in Ids, onboarded[id] # Absent
               PROVE  Cardinality({i \in DOMAIN config.doc.profiles :
                                     config.doc.profiles[i].id = id
                                       /\ config.doc.profiles[i].version = onboarded[id]}) = 1
    BY <1>1 DEF ProfilesPreserved, ConfigInv, ProfilesKept, Keeps
  <2> DEFINE s == config.doc.profiles
  <2>1. HasVersion(config.doc, id, onboarded[id])
    BY <1>1 DEF ConfigInv, ProfilesKept, Keeps
  <2>2. PICK i \in DOMAIN s : s[i].id = id /\ s[i].version = onboarded[id]
    BY <2>1 DEF HasVersion
  <2>3. ValidConfig(config.doc)
    BY <1>1 DEF ConfigInv, ValidDocs, Unwritten
  <2>4. \A j, k \in DOMAIN s : s[j].id = s[k].id => j = k
    BY <2>3 DEF ValidConfig, IsInjective
  <2>5. {j \in DOMAIN s : s[j].id = id /\ s[j].version = onboarded[id]} = {i}
    BY <2>2, <2>4
  <2> QED
    BY <2>5, FS_Singleton
<1> QED
  BY <1>1, ConfigAlways, PTL

-----------------------------------------------------------------------------
(* Backfill plans. *)

\* What the loop of generate_backfill_periods comes to, from the day it has reached.
Earlier(a, b) == IF a < b THEN a ELSE b
Count(current, last, step) == IF current > last THEN 0 ELSE (last - current) \div step + 1
Window(current, last, step, i) ==
  [first |-> current + (i - 1) * step, last |-> Earlier(current + i * step - 1, last)]
Windows(current, last, step) == [i \in 1..Count(current, last, step) |-> Window(current, last, step, i)]

LEMMA CountStep ==
  ASSUME NEW current \in Nat, NEW last \in Nat, NEW step \in {1, 7}, current =< last
  PROVE  /\ Count(current, last, step) \in Nat
         /\ last < current + step => Count(current, last, step) = 1
         /\ ~(last < current + step) => Count(current, last, step) = Count(current + step, last, step) + 1
<1>1. CASE step = 1
  BY <1>1 DEF Count
<1>2. CASE step = 7
  BY <1>2 DEF Count
<1> QED
  BY <1>1, <1>2

LEMMA CountType ==
  ASSUME NEW current \in Nat, NEW last \in Nat, NEW step \in {1, 7}
  PROVE  Count(current, last, step) \in Nat
BY CountStep DEF Count

\* One turn of the loop.
LEMMA WindowsUnfold ==
  ASSUME NEW current \in Nat, NEW last \in Nat, NEW step \in {1, 7}, current =< last
  PROVE  LET end == IF current + step - 1 < last THEN current + step - 1 ELSE last
         IN  Windows(current, last, step)
               = <<[first |-> current, last |-> end]>> \o Windows(end + 1, last, step)
<1> DEFINE end == IF current + step - 1 < last THEN current + step - 1 ELSE last
           a == Windows(current, last, step)
           t == Windows(end + 1, last, step)
           n == Count(current, last, step)
           m == Count(end + 1, last, step)
           w == [first |-> current, last |-> end]
           V == {Window(current, last, step, i) : i \in Nat} \cup {Window(end + 1, last, step, i) : i \in Nat} \cup {w}
<1>1. end \in Nat /\ end + 1 \in Nat /\ n = m + 1 /\ m \in Nat
  <2>1. CASE last < current + step
    <3>1. end = last /\ n = 1
      BY <2>1, CountStep
    <3>2. m = 0
      BY <3>1 DEF Count
    <3> QED
      BY <3>1, <3>2
  <2>2. CASE ~(last < current + step)
    <3>1. end + 1 = current + step
      BY <2>2
    <3>2. n = Count(current + step, last, step) + 1 /\ current + step \in Nat
      BY <2>2, CountStep
    <3>3. m = Count(current + step, last, step)
      BY <3>1
    <3>4. m \in Nat
      BY <3>2, <3>3, CountType
    <3>5. end \in Nat
      BY <2>2
    <3> QED
      BY <3>1, <3>2, <3>3, <3>4, <3>5
  <2> QED
    BY <2>1, <2>2
<1>2. Window(current, last, step, 1) = w
  BY DEF Window, Earlier
<1>3. ASSUME NEW i \in 1..m PROVE Window(current, last, step, i + 1) = Window(end + 1, last, step, i)
  <2>1. end + 1 = current + step
    BY <1>1, <1>3 DEF Count
  <2>2. CASE step = 1
    BY <2>1, <2>2 DEF Window, Earlier
  <2>3. CASE step = 7
    BY <2>1, <2>3 DEF Window, Earlier
  <2> QED
    BY <2>2, <2>3
<1>4. a = [i \in 1..n |-> Window(current, last, step, i)] /\ t = [i \in 1..m |-> Window(end + 1, last, step, i)]
  BY DEF Windows
<1> HIDE DEF end, a, t, n, m, w
<1>5. a \in Seq(V) /\ Len(a) = n /\ t \in Seq(V) /\ Len(t) = m
  <2>1. a \in [1..n -> V] /\ t \in [1..m -> V]
    BY <1>1, <1>4
  <2> HIDE DEF V
  <2> QED
    BY <1>1, <2>1
<1>6. w \in V
  OBVIOUS
<1> HIDE DEF V
<1> DEFINE wt == <<w>> \o t
<1>7. wt \in Seq(V) /\ Len(wt) = n /\ wt[1] = w /\ \A i \in 1..m : wt[i + 1] = t[i]
  BY <1>1, <1>5, <1>6
<1> HIDE DEF wt
<1>8. ASSUME NEW i \in 1..n PROVE a[i] = wt[i]
  <2>1. CASE i = 1
    BY <1>2, <1>4, <1>7, <2>1
  <2>2. CASE i # 1
    <3>1. i - 1 \in 1..m /\ i = (i - 1) + 1
      BY <1>1, <2>2
    <3>2. wt[i] = t[i - 1]
      BY <1>7, <3>1
    <3>3. Window(current, last, step, (i - 1) + 1) = Window(end + 1, last, step, i - 1)
      BY <1>3, <3>1
    <3> QED
      BY <1>4, <3>1, <3>2, <3>3
  <2> QED
    BY <2>1, <2>2
<1>9. a = wt
  BY <1>1, <1>5, <1>7, <1>8
<1> QED
  BY <1>9 DEF end, a, t, w, wt

LEMMA WindowsEnd == ASSUME NEW last \in Nat, NEW step PROVE Windows(last + 1, last, step) = <<>>
BY DEF Windows, Count

\* A recursive function that unfolds as the loop does is the windows: it exists, and there
\* is no other.
Unfolds(f, first, last, step) ==
  f = [current \in first..(last + 1) |->
         IF current > last THEN <<>>
         ELSE LET end == IF current + step - 1 < last THEN current + step - 1 ELSE last
              IN  <<[first |-> current, last |-> end]>> \o f[end + 1]]

LEMMA NextTurn ==
  ASSUME NEW first \in Nat, NEW last \in Nat, NEW step \in {1, 7}, NEW current \in first..last
  PROVE  LET end == IF current + step - 1 < last THEN current + step - 1 ELSE last
         IN  end + 1 \in first..(last + 1) /\ end >= current
OBVIOUS

LEMMA UnfoldingExists ==
  ASSUME NEW first \in Nat, NEW last \in Nat, NEW step \in {1, 7}
  PROVE  Unfolds([current \in first..(last + 1) |-> Windows(current, last, step)], first, last, step)
<1> DEFINE f == [current \in first..(last + 1) |-> Windows(current, last, step)]
           end(current) == IF current + step - 1 < last THEN current + step - 1 ELSE last
           turn(current) == IF current > last THEN <<>>
                            ELSE <<[first |-> current, last |-> end(current)]>> \o f[end(current) + 1]
<1>1. ASSUME NEW current \in first..(last + 1) PROVE Windows(current, last, step) = turn(current)
  <2>1. CASE current > last
    <3>1. current = last + 1
      BY <2>1
    <3> QED
      BY <2>1, <3>1, WindowsEnd
  <2>2. CASE ~(current > last)
    <3>1. current \in first..last /\ current \in Nat /\ current =< last
      BY <2>2
    <3>2. end(current) + 1 \in first..(last + 1)
      BY <3>1, NextTurn
    <3>3. f[end(current) + 1] = Windows(end(current) + 1, last, step)
      BY <3>2
    <3>4. Windows(current, last, step)
            = <<[first |-> current, last |-> end(current)]>> \o Windows(end(current) + 1, last, step)
      BY <3>1, WindowsUnfold
    <3> QED
      BY <2>2, <3>3, <3>4
  <2> QED
    BY <2>1, <2>2
<1>2. f = [current \in first..(last + 1) |-> turn(current)]
  <2> HIDE DEF turn
  <2> QED
    BY <1>1
<1> QED
  BY <1>2 DEF Unfolds

LEMMA UnfoldingUnique ==
  ASSUME NEW first \in Nat, NEW last \in Nat, NEW step \in {1, 7}, NEW f, Unfolds(f, first, last, step), first =< last
  PROVE  f[first] = Windows(first, last, step)
<1> DEFINE Left(current) == last + 1 - current
           S == {n \in Nat : \A current \in first..(last + 1) : Left(current) =< n => f[current] = Windows(current, last, step)}
<1>1. ASSUME NEW current \in first..(last + 1), Left(current) = 0 PROVE f[current] = Windows(current, last, step)
  <2>1. current = last + 1 /\ current > last
    BY <1>1
  <2>2. f[current] = <<>>
    BY <2>1 DEF Unfolds
  <2> QED
    BY <2>1, <2>2, WindowsEnd
<1>2. 0 \in S
  <2>1. \A current \in first..(last + 1) : Left(current) =< 0 => Left(current) = 0
    OBVIOUS
  <2> HIDE DEF Left
  <2> QED
    BY <1>1, <2>1
<1>3. ASSUME NEW n \in Nat, n \in S PROVE n + 1 \in S
  <2> SUFFICES ASSUME NEW current \in first..(last + 1), Left(current) =< n + 1
               PROVE  f[current] = Windows(current, last, step)
    OBVIOUS
  <2> DEFINE end == IF current + step - 1 < last THEN current + step - 1 ELSE last
  <2>1. CASE current > last
    BY <1>1, <2>1
  <2>2. CASE ~(current > last)
    <3>1. current \in first..last /\ current \in Nat /\ current =< last
      BY <2>2
    <3>2. end + 1 \in first..(last + 1) /\ end >= current /\ end \in Nat
      BY <3>1, NextTurn
    <3>3. Left(end + 1) =< n
      BY <3>1, <3>2
    <3>4. f[end + 1] = Windows(end + 1, last, step)
      BY <1>3, <3>2, <3>3
    <3>5. f[current] = <<[first |-> current, last |-> end]>> \o f[end + 1]
      BY <2>2 DEF Unfolds
    <3>6. Windows(current, last, step) = <<[first |-> current, last |-> end]>> \o Windows(end + 1, last, step)
      BY <3>1, WindowsUnfold
    <3> QED
      BY <3>4, <3>5, <3>6
  <2> QED
    BY <2>1, <2>2
<1> HIDE DEF S
<1>4. Nat \subseteq S
  BY <1>2, <1>3, SetInduction
<1>5. last + 1 - first \in S /\ first \in first..(last + 1)
  BY <1>4
<1> QED
  BY <1>5 DEF S

StepOf(kind) == IF kind = "daily" THEN 1 ELSE 7

\* The loop computes the windows.
LEMMA PeriodsAreWindows ==
  ASSUME NEW first \in Nat, NEW last \in Nat, NEW kind \in WindowKinds, first =< last
  PROVE  GeneratePeriods(first, last, kind) = Windows(first, last, StepOf(kind))
<1> DEFINE step == StepOf(kind)
           Unfolding(f) == Unfolds(f, first, last, step)
           it == CHOOSE f : Unfolding(f)
<1>1. step \in {1, 7}
  BY DEF StepOf
<1>2. \E f : Unfolding(f)
  BY <1>1, UnfoldingExists
<1>3. Unfolding(it)
  BY <1>2, Zenon
<1>4. GeneratePeriods(first, last, kind) = it[first]
  BY Zenon DEF GeneratePeriods, Unfolds, StepOf
<1> QED
  BY <1>1, <1>3, <1>4, UnfoldingUnique

\* The windows join without a gap from the first day to the last, none longer than its
\* kind, and every day lies in one.
Join(first, last, n, w) ==
  /\ n \in Nat /\ n >= 1
  /\ w[1].first = first /\ w[n].last = last
  /\ \A i \in 1..(n - 1) : w[i + 1].first = w[i].last + 1
  /\ \A i \in 1..n : /\ w[i].first \in Int /\ w[i].last \in Int
                     /\ w[i].first =< w[i].last /\ w[i].last =< w[i].first + 6
  /\ \A day \in first..last : \E i \in 1..n : day \in w[i].first..w[i].last

LEMMA WindowsJoin ==
  ASSUME NEW first \in Nat, NEW last \in Nat, NEW step \in {1, 7}, first =< last
  PROVE  Join(first, last, Count(first, last, step), Windows(first, last, step))
<1> DEFINE n == Count(first, last, step)
           w == Windows(first, last, step)
<1>1. CASE step = 1
  <2>1. n = last - first + 1
    BY <1>1 DEF Count
  <2>2. ASSUME NEW i \in 1..n PROVE w[i].first = first + i - 1 /\ w[i].last = first + i - 1
    <3>1. Earlier(first + i * step - 1, last) = first + i - 1
      BY <1>1, <2>1, <2>2 DEF Earlier
    <3>2. first + (i - 1) * step = first + i - 1
      BY <1>1
    <3> QED
      BY <3>1, <3>2 DEF Window, Windows
  <2> HIDE DEF n, w
  <2>3. ASSUME NEW day \in first..last PROVE \E i \in 1..n : day \in w[i].first..w[i].last
    <3>1. day - first + 1 \in 1..n
      BY <2>1
    <3> QED
      BY <2>2, <3>1
  <2> QED
    BY <2>1, <2>2, <2>3 DEF Join, n, w
<1>2. CASE step = 7
  <2>1. n \in Nat /\ n >= 1 /\ first + 7 * (n - 1) =< last /\ last < first + 7 * n
    BY <1>2 DEF Count
  <2>2. ASSUME NEW i \in 1..n
        PROVE  /\ w[i].first = first + 7 * (i - 1)
               /\ w[i].last = Earlier(first + 7 * i - 1, last)
    BY <1>2 DEF Window, Windows
  <2> HIDE DEF n, w
  <2>3. /\ \A i \in 1..(n - 1) : w[i].last = first + 7 * i - 1
        /\ w[n].last = last
    BY <2>1, <2>2 DEF Earlier
  <2>4. ASSUME NEW day \in first..last PROVE \E i \in 1..n : day \in w[i].first..w[i].last
    <3> DEFINE i == (day - first) \div 7 + 1
    <3>1. i \in Nat /\ i >= 1 /\ first + 7 * (i - 1) =< day /\ day < first + 7 * i
      OBVIOUS
    <3> HIDE DEF i
    <3>2. i \in 1..n
      BY <2>1, <3>1
    <3> QED
      BY <2>2, <3>1, <3>2 DEF Earlier
  <2>5. \A i \in 1..(n - 1) : w[i + 1].first = w[i].last + 1
    BY <2>1, <2>2, <2>3
  <2>6. \A i \in 1..n : /\ w[i].first \in Int /\ w[i].last \in Int
                        /\ w[i].first =< w[i].last /\ w[i].last =< w[i].first + 6
    BY <2>1, <2>2 DEF Earlier
  <2>7. w[1].first = first
    BY <2>1, <2>2
  <2> QED
    BY <2>1, <2>3, <2>4, <2>5, <2>6, <2>7 DEF Join, n, w
<1> QED
  BY <1>1, <1>2

LEMMA PlanWindows ==
  ASSUME NEW q \in Ranges
  PROVE  /\ q[1] \in Nat /\ q[2] \in Nat /\ q[1] =< q[2] /\ StepOf(q[3]) \in {1, 7}
         /\ Plans[q] = Windows(q[1], q[2], StepOf(q[3]))
<1>1. q[1] \in Nat /\ q[2] \in Nat /\ q[1] =< q[2] /\ q[3] \in WindowKinds
  BY BackfillAssumption DEF Ranges
<1>2. GeneratePeriods(q[1], q[2], q[3]) = Windows(q[1], q[2], StepOf(q[3]))
  BY <1>1, PeriodsAreWindows
<1>3. Plans[q] = GeneratePeriods(q[1], q[2], q[3])
  BY DEF Plans
<1> QED
  BY <1>1, <1>2, <1>3 DEF StepOf

LEMMA EveryPlanIsSound == PlansAreSound
<1> SUFFICES ASSUME NEW q \in Ranges PROVE SoundPlan(q)
  BY DEF PlansAreSound
<1> DEFINE first == q[1]
           last == q[2]
           step == StepOf(q[3])
           n == Count(first, last, step)
           plan == Plans[q]
<1>0. first \in Nat /\ last \in Nat /\ first =< last /\ step \in {1, 7} /\ plan = Windows(first, last, step)
  BY PlanWindows
<1> HIDE DEF first, last, step, plan
<1>1. Join(first, last, n, plan)
  BY <1>0, WindowsJoin
<1>2. plan = [i \in 1..n |-> Window(first, last, step, i)]
  BY <1>0 DEF Windows
<1> HIDE DEF n
<1>3. n \in Nat /\ n >= 1
  BY <1>1 DEF Join
<1>4. Len(plan) = n /\ DOMAIN plan = 1..n
  <2> DEFINE V == {Window(first, last, step, i) : i \in 1..n}
  <2>1. plan \in [1..n -> V]
    BY <1>2
  <2> HIDE DEF V
  <2>2. plan \in Seq(V)
    BY <1>3, <2>1
  <2> QED
    BY <1>2, <1>3, <2>2
<1>5. \A i \in 1..(n - 1) : StartOf(plan[i + 1].first) - EndOf(plan[i].last) = 1
  <2> SUFFICES ASSUME NEW i \in 1..(n - 1) PROVE StartOf(plan[i + 1].first) - EndOf(plan[i].last) = 1
    OBVIOUS
  <2>1. i \in 1..n
    BY <1>3
  <2>2. plan[i + 1].first = plan[i].last + 1 /\ plan[i].last \in Int
    BY <1>1, <2>1 DEF Join
  <2> QED
    BY <2>2 DEF StartOf, EndOf, DayLength
<1>6. \A i \in 1..n : SubmitRangeOK(plan[i]) /\ AdapterRangeOK(plan[i])
  <2> SUFFICES ASSUME NEW i \in 1..n PROVE SubmitRangeOK(plan[i]) /\ AdapterRangeOK(plan[i])
    OBVIOUS
  <2>1. /\ plan[i].first \in Int /\ plan[i].last \in Int
        /\ plan[i].first =< plan[i].last /\ plan[i].last =< plan[i].first + 6
    BY <1>1 DEF Join
  <2> QED
    BY <2>1 DEF SubmitRangeOK, AdapterRangeOK, StartOf, EndOf, DayLength, MaxBackfillRangeDays
<1> QED
  BY <1>1, <1>4, <1>5, <1>6 DEF SoundPlan, Join, plan, first, last

\* The windows on file are a sequence.
OnFile == \E S : requested \in Seq(S)

LEMMA ExhaustedIsCovered ==
  ASSUME OnFile, NEW d \in Directions, NEW q \in Ranges, Pending(d, Plans[q]) = {}, NEW day \in q[1]..q[2]
  PROVE  Covered(d, day)
<1> DEFINE first == q[1]
           last == q[2]
           step == StepOf(q[3])
           n == Count(first, last, step)
           w == Plans[q]
<1>0. /\ first \in Nat /\ last \in Nat /\ first =< last /\ step \in {1, 7} /\ day \in first..last
      /\ w = Windows(first, last, step)
  BY PlanWindows
<1> HIDE DEF first, last, step, w
<1>1. PICK i \in 1..n : day \in w[i].first..w[i].last
  <2>1. Join(first, last, n, w)
    BY <1>0, WindowsJoin
  <2> QED
    BY <1>0, <2>1 DEF Join
<1>2. i \in DOMAIN w
  BY <1>0 DEF Windows
<1> HIDE DEF n
<1>3. Contains(requested, WindowCriteria(d, w[i]))
  BY <1>2 DEF Pending, w
<1>4. PICK j \in 1..Len(requested) : requested[j] = WindowCriteria(d, w[i])
  BY <1>3 DEF Contains
<1>5. j \in DOMAIN requested
  BY DEF OnFile
<1>6. requested[j].direction = d /\ requested[j].first = w[i].first /\ requested[j].last = w[i].last
  BY <1>4 DEF WindowCriteria
<1> QED
  BY <1>1, <1>5, <1>6 DEF Covered

\* BackfillCovers (generate_backfill_periods, sat_backfill_submit): whatever range and
\* window an operator asks for, the plan joins without a gap and passes both range checks,
\* and once it has nothing left to submit every day of it is requested from SAT.
THEOREM ExhaustedPlansCover == BackfillSpec => []BackfillCovers
<1>1. BackfillInit => OnFile
  <2>1. <<>> \in Seq({})
    OBVIOUS
  <2> QED
    BY <2>1 DEF BackfillInit, OnFile
<1>2. OnFile /\ [BackfillNext]_backfillVars => OnFile'
  <2> SUFFICES ASSUME OnFile, [BackfillNext]_backfillVars PROVE OnFile'
    OBVIOUS
  <2>1. PICK S : requested \in Seq(S)
    BY DEF OnFile
  <2>2. requested' = requested \/ \E c : requested' = Append(requested, c)
    BY DEF BackfillNext, SubmitWindow, backfillVars
  <2>3. ASSUME NEW c, requested' = Append(requested, c) PROVE OnFile'
    <3>1. requested' \in Seq(S \cup {c})
      BY <2>1, <2>3
    <3> QED
      BY <3>1 DEF OnFile
  <2> QED
    BY <2>1, <2>2, <2>3 DEF OnFile
<1>3. OnFile => BackfillCovers
  BY EveryPlanIsSound, ExhaustedIsCovered DEF BackfillCovers
<1> QED
  BY <1>1, <1>2, <1>3, PTL DEF BackfillSpec

-----------------------------------------------------------------------------
(* Diagnoses of failed exchanges. *)

\* The rule that decides is the first one that applies.
LEMMA FirstRule ==
  ASSUME NEW rules, NEW n \in Nat, DOMAIN rules = 1..n, NEW i \in 1..n, rules[i][1],
         \A j \in 1..(i - 1) : ~rules[j][1]
  PROVE  FirstOf(rules) = rules[i][2]
<1> DEFINE Is(k) == rules[k][1] /\ \A j \in 1..(k - 1) : ~rules[j][1]
<1>1. \A k \in DOMAIN rules : Is(k) => k = i
  <2> SUFFICES ASSUME NEW k \in 1..n, Is(k), k # i PROVE FALSE
    OBVIOUS
  <2>1. k \in 1..(i - 1) \/ i \in 1..(k - 1)
    OBVIOUS
  <2> QED
    BY <2>1
<1>2. i \in DOMAIN rules /\ Is(i)
  OBVIOUS
<1>3. (CHOOSE k \in DOMAIN rules : Is(k)) = i
  <2> HIDE DEF Is
  <2> QED
    BY <1>1, <1>2
<1> QED
  BY <1>3 DEF FirstOf

\* Tables of three, six and eight rules, the last of which always applies.
LEMMA FirstOfThree ==
  ASSUME NEW rules, DOMAIN rules = 1..3, rules[3][1]
  PROVE  FirstOf(rules) =
         IF rules[1][1] THEN rules[1][2]
         ELSE IF rules[2][1] THEN rules[2][2]
         ELSE rules[3][2]
<1>1. CASE rules[1][1]
  <2>1. 1 \in 1..3 /\ \A j \in 1..(1 - 1) : ~rules[j][1]
    BY <1>1
  <2> QED
    BY <1>1, <2>1, FirstRule
<1>2. CASE ~rules[1][1] /\ rules[2][1]
  <2>1. 2 \in 1..3 /\ \A j \in 1..(2 - 1) : ~rules[j][1]
    BY <1>2
  <2> QED
    BY <1>2, <2>1, FirstRule
<1>3. CASE ~rules[1][1] /\ ~rules[2][1] /\ rules[3][1]
  <2>1. 3 \in 1..3 /\ \A j \in 1..(3 - 1) : ~rules[j][1]
    BY <1>3
  <2> QED
    BY <1>3, <2>1, FirstRule
<1> QED
  BY <1>1, <1>2, <1>3

LEMMA FirstOfSix ==
  ASSUME NEW rules, DOMAIN rules = 1..6, rules[6][1]
  PROVE  FirstOf(rules) =
         IF rules[1][1] THEN rules[1][2]
         ELSE IF rules[2][1] THEN rules[2][2]
         ELSE IF rules[3][1] THEN rules[3][2]
         ELSE IF rules[4][1] THEN rules[4][2]
         ELSE IF rules[5][1] THEN rules[5][2]
         ELSE rules[6][2]
<1>1. CASE rules[1][1]
  <2>1. 1 \in 1..6 /\ \A j \in 1..(1 - 1) : ~rules[j][1]
    BY <1>1
  <2> QED
    BY <1>1, <2>1, FirstRule
<1>2. CASE ~rules[1][1] /\ rules[2][1]
  <2>1. 2 \in 1..6 /\ \A j \in 1..(2 - 1) : ~rules[j][1]
    BY <1>2
  <2> QED
    BY <1>2, <2>1, FirstRule
<1>3. CASE ~rules[1][1] /\ ~rules[2][1] /\ rules[3][1]
  <2>1. 3 \in 1..6 /\ \A j \in 1..(3 - 1) : ~rules[j][1]
    BY <1>3
  <2> QED
    BY <1>3, <2>1, FirstRule
<1>4. CASE ~rules[1][1] /\ ~rules[2][1] /\ ~rules[3][1] /\ rules[4][1]
  <2>1. 4 \in 1..6 /\ \A j \in 1..(4 - 1) : ~rules[j][1]
    BY <1>4
  <2> QED
    BY <1>4, <2>1, FirstRule
<1>5. CASE ~rules[1][1] /\ ~rules[2][1] /\ ~rules[3][1] /\ ~rules[4][1] /\ rules[5][1]
  <2>1. 5 \in 1..6 /\ \A j \in 1..(5 - 1) : ~rules[j][1]
    BY <1>5
  <2> QED
    BY <1>5, <2>1, FirstRule
<1>6. CASE ~rules[1][1] /\ ~rules[2][1] /\ ~rules[3][1] /\ ~rules[4][1]
         /\ ~rules[5][1] /\ rules[6][1]
  <2>1. 6 \in 1..6 /\ \A j \in 1..(6 - 1) : ~rules[j][1]
    BY <1>6
  <2> QED
    BY <1>6, <2>1, FirstRule
<1> QED
  BY <1>1, <1>2, <1>3, <1>4, <1>5, <1>6

LEMMA FirstOfEight ==
  ASSUME NEW rules, DOMAIN rules = 1..8, rules[8][1]
  PROVE  FirstOf(rules) =
         IF rules[1][1] THEN rules[1][2]
         ELSE IF rules[2][1] THEN rules[2][2]
         ELSE IF rules[3][1] THEN rules[3][2]
         ELSE IF rules[4][1] THEN rules[4][2]
         ELSE IF rules[5][1] THEN rules[5][2]
         ELSE IF rules[6][1] THEN rules[6][2]
         ELSE IF rules[7][1] THEN rules[7][2]
         ELSE rules[8][2]
<1>1. CASE rules[1][1]
  <2>1. 1 \in 1..8 /\ \A j \in 1..(1 - 1) : ~rules[j][1]
    BY <1>1
  <2> QED
    BY <1>1, <2>1, FirstRule
<1>2. CASE ~rules[1][1] /\ rules[2][1]
  <2>1. 2 \in 1..8 /\ \A j \in 1..(2 - 1) : ~rules[j][1]
    BY <1>2
  <2> QED
    BY <1>2, <2>1, FirstRule
<1>3. CASE ~rules[1][1] /\ ~rules[2][1] /\ rules[3][1]
  <2>1. 3 \in 1..8 /\ \A j \in 1..(3 - 1) : ~rules[j][1]
    BY <1>3
  <2> QED
    BY <1>3, <2>1, FirstRule
<1>4. CASE ~rules[1][1] /\ ~rules[2][1] /\ ~rules[3][1] /\ rules[4][1]
  <2>1. 4 \in 1..8 /\ \A j \in 1..(4 - 1) : ~rules[j][1]
    BY <1>4
  <2> QED
    BY <1>4, <2>1, FirstRule
<1>5. CASE ~rules[1][1] /\ ~rules[2][1] /\ ~rules[3][1] /\ ~rules[4][1] /\ rules[5][1]
  <2>1. 5 \in 1..8 /\ \A j \in 1..(5 - 1) : ~rules[j][1]
    BY <1>5
  <2> QED
    BY <1>5, <2>1, FirstRule
<1>6. CASE ~rules[1][1] /\ ~rules[2][1] /\ ~rules[3][1] /\ ~rules[4][1]
         /\ ~rules[5][1] /\ rules[6][1]
  <2>1. 6 \in 1..8 /\ \A j \in 1..(6 - 1) : ~rules[j][1]
    BY <1>6
  <2> QED
    BY <1>6, <2>1, FirstRule
<1>7. CASE ~rules[1][1] /\ ~rules[2][1] /\ ~rules[3][1] /\ ~rules[4][1]
         /\ ~rules[5][1] /\ ~rules[6][1] /\ rules[7][1]
  <2>1. 7 \in 1..8 /\ \A j \in 1..(7 - 1) : ~rules[j][1]
    BY <1>7
  <2> QED
    BY <1>7, <2>1, FirstRule
<1>8. CASE ~rules[1][1] /\ ~rules[2][1] /\ ~rules[3][1] /\ ~rules[4][1]
         /\ ~rules[5][1] /\ ~rules[6][1] /\ ~rules[7][1] /\ rules[8][1]
  <2>1. 8 \in 1..8 /\ \A j \in 1..(8 - 1) : ~rules[j][1]
    BY <1>8
  <2> QED
    BY <1>8, <2>1, FirstRule
<1> QED
  BY <1>1, <1>2, <1>3, <1>4, <1>5, <1>6, <1>7, <1>8

\* The table of the auth POST probe, rule by rule, and then those of the live adapter, the
\* matrix probe and the transport probe.
LEMMA PostProbeIs ==
  ASSUME NEW e
  PROVE  ClassifyPostProbe(e) =
         IF e.class = "gaierror" THEN "dns_failed"
         ELSE IF e.class = "cert_verify" THEN "certificate_verify_failed"
         ELSE IF IsSslError(e) THEN "tls_handshake_failed"
         ELSE IF e.class = "timeout" THEN "timeout"
         ELSE IF e.class \in {"remote_disconnected", "eof"} \/ "closed" \in e.says
           THEN "remote_closed_connection"
         ELSE IF IsReset(e) \/ "reset" \in e.says THEN "connection_reset_during_post"
         ELSE IF "proxy" \in e.says THEN "proxy_connect_failed"
         ELSE "client_configuration_error"
<1> DEFINE rules == <<
  <<e.class = "gaierror", "dns_failed">>,
  <<e.class = "cert_verify", "certificate_verify_failed">>,
  <<IsSslError(e), "tls_handshake_failed">>,
  <<e.class = "timeout", "timeout">>,
  <<e.class \in {"remote_disconnected", "eof"} \/ "closed" \in e.says,
    "remote_closed_connection">>,
  <<IsReset(e) \/ "reset" \in e.says, "connection_reset_during_post">>,
  <<"proxy" \in e.says, "proxy_connect_failed">>,
  <<TRUE, "client_configuration_error">> >>
<1>1. ClassifyPostProbe(e) = FirstOf(rules) /\ DOMAIN rules = 1..8
  BY DEF ClassifyPostProbe
<1>2. /\ rules[1][1] <=> e.class = "gaierror"
      /\ rules[2][1] <=> e.class = "cert_verify"
      /\ rules[3][1] <=> IsSslError(e)
      /\ rules[4][1] <=> e.class = "timeout"
      /\ rules[5][1] <=> (e.class \in {"remote_disconnected", "eof"} \/ "closed" \in e.says)
      /\ rules[6][1] <=> (IsReset(e) \/ "reset" \in e.says)
      /\ rules[7][1] <=> "proxy" \in e.says
      /\ rules[8][1]
  OBVIOUS
<1>3. /\ rules[1][2] = "dns_failed"
      /\ rules[2][2] = "certificate_verify_failed"
      /\ rules[3][2] = "tls_handshake_failed"
      /\ rules[4][2] = "timeout"
      /\ rules[5][2] = "remote_closed_connection"
      /\ rules[6][2] = "connection_reset_during_post"
      /\ rules[7][2] = "proxy_connect_failed"
      /\ rules[8][2] = "client_configuration_error"
  OBVIOUS
<1> HIDE DEF rules
<1> QED
  BY <1>1, <1>2, <1>3, FirstOfEight

LEMMA TransportFailureIs ==
  ASSUME NEW e
  PROVE  ClassifyTransportFailure(e) =
         IF e.class = "cert_verify" THEN "certificate_verify_failed"
         ELSE IF IsSslError(e) /\ "client_cert" \in e.says THEN "client_cert_rejected"
         ELSE IF IsSslError(e) THEN "tls_handshake_failed"
         ELSE IF e.class = "timeout" THEN "timeout"
         ELSE IF e.class \in {"remote_disconnected", "eof"} \/ "closed" \in e.says
           THEN "remote_closed_connection"
         ELSE IF IsReset(e) \/ "reset" \in e.says THEN "connection_reset_during_post"
         ELSE IF "proxy" \in e.says THEN "proxy_connect_failed"
         ELSE "client_configuration_error"
<1> DEFINE rules == <<
  <<e.class = "cert_verify", "certificate_verify_failed">>,
  <<IsSslError(e) /\ "client_cert" \in e.says, "client_cert_rejected">>,
  <<IsSslError(e), "tls_handshake_failed">>,
  <<e.class = "timeout", "timeout">>,
  <<e.class \in {"remote_disconnected", "eof"} \/ "closed" \in e.says,
    "remote_closed_connection">>,
  <<IsReset(e) \/ "reset" \in e.says, "connection_reset_during_post">>,
  <<"proxy" \in e.says, "proxy_connect_failed">>,
  <<TRUE, "client_configuration_error">> >>
<1>1. ClassifyTransportFailure(e) = FirstOf(rules) /\ DOMAIN rules = 1..8
  BY DEF ClassifyTransportFailure
<1>2. /\ rules[1][1] <=> e.class = "cert_verify"
      /\ rules[2][1] <=> (IsSslError(e) /\ "client_cert" \in e.says)
      /\ rules[3][1] <=> IsSslError(e)
      /\ rules[4][1] <=> e.class = "timeout"
      /\ rules[5][1] <=> (e.class \in {"remote_disconnected", "eof"} \/ "closed" \in e.says)
      /\ rules[6][1] <=> (IsReset(e) \/ "reset" \in e.says)
      /\ rules[7][1] <=> "proxy" \in e.says
      /\ rules[8][1]
  OBVIOUS
<1>3. /\ rules[1][2] = "certificate_verify_failed"
      /\ rules[2][2] = "client_cert_rejected"
      /\ rules[3][2] = "tls_handshake_failed"
      /\ rules[4][2] = "timeout"
      /\ rules[5][2] = "remote_closed_connection"
      /\ rules[6][2] = "connection_reset_during_post"
      /\ rules[7][2] = "proxy_connect_failed"
      /\ rules[8][2] = "client_configuration_error"
  OBVIOUS
<1> HIDE DEF rules
<1> QED
  BY <1>1, <1>2, <1>3, FirstOfEight

LEMMA MatrixIs ==
  ASSUME NEW e
  PROVE  ClassifyMatrix(e) =
         IF e.class = "gaierror" THEN "dns_failed"
         ELSE IF e.class = "cert_verify" THEN "certificate_verify_failed"
         ELSE IF IsSslError(e) THEN "tls_handshake_failed"
         ELSE IF e.class = "timeout" THEN "timeout"
         ELSE IF IsReset(e) \/ "reset" \in e.says THEN "connection_reset_during_post"
         ELSE IF "closed" \in e.says THEN "remote_closed_connection"
         ELSE IF "proxy" \in e.says THEN "proxy_connect_failed"
         ELSE "client_configuration_error"
<1> DEFINE rules == <<
  <<e.class = "gaierror", "dns_failed">>,
  <<e.class = "cert_verify", "certificate_verify_failed">>,
  <<IsSslError(e), "tls_handshake_failed">>,
  <<e.class = "timeout", "timeout">>,
  <<IsReset(e) \/ "reset" \in e.says, "connection_reset_during_post">>,
  <<"closed" \in e.says, "remote_closed_connection">>,
  <<"proxy" \in e.says, "proxy_connect_failed">>,
  <<TRUE, "client_configuration_error">> >>
<1>1. ClassifyMatrix(e) = FirstOf(rules) /\ DOMAIN rules = 1..8
  BY DEF ClassifyMatrix
<1>2. /\ rules[1][1] <=> e.class = "gaierror"
      /\ rules[2][1] <=> e.class = "cert_verify"
      /\ rules[3][1] <=> IsSslError(e)
      /\ rules[4][1] <=> e.class = "timeout"
      /\ rules[5][1] <=> (IsReset(e) \/ "reset" \in e.says)
      /\ rules[6][1] <=> "closed" \in e.says
      /\ rules[7][1] <=> "proxy" \in e.says
      /\ rules[8][1]
  OBVIOUS
<1>3. /\ rules[1][2] = "dns_failed"
      /\ rules[2][2] = "certificate_verify_failed"
      /\ rules[3][2] = "tls_handshake_failed"
      /\ rules[4][2] = "timeout"
      /\ rules[5][2] = "connection_reset_during_post"
      /\ rules[6][2] = "remote_closed_connection"
      /\ rules[7][2] = "proxy_connect_failed"
      /\ rules[8][2] = "client_configuration_error"
  OBVIOUS
<1> HIDE DEF rules
<1> QED
  BY <1>1, <1>2, <1>3, FirstOfEight

LEMMA TransportProbeIs ==
  ASSUME NEW e
  PROVE  ClassifyTransportProbe(e) =
         IF e.class = "gaierror" THEN "dns_failed"
         ELSE IF e.class = "cert_verify" THEN "certificate_verify_failed"
         ELSE IF IsSslError(e) THEN "tls_handshake_failed"
         ELSE IF e.class \in {"timeout", "url"} THEN "endpoint_unreachable"
         ELSE IF "proxy" \in e.says THEN "proxy_or_firewall_failed"
         ELSE "unexpected_response"
<1> DEFINE rules == <<
  <<e.class = "gaierror", "dns_failed">>,
  <<e.class = "cert_verify", "certificate_verify_failed">>,
  <<IsSslError(e), "tls_handshake_failed">>,
  <<e.class \in {"timeout", "url"}, "endpoint_unreachable">>,
  <<"proxy" \in e.says, "proxy_or_firewall_failed">>,
  <<TRUE, "unexpected_response">> >>
<1>1. ClassifyTransportProbe(e) = FirstOf(rules) /\ DOMAIN rules = 1..6
  BY DEF ClassifyTransportProbe
<1>2. /\ rules[1][1] <=> e.class = "gaierror"
      /\ rules[2][1] <=> e.class = "cert_verify"
      /\ rules[3][1] <=> IsSslError(e)
      /\ rules[4][1] <=> e.class \in {"timeout", "url"}
      /\ rules[5][1] <=> "proxy" \in e.says
      /\ rules[6][1]
  OBVIOUS
<1>3. /\ rules[1][2] = "dns_failed"
      /\ rules[2][2] = "certificate_verify_failed"
      /\ rules[3][2] = "tls_handshake_failed"
      /\ rules[4][2] = "endpoint_unreachable"
      /\ rules[5][2] = "proxy_or_firewall_failed"
      /\ rules[6][2] = "unexpected_response"
  OBVIOUS
<1> HIDE DEF rules
<1> QED
  BY <1>1, <1>2, <1>3, FirstOfSix

\* _classify_response of the POST probes.
LEMMA ResponseIs ==
  ASSUME NEW r, NEW plain
  PROVE  ClassifyResponse(r, plain) =
         IF r.mentions THEN "soap_fault"
         ELSE IF ~Success(r) THEN "http_status_error" ELSE plain
<1> DEFINE rules == << <<r.mentions, "soap_fault">>, <<~Success(r), "http_status_error">>,
                       <<TRUE, plain>> >>
<1>1. ClassifyResponse(r, plain) = FirstOf(rules) /\ DOMAIN rules = 1..3
  BY DEF ClassifyResponse
<1>2. (rules[1][1] <=> r.mentions) /\ (rules[2][1] <=> ~Success(r)) /\ rules[3][1]
  OBVIOUS
<1>3. rules[1][2] = "soap_fault" /\ rules[2][2] = "http_status_error" /\ rules[3][2] = plain
  OBVIOUS
<1> HIDE DEF rules
<1> QED
  BY <1>1, <1>2, <1>3, FirstOfThree

\* The transport probe takes redirects for answers and asks a WSDL request for a WSDL.
LEMMA HttpProbeIs ==
  ASSUME NEW o, NEW wsdl \in BOOLEAN, ~o.failed
  PROVE  HttpProbe(o, wsdl).ok <=>
           o.response.status \in 200..399 /\ (wsdl => o.response.wsdl)
<1> DEFINE word == IF wsdl THEN "wsdl_unavailable" ELSE "http_status_error"
           rules == << <<o.response.status \notin 200..399, word>>,
                       <<wsdl /\ ~o.response.wsdl, "unexpected_response">>,
                       <<TRUE, "ok">> >>
<1>1. word # "ok"
  OBVIOUS
<1>2. HttpProbe(o, wsdl).ok <=> FirstOf(rules) = "ok"
  BY DEF HttpProbe
<1> HIDE DEF word
<1>3. DOMAIN rules = 1..3
  OBVIOUS
<1>4. /\ rules[1][1] <=> o.response.status \notin 200..399
      /\ rules[2][1] <=> (wsdl /\ ~o.response.wsdl)
      /\ rules[3][1]
  OBVIOUS
<1>5. rules[1][2] = word /\ rules[2][2] = "unexpected_response" /\ rules[3][2] = "ok"
  OBVIOUS
<1> HIDE DEF rules
<1> QED
  BY <1>1, <1>2, <1>3, <1>4, <1>5, FirstOfThree

\* Exchanges that failed, and exchanges with an answer.
LEMMA ExceptionsDiagnosed ==
  ASSUME outcome \in Outcomes, outcome.failed PROVE DiagnosesAgree
<1> DEFINE e == outcome.exc
           post == ClassifyPostProbe(e)
           live == ClassifyTransportFailure(e)
           matrix == ClassifyMatrix(e)
           plain == ClassifyTransportProbe(e)
<1>1. e.class \in ExceptionClasses /\ (e.class = "reset" => "reset" \in e.says)
  BY DEF Outcomes, Exceptions
<1>2. /\ PostProbe(outcome).ok <=>
           post \in {"post_reached_server", "http_status_error", "soap_fault"}
      /\ MatrixRow(outcome).ok <=>
           matrix \in {"http_status_error", "soap_fault", "unexpected_http_response"}
      /\ MatrixRow(outcome).tls = "failed" <=> IsSslError(e)
      /\ HttpProbe(outcome, TRUE).ok <=> plain = "ok"
      /\ HttpProbe(outcome, FALSE).ok <=> plain = "ok"
  BY DEF PostProbe, MatrixRow, HttpProbe
<1>3. \/ post = live
      \/ e.class = "gaierror" /\ post = "dns_failed"
      \/ live = "client_cert_rejected" /\ post = "tls_handshake_failed"
  BY <1>1, PostProbeIs, TransportFailureIs DEF IsSslError
<1>4. /\ post # "remote_closed_connection" => matrix = post
      /\ matrix = "remote_closed_connection" => post = matrix
  BY <1>1, PostProbeIs, MatrixIs DEF IsSslError, IsReset
<1>5. /\ IsSslError(e) <=> live \in
           {"certificate_verify_failed", "client_cert_rejected", "tls_handshake_failed"}
      /\ live = "timeout" <=> post = "timeout"
      /\ live # "verify_read_timeout"
  BY <1>1, TransportFailureIs, PostProbeIs DEF IsSslError
<1>6. /\ post \notin {"post_reached_server", "http_status_error", "soap_fault"}
      /\ matrix \notin {"http_status_error", "soap_fault", "unexpected_http_response"}
      /\ plain # "ok"
  BY PostProbeIs, MatrixIs, TransportProbeIs
<1>7. \A stage : SendErrorKind(e, stage) =
        IF stage = "verify" /\ live = "timeout" THEN "verify_read_timeout" ELSE live
  BY DEF SendErrorKind
<1>8. ASSUME NEW stage \in {"auth", "request", "verify", "download"}
      PROVE  LET kind == SendErrorKind(e, stage)
             IN  /\ \/ post = kind
                    \/ e.class = "gaierror" /\ post = "dns_failed"
                    \/ kind = "client_cert_rejected" /\ post = "tls_handshake_failed"
                    \/ kind = "verify_read_timeout" /\ post = "timeout"
                 /\ kind = "verify_read_timeout" <=> post = "timeout" /\ stage = "verify"
                 /\ MatrixRow(outcome).tls = "failed" <=> kind \in
                      {"certificate_verify_failed", "client_cert_rejected", "tls_handshake_failed"}
  BY <1>2, <1>3, <1>5, <1>7
<1> QED
  BY <1>2, <1>4, <1>6, <1>8 DEF DiagnosesAgree

LEMMA ResponsesDiagnosed ==
  ASSUME outcome \in Outcomes, ~outcome.failed PROVE DiagnosesAgree
<1> DEFINE r == outcome.response
<1>1. /\ PostProbe(outcome).kind = ClassifyResponse(r, "post_reached_server")
      /\ PostProbe(outcome).ok <=> ClassifyResponse(r, "post_reached_server")
           \in {"post_reached_server", "http_status_error", "soap_fault"}
      /\ MatrixRow(outcome).kind = ClassifyResponse(r, "unexpected_http_response")
      /\ MatrixRow(outcome).ok <=> ClassifyResponse(r, "unexpected_http_response")
           \in {"http_status_error", "soap_fault", "unexpected_http_response"}
  BY DEF PostProbe, MatrixRow
<1>2. PostProbe(outcome).ok /\ MatrixRow(outcome).ok
  BY <1>1, ResponseIs
<1>3. ~Success(r) =>
        /\ MatrixRow(outcome).kind = PostProbe(outcome).kind
        /\ PostProbe(outcome).kind = HttpResponseErrorKind(r) <=> (r.fault <=> r.mentions)
  <2>1. r \in Responses
    BY DEF Outcomes
  <2>2. r.fault \in BOOLEAN /\ r.mentions \in BOOLEAN
    BY <2>1 DEF Responses
  <2> QED
    BY <1>1, <2>2, ResponseIs DEF HttpResponseErrorKind
<1>4. HttpProbe(outcome, TRUE).ok => HttpProbe(outcome, FALSE).ok
  BY HttpProbeIs
<1> QED
  BY <1>2, <1>3, <1>4 DEF DiagnosesAgree

\* An operator who compares what the live adapter and the probes say of one exchange
\* (_classify_transport_failure, the _classify_exception of each probe, _classify_response)
\* finds no disagreement but the named ones, for every exception and every HTTP status.
THEOREM DiagnosesAreConsistent == MCSpec => []DiagnosesAgree
<1>1. MCInit => outcome \in Outcomes
  <2>1. Outcomes # {}
    <3> DEFINE x == [failed |-> FALSE,
                     response |-> [status |-> 200, fault |-> FALSE, mentions |-> FALSE,
                                  wsdl |-> FALSE]]
    <3>1. x \in Outcomes
      BY DEF Outcomes, Responses
    <3> QED
      BY <3>1
  <2>2. (CHOOSE o \in Outcomes : TRUE) \in Outcomes
    BY <2>1
  <2> QED
    BY <2>2 DEF MCInit
<1>2. outcome \in Outcomes /\ [MCNext]_<<localVars, part>> => (outcome \in Outcomes)'
  BY DEF MCNext, localVars
<1>3. outcome \in Outcomes => DiagnosesAgree
  BY ExceptionsDiagnosed, ResponsesDiagnosed
<1> QED
  BY <1>1, <1>2, <1>3, PTL DEF MCSpec
=============================================================================

------------------------- MODULE PackageExtraction --------------------------
(***************************************************************************)
(* A downloaded SAT package on its way into storage: process_sat_package   *)
(* (package_processor.py) validates every member of the ZIP, stores the    *)
(* ZIP and then its members, each with write_bytes_idempotent              *)
(* (storage.py) under a key made of the package id and the hash of the     *)
(* ZIP; `sat package-download-smoke` (cli.py) then reads the TXT members   *)
(* back and counts their metadata rows (metadata_parser.py) before it      *)
(* reports the package as downloaded.  Commands may run side by side, and  *)
(* die between any two file operations.                                    *)
(***************************************************************************)
EXTENDS Integers, Sequences, SequencesExt

CONSTANTS
  ExtractProcs,      \* download commands
  Zips,              \* downloaded packages, see IsZip
  AllowedExtensions, \* {".txt"} for the live command
  MaxExtractCrashes  \* bound on crashes

\* How the name of a ZIP member can offend, and the part of a metadata row that is wrong.
Forms == {"plain", "directory", "backslash", "absolute", "dotted"}
RowFaults == {"none", "uuid", "issuer", "receiver", "status", "effect", "date", "total"}

\* A ZIP as the processor sees it: package id and hash, whether it opens, and its members
\* sorted by name, each with its name, the name in lower case, form, extension and rows.
IsZip(z) ==
  /\ DOMAIN z = {"id", "opens", "members"} /\ z.opens \in BOOLEAN
  /\ z.members \in Seq(ToSet(z.members))
  /\ \A i \in DOMAIN z.members :
       /\ DOMAIN z.members[i] = {"name", "lower", "form", "ext", "rows"}
       /\ z.members[i].form \in Forms /\ ToSet(z.members[i].rows) \subseteq RowFaults

ASSUME ExtractionAssumption ==
  /\ Zips # {} /\ \A z \in Zips : IsZip(z)
  /\ \A y, z \in Zips : y.id = z.id => y = z
  /\ MaxExtractCrashes \in Nat

\* The files of a package, in the order they are written: the ZIP (0), then its members.
FilesOf(z) == 0..Len(z.members)
Keys == UNION {{z} \X FilesOf(z) : z \in Zips}

VARIABLES
  objects,      \* [Keys -> {"absent", "torn", "whole"}]
  extract,      \* [ExtractProcs -> the command's progress]
  outcomes,     \* history: results reported, per ZIP
  overwritten,  \* history: files a command truncated that came up after it looked for them
  extractCrashes

extractVars == <<objects, extract, outcomes, overwritten, extractCrashes>>

IdleExtract == [step |-> "idle", zip |-> CHOOSE z \in Zips : TRUE, at |-> 0, accepted |-> 0, rejected |-> 0]

ExtractInit ==
  /\ objects = [k \in Keys |-> "absent"]
  /\ extract = [p \in ExtractProcs |-> IdleExtract]
  /\ outcomes = [z \in Zips |-> {}]
  /\ overwritten = {} /\ extractCrashes = 0

KeyAt(p) == <<extract[p].zip, extract[p].at>>
ExtractAt(p, step) == extract[p].step = step
Proceeds(p, step) == extract' = [extract EXCEPT ![p].step = step]
Result(kind, accepted, rejected) == [kind |-> kind, accepted |-> accepted, rejected |-> rejected]
Report(p, result) ==
  /\ outcomes' = [outcomes EXCEPT ![extract[p].zip] = @ \cup {result}]
  /\ extract' = [extract EXCEPT ![p] = IdleExtract]
-----------------------------------------------------------------------------
\* _validate_member_name
MemberOK(m) == m.form = "plain" /\ m.ext \in AllowedExtensions

\* _safe_members: one bad member, or two whose names differ in case at most, reject the
\* package as a whole.
Acceptable(z) ==
  /\ z.opens
  /\ \A i \in DOMAIN z.members : MemberOK(z.members[i])
  /\ \A i, j \in DOMAIN z.members : i # j => z.members[i].lower # z.members[j].lower

\* process_sat_package up to its first write.
StartExtract(p, z) ==
  /\ ExtractAt(p, "idle")
  /\ IF Acceptable(z)
     THEN /\ extract' = [extract EXCEPT ![p] = [IdleExtract EXCEPT !.step = "check", !.zip = z]]
          /\ UNCHANGED outcomes
     ELSE /\ outcomes' = [outcomes EXCEPT ![z] = @ \cup {Result("rejected", 0, 0)}]
          /\ UNCHANGED extract
  /\ UNCHANGED <<objects, overwritten, extractCrashes>>

\* The next file, or the rows of the members once all files are there.
NextFile(p) ==
  extract' = [extract EXCEPT ![p].step = IF extract[p].at = Len(extract[p].zip.members) THEN "parse" ELSE "check",
                             ![p].at = IF @ = Len(extract[p].zip.members) THEN 1 ELSE @ + 1]

\* Mutant: any file is taken as it is.
ReuseUnread(p) ==
  /\ ExtractAt(p, "check")
  /\ objects[KeyAt(p)] # "absent"
  /\ NextFile(p)
  /\ UNCHANGED <<objects, outcomes, overwritten, extractCrashes>>

\* write_bytes_idempotent: a file with the same bytes is taken as it is, ...
ReuseObject(p) ==
  /\ ExtractAt(p, "check")
  /\ objects[KeyAt(p)] = "whole"
  /\ NextFile(p)
  /\ UNCHANGED <<objects, outcomes, overwritten, extractCrashes>>

\* ... other bytes are a storage collision, ...
Collision(p) ==
  /\ ExtractAt(p, "check")
  /\ objects[KeyAt(p)] = "torn"
  /\ Report(p, Result("collision", 0, 0))
  /\ UNCHANGED <<objects, overwritten, extractCrashes>>

\* ... and a missing file is written: Path.write_bytes truncates, then writes.
Missing(p) ==
  /\ ExtractAt(p, "check")
  /\ objects[KeyAt(p)] = "absent"
  /\ Proceeds(p, "open")
  /\ UNCHANGED <<objects, outcomes, overwritten, extractCrashes>>

OpenObject(p) ==
  /\ ExtractAt(p, "open")
  /\ objects' = [objects EXCEPT ![KeyAt(p)] = "torn"]
  /\ overwritten' = IF objects[KeyAt(p)] # "absent" THEN overwritten \cup {KeyAt(p)} ELSE overwritten
  /\ Proceeds(p, "write")
  /\ UNCHANGED <<outcomes, extractCrashes>>

WriteObject(p) ==
  /\ ExtractAt(p, "write")
  /\ objects' = [objects EXCEPT ![KeyAt(p)] = "whole"]
  /\ NextFile(p)
  /\ UNCHANGED <<outcomes, overwritten, extractCrashes>>

-----------------------------------------------------------------------------
\* _entry_from_row: a row is accepted when nothing is wrong with it.
RowsAccepted(m) == Len(SelectSeq(m.rows, LAMBDA f : f = "none"))
RowsRejected(m) == Len(SelectSeq(m.rows, LAMBDA f : f # "none"))

\* _parse_extracted_metadata_txt: each TXT member is read back from storage; a file
\* another command is just rewriting is read as it is and yields fewer rows.
ParseMember(p) ==
  LET m == extract[p].zip.members[extract[p].at]
      seen == IF objects[KeyAt(p)] = "whole" THEN RowsAccepted(m) ELSE 0
  IN  /\ ExtractAt(p, "parse")
      /\ extract[p].at \in DOMAIN extract[p].zip.members
      /\ extract' = [extract EXCEPT ![p].at = @ + 1,
           ![p].accepted = IF m.ext = ".txt" THEN @ + seen ELSE @,
           ![p].rejected = IF m.ext = ".txt" /\ objects[KeyAt(p)] = "whole" THEN @ + RowsRejected(m) ELSE @]
      /\ UNCHANGED <<objects, outcomes, overwritten, extractCrashes>>

\* The command reports the package; its status update is UpsertWrite of VerifyScheduler.
FinishExtract(p) ==
  /\ ExtractAt(p, "parse")
  /\ extract[p].at \notin DOMAIN extract[p].zip.members
  /\ Report(p, Result("downloaded", extract[p].accepted, extract[p].rejected))
  /\ UNCHANGED <<objects, overwritten, extractCrashes>>

ExtractCrash(p) ==
  /\ ~ExtractAt(p, "idle")
  /\ extractCrashes < MaxExtractCrashes
  /\ extractCrashes' = extractCrashes + 1
  /\ extract' = [extract EXCEPT ![p] = IdleExtract]
  /\ UNCHANGED <<objects, outcomes, overwritten>>

ExtractNext ==
  \E p \in ExtractProcs :
    \/ \E z \in Zips : StartExtract(p, z)
    \/ ReuseObject(p) \/ Collision(p) \/ Missing(p) \/ OpenObject(p) \/ WriteObject(p)
    \/ ParseMember(p) \/ FinishExtract(p) \/ ExtractCrash(p)

ExtractSpec == ExtractInit /\ [][ExtractNext]_extractVars

-----------------------------------------------------------------------------
Reported(z, kind) == \E r \in outcomes[z] : r.kind = kind

\* Storage is what the commands have reported.  A rejected package leaves no trace:
\* validation of all members comes before the first write, so neither the ZIP nor a good
\* member next to a bad one is ever stored.  A package reported as downloaded is there as
\* a whole, ZIP and members; the one exception is a file a second command found missing
\* before the first wrote it: it rewrites the same bytes, and only until it has done so, or
\* if it dies, is the file damaged.
StorageMatchesReports ==
  \A z \in Zips : \A i \in FilesOf(z) :
    /\ Reported(z, "rejected") => objects[<<z, i>>] = "absent"
    /\ Reported(z, "downloaded") =>
         \/ objects[<<z, i>>] = "whole"
         \/ /\ <<z, i>> \in overwritten
            /\ \/ \E p \in ExtractProcs : ExtractAt(p, "write") /\ KeyAt(p) = <<z, i>>
               \/ extractCrashes > 0
=============================================================================

------------------------ MODULE LiveExchange_proofs -------------------------
(***************************************************************************)
(* Proofs about `setup` (CredentialSetup) and the live commands that load  *)
(* what it installs (LiveExchange), for any credential sets, any folders   *)
(* and any number of setups, commands, faults and crashes:                 *)
(*   - a setup that no crash and no failing rollback disturbed is all or   *)
(*     nothing (SetupsAreAtomic);                                          *)
(*   - the files a setup replaces outlive it and its crash                 *)
(*     (ReplacedFilesSurvive);                                             *)
(*   - all messages of a command carry one identity                        *)
(*     (CommandsHaveOneIdentity), and what it reports tells how far it     *)
(*     came and whether SAT answered (StagesAreTruthful);                  *)
(*   - a command uses what setup completed, and fails on it only if the    *)
(*     operator's pieces were unusable (InstalledProfilesWork).            *)
(* The inductive invariants follow the step a setup is at: what it has     *)
(* staged, backed up and installed so far, and what it would put back.     *)
(***************************************************************************)
EXTENDS LiveExchange, TLAPS

USE SetupAssumption, ExchangeAssumption

Early == {"clear", "copyCert", "copyKey", "write", "save", "store"}
Forward == Early \cup {"back", "install", "profile", "finalize"}

\* What is known of a setup from the step it is at.
SetupShape ==
  /\ setup \in Setups /\ phrase \in Phrases
  /\ setup.step # "idle" => setup.offer \in Offer /\ setup.last = "none"
  /\ setup.step \in {"clear", "copyCert", "copyKey", "back", "install"} => setup.offer.mode = "copied"
  /\ setup.step \in {"write", "save", "store", "back", "install", "profile", "finalize"} =>
       (setup.tempDir <=> setup.offer.mode = "copied")
  /\ setup.step \in Early => setup.slot = "cert" /\ setup.backups = {} /\ setup.installed = {}
  /\ setup.step \in Early \ {"store"} => ~setup.loaded
  /\ setup.step = "store" => setup.loaded
  /\ setup.step = "back" =>
       \/ setup.slot = "cert" /\ setup.installed = {} /\ setup.backups = {}
       \/ setup.slot = KeySlot(setup.offer.key) /\ setup.installed = {"cert"} /\ setup.backups \subseteq {"cert"}
  /\ setup.step = "install" =>
       \/ setup.slot = "cert" /\ setup.installed = {} /\ setup.backups \subseteq {"cert"}
       \/ setup.slot = KeySlot(setup.offer.key) /\ setup.installed = {"cert"}
  /\ setup.step \in Forward /\ ~setup.tempDir => setup.backups = {} /\ setup.installed = {}
  /\ setup.step = "unlink" => setup.todo \subseteq setup.installed
  /\ setup.step = "restore" => setup.todo \subseteq setup.backups
  /\ setup.step \in {"unlink", "restore"} /\ "rollback" \notin spoiled => setup.allRestored

LEMMA Slotting == \A s : KeySlot(s) \in {"key", "pem"} /\ KeySlot(s) \in Slots
BY DEF KeySlot, Slots

LEMMA IdleSetupShape ==
  ASSUME NEW o \in Offer \cup {NoOffer}, NEW l \in {"none", "done", "failed", "refused"}
  PROVE  /\ IdleSetup(o, l) \in Setups /\ IdleSetup(o, l).step = "idle"
         /\ IdleSetup(o, l).last = l /\ IdleSetup(o, l).offer = o
BY DEF IdleSetup, Setups, Steps, Phrases, Slots

LEMMA EndingShape ==
  ASSUME SetupShape, NEW l \in {"none", "done", "failed", "refused"}, EndSetup(l), phrase' \in Phrases
  PROVE  SetupShape'
<1>1. setup.offer \in Offer \cup {NoOffer}
  BY DEF SetupShape, Setups
<1>2. setup' \in Setups /\ setup'.step = "idle"
  BY <1>1, IdleSetupShape DEF EndSetup
<1> QED
  BY <1>2 DEF SetupShape, Early, Forward

\* A setup that ends keeps what it was given.
LEMMA SetupEnds ==
  ASSUME NEW l, EndSetup(l)
  PROVE  setup'.step = "idle" /\ setup'.last = l /\ setup'.offer = setup.offer
BY DEF EndSetup, IdleSetup

LEMMA RollbackShape ==
  ASSUME SetupShape, setup.step # "idle", NEW b \in BOOLEAN, EnterRollback(b), UNCHANGED phrase
  PROVE  SetupShape'
<1>1. CASE setup.tempDir
  BY <1>1 DEF EnterRollback, SetupShape, Setups, Steps, Early, Forward
<1>2. CASE ~setup.tempDir
  BY <1>2 DEF EnterRollback, SetupShape, Setups, Steps, Early, Forward
<1> QED
  BY <1>1, <1>2

LEMMA ShapeStep == SetupShape /\ [SetupNext]_setupVars => SetupShape'
<1> SUFFICES ASSUME SetupShape, [SetupNext]_setupVars PROVE SetupShape'
  OBVIOUS
<1> USE DEF SetupAt, Continue
<1>1. CASE UNCHANGED setupVars
  BY <1>1 DEF setupVars, disk, SetupShape
<1>2. ASSUME NEW src \in Sources, StartSetup(src) PROVE SetupShape'
  <2> DEFINE i == IdleSetup(src.offer, "none")
             s == IF src.offer.mode = "copied" THEN "clear" ELSE "write"
  <2>1. src.offer \in Offer
    BY DEF Source
  <2>2. /\ i \in Setups /\ i.slot = "cert" /\ i.backups = {} /\ i.installed = {} /\ ~i.loaded
        /\ ~i.tempDir /\ i.last = "none" /\ i.offer = src.offer
    BY <2>1, IdleSetupShape DEF IdleSetup
  <2>3. setup' = [i EXCEPT !.step = s]
    BY <1>2 DEF StartSetup
  <2>4. phrase' \in Phrases
    BY <1>2 DEF StartSetup, disk, SetupShape
  <2>5. s \in {"clear", "write"} /\ (s = "clear" <=> src.offer.mode = "copied")
    OBVIOUS
  <2> HIDE DEF i, s
  <2>6. /\ setup' \in Setups /\ setup'.step = s /\ setup'.offer = src.offer
        /\ setup'.last = "none" /\ setup'.slot = "cert" /\ ~setup'.tempDir
        /\ setup'.backups = {} /\ setup'.installed = {} /\ ~setup'.loaded
    BY <2>2, <2>3, <2>5 DEF Setups, Steps
  <2> QED
    BY <2>1, <2>4, <2>5, <2>6 DEF SetupShape, Early, Forward
<1>3. CASE ClearFails \/ StageFails \/ FingerprintFails
  <2>1. phrase' = phrase /\ EndSetup("refused")
    BY <1>3 DEF ClearFails, StageFails, FingerprintFails, disk
  <2> QED
    BY <2>1, EndingShape DEF SetupShape
<1>4. CASE Finalize \/ RestorePhrase \/ RestorePhraseFails \/ Dies
  <2>1. phrase' \in Phrases
    BY <1>4 DEF Finalize, RestorePhrase, RestorePhraseFails, Dies, disk, SetupShape, Setups
  <2> QED
    BY <1>4, <2>1, EndingShape DEF Finalize, RestorePhrase, RestorePhraseFails, Dies
<1>5. CASE ClearIncoming
  BY <1>5 DEF ClearIncoming, Smooth, SetupShape, Setups, Steps, Early, Forward
<1>6. CASE StageFile
  <2>1. CASE setup.step = "copyCert"
    BY <1>6, <2>1 DEF StageFile, Smooth, SetupShape, Setups, Steps, Early, Forward
  <2>2. CASE setup.step = "copyKey"
    <3>1. setup' = [setup EXCEPT !.step = "write", !.tempDir = TRUE] /\ UNCHANGED <<phrase, spoiled>>
      BY <1>6, <2>2 DEF StageFile, Smooth
    <3> QED
      BY <2>2, <3>1 DEF SetupShape, Setups, Steps, Early, Forward
  <2> QED
    BY <1>6, <2>1, <2>2 DEF StageFile
<1>7. CASE WriteProfile
  BY <1>7 DEF WriteProfile, Smooth, SetupShape, Setups, Steps, Early, Forward, disk
<1>8. CASE SavePhrase
  BY <1>8 DEF SavePhrase, Smooth, SetupShape, Setups, Steps, Early, Forward, disk
<1>9. CASE StorePhrase
  <2>1. CASE setup.tempDir
    BY <1>9, <2>1 DEF StorePhrase, Smooth, SetupShape, Setups, Steps, Early, Forward, Phrases, Offer
  <2>2. CASE ~setup.tempDir
    BY <1>9, <2>2 DEF StorePhrase, Smooth, SetupShape, Setups, Steps, Early, Forward, Phrases, Offer
  <2> QED
    BY <2>1, <2>2
<1>10. CASE BackUpFinal
  <2>1. /\ UNCHANGED <<phrase, spoiled>> /\ setup.step = "back"
        /\ \E b \in {setup.backups, setup.backups \cup {setup.slot}} :
             setup' = [setup EXCEPT !.step = "install", !.backups = b]
    <3>1. CASE setup' = [setup EXCEPT !.step = "install"]
      <4>1. setup' = [setup EXCEPT !.step = "install", !.backups = setup.backups]
        BY <3>1 DEF SetupShape, Setups
      <4> QED
        BY <1>10, <4>1 DEF BackUpFinal, Smooth
    <3>2. CASE setup' = [setup EXCEPT !.step = "install", !.backups = @ \cup {setup.slot}]
      BY <1>10, <3>2 DEF BackUpFinal, Smooth
    <3> QED
      BY <1>10, <3>1, <3>2 DEF BackUpFinal
  <2>2. PICK b \in {setup.backups, setup.backups \cup {setup.slot}} :
             setup' = [setup EXCEPT !.step = "install", !.backups = b]
    BY <2>1
  <2>3. b \subseteq Slots
    BY DEF SetupShape, Setups
  <2>4. setup'.step = "install" /\ setup' \in Setups /\ setup'.slot = setup.slot
        /\ setup'.installed = setup.installed /\ setup'.offer = setup.offer
        /\ setup'.last = setup.last /\ setup'.tempDir = setup.tempDir
    BY <2>2, <2>3 DEF SetupShape, Setups, Steps
  <2>5. setup'.backups = b /\ (setup.slot = "cert" => b \subseteq {"cert"})
    BY <2>1, <2>2 DEF SetupShape, Setups
  <2> QED
    BY <2>1, <2>4, <2>5 DEF SetupShape, Early, Forward
<1>11. CASE InstallStaged
  <2> DEFINE k == KeySlot(setup.offer.key)
             n == IF setup.slot = "cert" THEN "back" ELSE "profile"
             d == setup.installed \cup {setup.slot}
  <2>1. k \in Slots /\ k # "cert"
    BY <1>11, Slotting DEF InstallStaged, SetupShape
  <2>2. d \subseteq Slots /\ n \in Steps
    BY DEF SetupShape, Setups, Steps
  <2>3. setup' = [setup EXCEPT !.installed = d, !.step = n, !.slot = k] /\ setup.step = "install"
        /\ UNCHANGED <<phrase, spoiled>>
    BY <1>11 DEF InstallStaged, Smooth
  <2>4. n = "back" => d = {"cert"}
    BY <2>3 DEF SetupShape
  <2>5. n \in {"back", "profile"}
    OBVIOUS
  <2>6. k = KeySlot(setup.offer.key)
    OBVIOUS
  <2> HIDE DEF k, n, d
  <2>7. setup'.step = n /\ setup' \in Setups /\ setup'.slot = k
        /\ setup'.installed = d /\ setup'.offer = setup.offer
        /\ setup'.last = setup.last /\ setup'.tempDir = setup.tempDir
        /\ setup'.backups = setup.backups
    BY <2>1, <2>2, <2>3 DEF SetupShape, Setups
  <2>8. n = "back" => setup.backups \subseteq {"cert"}
    BY <2>1, <2>3, <2>6 DEF SetupShape, n
  <2> QED
    BY <2>3, <2>4, <2>5, <2>6, <2>7, <2>8 DEF SetupShape, Early, Forward
<1>12. CASE ReplaceProfile
  BY <1>12 DEF ReplaceProfile, Smooth, SetupShape, Setups, Steps, Early, Forward
<1>13. CASE StepFails
  BY <1>13, RollbackShape DEF StepFails, disk
<1>14. ASSUME NEW k \in Slots, UnlinkInstalled(k) \/ RestoreBackup(k) PROVE SetupShape'
  <2>1. setup' = [setup EXCEPT !.todo = @ \ {k}] /\ phrase' = phrase
        /\ setup.step \in {"unlink", "restore"} /\ spoiled \subseteq spoiled'
    BY <1>14 DEF UnlinkInstalled, RestoreBackup, Done, Smooth, RollbackFault
  <2> QED
    BY <2>1 DEF SetupShape, Setups, Early, Forward
<1>15. ASSUME NEW k \in Slots, RestoreFails(k) PROVE SetupShape'
  <2>1. phrase' = phrase /\ setup.step = "restore" /\ spoiled \subseteq spoiled'
        /\ \E a \in BOOLEAN : /\ setup' = [setup EXCEPT !.todo = @ \ {k}, !.allRestored = a]
                              /\ "rollback" \notin spoiled' => a = setup.allRestored
    <3>1. CASE setup' = Done(k) /\ Faulty
      <4>1. setup' = [setup EXCEPT !.todo = @ \ {k}, !.allRestored = setup.allRestored]
        BY <3>1 DEF Done, SetupShape, Setups
      <4>2. setup.allRestored \in BOOLEAN
        BY DEF SetupShape, Setups
      <4> QED
        BY <1>15, <3>1, <4>1, <4>2 DEF RestoreFails, Faulty
    <3>2. CASE setup' = [Done(k) EXCEPT !.allRestored = FALSE] /\ RollbackFault
      <4>1. setup' = [setup EXCEPT !.todo = @ \ {k}, !.allRestored = FALSE]
        BY <3>2 DEF Done, SetupShape, Setups
      <4> QED
        BY <1>15, <3>2, <4>1 DEF RestoreFails, RollbackFault
    <3> QED
      BY <1>15, <3>1, <3>2 DEF RestoreFails
  <2>2. PICK a \in BOOLEAN : /\ setup' = [setup EXCEPT !.todo = @ \ {k}, !.allRestored = a]
                             /\ "rollback" \notin spoiled' => a = setup.allRestored
    BY <2>1
  <2>3. /\ setup' \in Setups /\ setup'.step = "restore" /\ setup'.todo \subseteq setup.todo
        /\ setup'.backups = setup.backups /\ setup'.offer = setup.offer /\ setup'.last = setup.last
        /\ setup'.allRestored = a
    BY <2>1, <2>2 DEF SetupShape, Setups
  <2> QED
    BY <2>1, <2>2, <2>3 DEF SetupShape, Early, Forward
<1>16. CASE StartRestore
  BY <1>16 DEF StartRestore, Smooth, SetupShape, Setups, Steps, Early, Forward, disk
<1>17. CASE DiscardIncoming
  <2>1. UNCHANGED <<phrase, spoiled>> /\ setup.step = "restore"
    BY <1>17 DEF DiscardIncoming, Smooth, Faulty
  <2>2. CASE setup.allRestored
    <3>1. setup' = [setup EXCEPT !.step = "phrase", !.tempDir = FALSE, !.backups = {}, !.installed = {}]
      BY <1>17, <2>2 DEF DiscardIncoming
    <3>2. setup' \in Setups /\ setup'.step = "phrase" /\ setup'.offer = setup.offer /\ setup'.last = setup.last
      BY <3>1 DEF SetupShape, Setups, Steps
    <3> QED
      BY <2>1, <3>2 DEF SetupShape, Early, Forward
  <2>3. CASE ~setup.allRestored /\ setup.inner
    BY <1>17, <2>1, <2>3, RollbackShape DEF DiscardIncoming
  <2>4. CASE ~setup.allRestored /\ ~setup.inner
    BY <1>17, <2>1, <2>4 DEF DiscardIncoming, SetupShape, Setups, Steps, Early, Forward
  <2> QED
    BY <2>2, <2>3, <2>4
<1> QED
  BY <1>1, <1>2, <1>3, <1>4, <1>5, <1>6, <1>7, <1>8, <1>9, <1>10, <1>11, <1>12, <1>13, <1>14,
     <1>15, <1>16, <1>17 DEF SetupNext, SetupCrash, CrashInRestore

-----------------------------------------------------------------------------
(* What a setup has done to the disk, and what it can still put back. *)

Files == [Slots -> Contents]

\* Where slot k stands while the setup goes forward, and while rollback() deletes what was
\* installed: untouched, or backed up, or new.
Accounted(k) ==
  /\ k \notin setup.backups /\ k \notin setup.installed => final[k] = before.final[k]
  /\ k \in setup.backups => backup[k] = before.final[k] /\ before.final[k] # "none"
  /\ k \in setup.installed \ setup.backups => before.final[k] = "none"

\* The files that are replaced, from the start of a setup to its end.
OldFiles ==
  /\ setup.step \in Forward \cup {"unlink"} => \A k \in Slots : Accounted(k)
  /\ setup.step = "install" => final[setup.slot] = "none"
  /\ setup.step = "unlink" => \A k \in setup.installed \ setup.todo : final[k] = "none"
  /\ setup.step = "restore" =>
       /\ \A k \in setup.todo : backup[k] = before.final[k] /\ before.final[k] # "none"
       /\ \A k \in Slots \ setup.todo : final[k] = before.final[k]
  /\ setup.step = "phrase" => \A k \in Slots : final[k] = before.final[k]
  /\ setup.step = "idle" => (\A k \in Slots : Survives(k)) \/ Installed(setup.offer)

\* Profile and phrase: replaced late, and the phrase only after it has been saved.
OldSecrets ==
  /\ setup.step \notin {"idle", "finalize"} => profile = before.profile
  /\ setup.step # "idle" =>
       IF setup.loaded THEN setup.saved = before.phrase ELSE phrase = before.phrase
  /\ setup.step = "store" => phrase = before.phrase

\* The new files, phrase and profile.
NewFiles ==
  /\ setup.step = "copyKey" => staged["cert"] = setup.offer.cert
  /\ setup.step \in {"write", "save", "store"} /\ setup.offer.mode = "copied" =>
       staged["cert"] = setup.offer.cert /\ staged[KeySlot(setup.offer.key)] = setup.offer.key
  /\ setup.step \in {"back", "install"} =>
       /\ staged[KeySlot(setup.offer.key)] = setup.offer.key
       /\ IF setup.slot = "cert" THEN staged["cert"] = setup.offer.cert
          ELSE final["cert"] = setup.offer.cert
  /\ setup.step \in {"profile", "finalize"} /\ setup.offer.mode = "copied" =>
       final["cert"] = setup.offer.cert /\ final[KeySlot(setup.offer.key)] = setup.offer.key
  /\ setup.step \in {"back", "install", "profile", "finalize"} => phrase = setup.offer.phrase
  /\ setup.step = "finalize" => profile = ProfileOf(setup.offer)

DiskTypes ==
  /\ final \in Files /\ staged \in Files /\ backup \in Files
  /\ profile \in Profiles
  /\ before \in [final : Files, profile : Profiles, phrase : Phrases]

\* A setup that has ended is all or nothing.
Ended ==
  SetupAt("idle") /\ spoiled = {} =>
    /\ setup.last = "done" => Installed(setup.offer)
    /\ setup.last \in {"failed", "refused"} =>
         before = [final |-> final, profile |-> profile, phrase |-> phrase]

SetupInv ==
  /\ SetupShape /\ DiskTypes
  /\ NewFiles
  /\ "rollback" \notin spoiled => OldFiles /\ OldSecrets
  /\ Ended

LEMMA RemovalTypes ==
  ASSUME DiskTypes, RemoveIncoming \/ CutRemoval
  PROVE  staged' \in Files /\ backup' \in Files
BY DEF RemoveIncoming, CutRemoval, DiskTypes, NoFiles, Files, Contents

LEMMA DiskTypesStep == SetupShape /\ DiskTypes /\ [SetupNext]_setupVars => DiskTypes'
<1> SUFFICES ASSUME SetupShape, DiskTypes, [SetupNext]_setupVars PROVE DiskTypes'
  OBVIOUS
<1> USE DEF DiskTypes
<1>0. Pieces \subseteq Contents /\ "none" \in Contents /\ "torn" \in Contents
  BY DEF Pieces, Contents
<1> USE DEF SetupAt
<1>1. CASE UNCHANGED setupVars
  BY <1>1 DEF setupVars, disk
<1>2. ASSUME NEW src \in Sources, StartSetup(src) PROVE DiskTypes'
  BY <1>2 DEF StartSetup, disk, SetupShape
<1>3. CASE ClearIncoming \/ ClearFails \/ StageFails
  <2>1. UNCHANGED <<final, profile, before>>
    BY <1>3 DEF ClearIncoming, ClearFails, StageFails, Smooth, Faulty
  <2> QED
    BY <1>3, <2>1, RemovalTypes DEF ClearIncoming, ClearFails, StageFails
<1>5. CASE StageFile
  <2> DEFINE x == IF setup.step = "copyCert" THEN setup.offer.cert ELSE setup.offer.key
  <2>1. x \in Contents
    BY <1>0, <1>5 DEF StageFile, SetupShape, Offer
  <2>2. staged' = [staged EXCEPT ![CopySlot] = x] /\ UNCHANGED <<final, backup, profile, before>>
    BY <1>5 DEF StageFile, Smooth
  <2> HIDE DEF x
  <2>3. staged' \in Files
    BY <2>1, <2>2 DEF Files
  <2> QED
    BY <2>2, <2>3
<1>6. CASE FingerprintFails \/ WriteProfile \/ SavePhrase \/ StorePhrase \/ StepFails
             \/ StartRestore \/ RestorePhrase \/ RestorePhraseFails
  BY <1>6 DEF FingerprintFails, WriteProfile, SavePhrase, StorePhrase, StepFails, StartRestore,
     RestorePhrase, RestorePhraseFails, Smooth, Faulty, RollbackFault, disk
<1>7. CASE BackUpFinal \/ InstallStaged
  <2>1. setup.slot \in Slots
    BY DEF SetupShape, Setups
  <2>2. "none" \in Contents
    BY DEF Contents
  <2> QED
    BY <1>7, <2>1, <2>2 DEF BackUpFinal, InstallStaged, Smooth, Files
<1>8. CASE ReplaceProfile
  <2>1. ProfileOf(setup.offer) \in Profiles
    BY <1>8 DEF ReplaceProfile, SetupShape, Offer, ProfileOf, Profiles
  <2> QED
    BY <1>8, <2>1 DEF ReplaceProfile, Smooth
<1>9. CASE Finalize
  <2>1. UNCHANGED <<final, profile, before>> /\ (UNCHANGED <<staged, backup>> \/ RemoveIncoming \/ CutRemoval)
    BY <1>9 DEF Finalize
  <2> QED
    BY <2>1, RemovalTypes
<1>10. ASSUME NEW k \in Slots, UnlinkInstalled(k) \/ RestoreBackup(k) \/ RestoreFails(k)
       PROVE DiskTypes'
  BY <1>0, <1>10 DEF UnlinkInstalled, RestoreBackup, RestoreFails, Smooth, Faulty, RollbackFault, Files
<1>11. CASE DiscardIncoming
  <2>1. UNCHANGED <<final, profile, before>> /\ (UNCHANGED <<staged, backup>> \/ RemoveIncoming \/ CutRemoval)
    BY <1>11 DEF DiscardIncoming, Smooth, Faulty
  <2> QED
    BY <2>1, RemovalTypes
<1>12. CASE SetupCrash
  <2>1. UNCHANGED <<final, profile, before>>
    BY <1>12 DEF SetupCrash, Dies
  <2>2. \/ UNCHANGED <<staged, backup>>
        \/ staged' = [staged EXCEPT ![CopySlot] = "torn"] /\ UNCHANGED backup
        \/ CutRemoval
    BY <1>12 DEF SetupCrash
  <2>3. staged' \in Files /\ backup' \in Files
    <3>1. CASE staged' = [staged EXCEPT ![CopySlot] = "torn"] /\ UNCHANGED backup
      BY <1>0, <3>1 DEF Files
    <3> QED
      BY <2>2, <3>1, RemovalTypes
  <2> QED
    BY <2>1, <2>3
<1>13. ASSUME NEW k \in Slots, CrashInRestore(k) PROVE DiskTypes'
  BY <1>0, <1>13 DEF CrashInRestore, Dies, Files
<1> QED
  BY <1>1, <1>2, <1>3, <1>5, <1>6, <1>7, <1>8, <1>9, <1>10, <1>11, <1>12, <1>13 DEF SetupNext

LEMMA NewFilesStep ==
  SetupShape /\ DiskTypes /\ NewFiles /\ [SetupNext]_setupVars => NewFiles'
<1> SUFFICES ASSUME SetupShape, DiskTypes, NewFiles, [SetupNext]_setupVars PROVE NewFiles'
  OBVIOUS
<1> USE DEF SetupAt, Continue
<1>1. CASE UNCHANGED setupVars
  BY <1>1 DEF setupVars, disk, NewFiles
<1>2. CASE setup'.step \in {"idle", "clear", "copyCert", "unlink", "restore", "phrase"}
  BY <1>2 DEF NewFiles
<1>3. ASSUME NEW src \in Sources, StartSetup(src) PROVE NewFiles'
  <2>1. setup'.step = IF src.offer.mode = "copied" THEN "clear" ELSE "write"
    BY <1>3 DEF StartSetup, IdleSetup
  <2>2. setup'.offer.mode = src.offer.mode
    BY <1>3 DEF StartSetup, IdleSetup
  <2> QED
    BY <2>1, <2>2 DEF NewFiles
<1>4. CASE StageFile
  <2>1. KeySlot(setup.offer.key) \in Slots /\ KeySlot(setup.offer.key) # "cert" /\ "cert" \in Slots
    BY <1>4, Slotting DEF StageFile, SetupShape, Slots
  <2>2. CASE setup.step = "copyCert"
    <3>1. setup'.step = "copyKey" /\ setup'.offer = setup.offer
      BY <1>4, <2>2 DEF StageFile, SetupShape, Setups
    <3>2. staged'["cert"] = setup.offer.cert
      BY <1>4, <2>1, <2>2 DEF StageFile, CopySlot, DiskTypes, Files
    <3> QED
      BY <3>1, <3>2 DEF NewFiles
  <2>3. CASE setup.step = "copyKey"
    <3>1. setup'.step = "write" /\ setup'.offer = setup.offer
      BY <1>4, <2>3 DEF StageFile, SetupShape, Setups
    <3>2. staged'["cert"] = setup.offer.cert /\ staged'[KeySlot(setup.offer.key)] = setup.offer.key
      BY <1>4, <2>1, <2>3 DEF StageFile, CopySlot, DiskTypes, Files, NewFiles
    <3> QED
      BY <3>1, <3>2 DEF NewFiles
  <2> QED
    BY <1>4, <2>2, <2>3 DEF StageFile
<1>5. CASE WriteProfile \/ SavePhrase
  <2>1. /\ setup'.step \in {"save", "store"} /\ setup.step \in {"write", "save"}
        /\ setup'.offer = setup.offer /\ staged' = staged
    BY <1>5 DEF WriteProfile, SavePhrase, SetupShape, Setups, disk
  <2> QED
    BY <2>1 DEF NewFiles
<1>6. CASE StorePhrase
  <2>1. /\ setup.step = "store" /\ setup'.step = IF setup.tempDir THEN "back" ELSE "profile"
        /\ setup'.offer = setup.offer /\ setup'.slot = "cert"
        /\ phrase' = setup.offer.phrase /\ UNCHANGED <<staged, final>>
        /\ setup.tempDir <=> setup.offer.mode = "copied"
    BY <1>6 DEF StorePhrase, SetupShape, Setups, Early
  <2> QED
    BY <2>1 DEF NewFiles
<1>7. CASE BackUpFinal
  <2>1. /\ setup.step = "back" /\ setup'.step = "install" /\ setup'.slot = setup.slot
        /\ setup'.offer = setup.offer /\ UNCHANGED <<staged, phrase>>
    BY <1>7 DEF BackUpFinal, SetupShape, Setups
  <2>2. setup.slot # "cert" => final'["cert"] = final["cert"]
    BY <1>7 DEF BackUpFinal, DiskTypes, Files, Slots
  <2> QED
    BY <2>1, <2>2 DEF NewFiles
<1>8. CASE InstallStaged
  <2>1. KeySlot(setup.offer.key) \in Slots /\ KeySlot(setup.offer.key) # "cert" /\ "cert" \in Slots
    BY <1>8, Slotting DEF InstallStaged, SetupShape, Slots
  <2>2. /\ setup.step = "install" /\ setup'.offer = setup.offer /\ setup'.slot = KeySlot(setup.offer.key)
        /\ setup'.step = IF setup.slot = "cert" THEN "back" ELSE "profile"
        /\ UNCHANGED phrase
        /\ setup.slot \in {"cert", KeySlot(setup.offer.key)}
    BY <1>8 DEF InstallStaged, SetupShape, Setups
  <2>3. /\ final'[setup.slot] = staged[setup.slot]
        /\ \A k \in Slots \ {setup.slot} : final'[k] = final[k] /\ staged'[k] = staged[k]
    BY <1>8, <2>1, <2>2 DEF InstallStaged, DiskTypes, Files
  <2>4. CASE setup.slot = "cert"
    BY <2>1, <2>2, <2>3, <2>4 DEF NewFiles
  <2>5. CASE setup.slot = KeySlot(setup.offer.key)
    BY <2>1, <2>2, <2>3, <2>5 DEF NewFiles
  <2> QED
    BY <2>2, <2>4, <2>5
<1>9. CASE ReplaceProfile
  <2>1. /\ setup.step = "profile" /\ setup'.step = "finalize" /\ setup'.offer = setup.offer
        /\ UNCHANGED <<final, phrase>>
        /\ profile' = ProfileOf(setup.offer)
    BY <1>9 DEF ReplaceProfile, SetupShape, Setups
  <2> QED
    BY <2>1 DEF NewFiles
<1>10. CASE ClearIncoming \/ ClearFails \/ StageFails \/ FingerprintFails \/ Finalize \/ StartRestore
              \/ RestorePhrase \/ RestorePhraseFails \/ Dies
  <2>1. setup' = [setup EXCEPT !.step = "copyCert"] => setup'.step = "copyCert"
    BY DEF SetupShape, Setups
  <2>2. setup' = [setup EXCEPT !.step = "restore", !.todo = setup.backups] => setup'.step = "restore"
    BY DEF SetupShape, Setups
  <2>3. \A l : EndSetup(l) => setup'.step = "idle"
    BY SetupEnds
  <2> QED
    BY <1>2, <1>10, <2>1, <2>2, <2>3 DEF ClearIncoming, ClearFails, StageFails, FingerprintFails,
       Finalize, StartRestore, RestorePhrase, RestorePhraseFails, Dies
<1>11. ASSUME NEW b \in BOOLEAN, EnterRollback(b) PROVE NewFiles'
  BY <1>2, <1>11 DEF EnterRollback, SetupShape, Setups
<1>12. CASE StepFails
  BY <1>11, <1>12 DEF StepFails
<1>13. ASSUME NEW k \in Slots, UnlinkInstalled(k) \/ RestoreBackup(k) \/ RestoreFails(k) PROVE NewFiles'
  <2>1. setup'.step = setup.step /\ setup.step \in {"unlink", "restore"}
    BY <1>13 DEF UnlinkInstalled, RestoreBackup, RestoreFails, Done, SetupShape, Setups
  <2> QED
    BY <1>2, <2>1
<1>14. CASE DiscardIncoming
  <2>1. CASE setup'.step = "phrase"
    BY <1>2, <2>1
  <2>2. CASE EnterRollback(FALSE)
    BY <1>11, <2>2
  <2> QED
    BY <1>14, <2>1, <2>2 DEF DiscardIncoming, SetupShape, Setups
<1> QED
  BY <1>1, <1>3, <1>4, <1>5, <1>6, <1>7, <1>8, <1>9, <1>10, <1>12, <1>13, <1>14
     DEF SetupNext, SetupCrash, CrashInRestore

LEMMA OldSecretsStep ==
  ASSUME SetupShape, DiskTypes, SetupNext, "rollback" \notin spoiled => OldSecrets,
         "rollback" \notin spoiled'
  PROVE  OldSecrets'
<1> USE DEF SetupAt, Continue
<1>1. ASSUME NEW src \in Sources, StartSetup(src) PROVE OldSecrets'
  <2>1. /\ before'.profile = profile /\ before'.phrase = phrase /\ UNCHANGED <<profile, phrase>>
        /\ ~setup'.loaded
    BY <1>1 DEF StartSetup, IdleSetup, disk
  <2> QED
    BY <2>1 DEF OldSecrets
<1>2. CASE setup'.step = "idle"
  BY <1>2 DEF OldSecrets
<1>3. CASE /\ setup.step # "idle" /\ setup'.step \notin {"idle", "store"} /\ setup.step # "finalize"
           /\ setup'.loaded = setup.loaded /\ setup'.saved = setup.saved
           /\ UNCHANGED <<profile, phrase, before>> /\ spoiled \subseteq spoiled'
  BY <1>3 DEF OldSecrets
<1>4. CASE ClearIncoming
  <2>1. /\ setup.step = "clear" /\ setup'.step = "copyCert"
        /\ setup'.loaded = setup.loaded /\ setup'.saved = setup.saved
    BY <1>4 DEF ClearIncoming, SetupShape, Setups
  <2> QED
    BY <1>3, <1>4, <2>1 DEF ClearIncoming, Smooth
<1>5. CASE StageFile
  <2>1. /\ setup.step \in {"copyCert", "copyKey"} /\ setup'.step \in {"copyKey", "write"}
        /\ setup'.loaded = setup.loaded /\ setup'.saved = setup.saved
    BY <1>5 DEF StageFile, SetupShape, Setups
  <2> QED
    BY <1>3, <1>5, <2>1 DEF StageFile, Smooth
<1>6. CASE WriteProfile
  <2>1. /\ setup.step = "write" /\ setup'.step = "save"
        /\ setup'.loaded = setup.loaded /\ setup'.saved = setup.saved
    BY <1>6 DEF WriteProfile, SetupShape, Setups
  <2> QED
    BY <1>3, <1>6, <2>1 DEF WriteProfile, Smooth, disk
<1>7. CASE SavePhrase
  <2>1. /\ setup.step = "save" /\ setup'.step = "store" /\ setup'.loaded /\ setup'.saved = phrase
        /\ ~setup.loaded
    BY <1>7 DEF SavePhrase, SetupShape, Setups, Early
  <2> QED
    BY <1>7, <2>1 DEF SavePhrase, Smooth, disk, OldSecrets
<1>8. CASE StorePhrase
  <2>1. /\ setup.step = "store" /\ setup'.step \in {"back", "profile"} /\ setup.loaded
        /\ setup'.loaded = setup.loaded /\ setup'.saved = setup.saved
    BY <1>8 DEF StorePhrase, SetupShape, Setups
  <2> QED
    BY <1>8, <2>1 DEF StorePhrase, Smooth, OldSecrets
<1>9. CASE BackUpFinal
  <2>1. /\ setup.step = "back" /\ setup'.step = "install"
        /\ setup'.loaded = setup.loaded /\ setup'.saved = setup.saved
    BY <1>9 DEF BackUpFinal, SetupShape, Setups
  <2> QED
    BY <1>3, <1>9, <2>1 DEF BackUpFinal, Smooth
<1>10. CASE InstallStaged
  <2>1. /\ setup.step = "install" /\ setup'.step \in {"back", "profile"}
        /\ setup'.loaded = setup.loaded /\ setup'.saved = setup.saved
    BY <1>10 DEF InstallStaged, SetupShape, Setups
  <2> QED
    BY <1>3, <1>10, <2>1 DEF InstallStaged, Smooth
<1>11. CASE ReplaceProfile
  <2>1. /\ setup.step = "profile" /\ setup'.step = "finalize"
        /\ setup'.loaded = setup.loaded /\ setup'.saved = setup.saved
    BY <1>11 DEF ReplaceProfile, SetupShape, Setups
  <2> QED
    BY <1>11, <2>1 DEF ReplaceProfile, Smooth, OldSecrets
<1>12. ASSUME NEW b \in BOOLEAN, EnterRollback(b), UNCHANGED <<profile, phrase, before>>,
              spoiled \subseteq spoiled', setup.step \notin {"idle", "finalize"}
       PROVE  OldSecrets'
  <2>1. /\ setup'.step \in {"unlink", "phrase"}
        /\ setup'.loaded = setup.loaded /\ setup'.saved = setup.saved
    BY <1>12 DEF EnterRollback, SetupShape, Setups
  <2> QED
    BY <1>3, <1>12, <2>1
<1>13. CASE StepFails
  BY <1>12, <1>13 DEF StepFails, Faulty, disk
<1>14. ASSUME NEW k \in Slots, UnlinkInstalled(k) \/ RestoreBackup(k) \/ RestoreFails(k) PROVE OldSecrets'
  <2>1. /\ setup.step \in {"unlink", "restore"} /\ setup'.step = setup.step
        /\ setup'.loaded = setup.loaded /\ setup'.saved = setup.saved
    BY <1>14 DEF UnlinkInstalled, RestoreBackup, RestoreFails, Done, SetupShape, Setups
  <2> QED
    BY <1>3, <1>14, <2>1 DEF UnlinkInstalled, RestoreBackup, RestoreFails, Smooth, Faulty, RollbackFault
<1>15. CASE StartRestore
  <2>1. /\ setup.step = "unlink" /\ setup'.step = "restore"
        /\ setup'.loaded = setup.loaded /\ setup'.saved = setup.saved
    BY <1>15 DEF StartRestore, SetupShape, Setups
  <2> QED
    BY <1>3, <1>15, <2>1 DEF StartRestore, Smooth, disk
<1>16. CASE DiscardIncoming
  <2>1. CASE EnterRollback(FALSE)
    BY <1>12, <1>16, <2>1 DEF DiscardIncoming, Smooth, Faulty
  <2>2. CASE ~EnterRollback(FALSE)
    <3>1. /\ setup.step = "restore" /\ setup'.step = "phrase"
          /\ setup'.loaded = setup.loaded /\ setup'.saved = setup.saved
      <4>1. \/ setup' = [setup EXCEPT !.step = "phrase", !.tempDir = FALSE, !.backups = {},
                                      !.installed = {}]
            \/ setup' = [setup EXCEPT !.step = "phrase"]
        BY <1>16, <2>2 DEF DiscardIncoming
      <4> QED
        BY <1>16, <4>1 DEF DiscardIncoming, SetupShape, Setups
    <3> QED
      BY <1>3, <1>16, <3>1 DEF DiscardIncoming, Smooth, Faulty
  <2> QED
    BY <2>1, <2>2
<1>17. CASE ClearFails \/ StageFails \/ FingerprintFails \/ Finalize \/ RestorePhrase
              \/ RestorePhraseFails \/ Dies
  <2>1. \A l : EndSetup(l) => setup'.step = "idle"
    BY SetupEnds
  <2> QED
    BY <1>2, <1>17, <2>1 DEF ClearFails, StageFails, FingerprintFails, Finalize, RestorePhrase,
       RestorePhraseFails, Dies
<1> QED
  BY <1>1, <1>4, <1>5, <1>6, <1>7, <1>8, <1>9, <1>10, <1>11, <1>13, <1>14, <1>15, <1>16, <1>17
     DEF SetupNext, SetupCrash, CrashInRestore

\* A step of the forward path that touches no file in place and no backup that counts.
LEMMA FilesUntouched ==
  ASSUME OldFiles, setup.step \in Early \cup {"profile"}, UNCHANGED <<final, before>>,
         UNCHANGED backup \/ setup.backups = {},
         setup'.backups = setup.backups, setup'.installed = setup.installed,
         setup'.step \in Forward \ {"install"}
  PROVE  OldFiles'
BY DEF OldFiles, Accounted, Early, Forward

\* A setup that ends before it has touched a file in place.
LEMMA NothingTouched ==
  ASSUME SetupShape, OldFiles, setup.step \in Early
  PROVE  \A k \in Slots : final[k] = before.final[k]
BY DEF SetupShape, OldFiles, Accounted, Early, Forward

LEMMA OldFilesSurvived ==
  ASSUME SetupShape, OldFiles, setup.step # "idle"
  PROVE  \A k \in Slots : Survives(k)
<1> SUFFICES ASSUME NEW k \in Slots PROVE Survives(k)
  OBVIOUS
<1>2. CASE setup.step \in Forward \cup {"unlink"}
  BY <1>2 DEF OldFiles, Accounted, Survives
<1>3. CASE setup.step = "restore"
  BY <1>3 DEF OldFiles, Survives
<1>4. CASE setup.step = "phrase"
  BY <1>4 DEF OldFiles, Survives
<1>5. CASE setup.step \notin Forward \cup {"unlink", "restore", "phrase"}
  <2>1. setup.step \in Steps
    BY DEF SetupShape, Setups
  <2> QED
    BY <1>5, <2>1 DEF Steps, Forward, Early
<1> QED
  BY <1>2, <1>3, <1>4, <1>5

\* Before it deletes the backups, a setup has installed everything.
LEMMA AllInstalled ==
  ASSUME NewFiles, SetupShape, setup.step = "finalize"
  PROVE  Installed(setup.offer)
<1>1. /\ profile = ProfileOf(setup.offer) /\ phrase = setup.offer.phrase
      /\ setup.offer.mode = "copied" =>
           final["cert"] = setup.offer.cert /\ final[KeySlot(setup.offer.key)] = setup.offer.key
  BY DEF NewFiles
<1>2. profile.mode = setup.offer.mode /\ profile.cert = setup.offer.cert /\ profile.key = setup.offer.key
  BY <1>1 DEF ProfileOf
<1> QED
  BY <1>1, <1>2 DEF Installed, CertificateOf, PrivateKeyOf

\* What is installed stays so when neither files in place nor profile nor phrase change.
LEMMA StillInstalled ==
  ASSUME Installed(setup.offer), UNCHANGED <<final, profile, phrase>>, setup'.offer = setup.offer
  PROVE  Installed(setup.offer)'
BY DEF Installed, CertificateOf, PrivateKeyOf

LEMMA OldFilesStep ==
  ASSUME SetupShape, DiskTypes, NewFiles, SetupNext, "rollback" \notin spoiled => OldFiles,
         "rollback" \notin spoiled'
  PROVE  OldFiles'
<1> USE DEF SetupAt, Continue
<1>0. Slots = {"cert", "key", "pem"} /\ final \in Files /\ backup \in Files
  BY DEF Slots, DiskTypes
<1>1. ASSUME NEW src \in Sources, StartSetup(src) PROVE OldFiles'
  <2>1. /\ before'.final = final /\ UNCHANGED <<final, backup>>
        /\ setup'.backups = {} /\ setup'.installed = {} /\ setup'.step \in {"clear", "write"}
    BY <1>1 DEF StartSetup, IdleSetup, disk
  <2> QED
    BY <2>1 DEF OldFiles, Accounted
<1>2. CASE /\ setup'.step = "idle" /\ setup.step # "idle" /\ UNCHANGED <<final, before>>
           /\ UNCHANGED backup \/ setup.step \in Early
           /\ spoiled \subseteq spoiled'
  <2>1. CASE UNCHANGED backup
    <3>1. \A k \in Slots : Survives(k)'
      BY <1>2, <2>1, OldFilesSurvived DEF Survives
    <3> QED
      BY <1>2, <3>1 DEF OldFiles, Forward, Early
  <2>2. CASE setup.step \in Early
    <3>1. \A k \in Slots : final[k] = before.final[k]
      BY <1>2, <2>2, NothingTouched
    <3> QED
      BY <1>2, <3>1 DEF OldFiles, Survives, Forward, Early
  <2> QED
    BY <1>2, <2>1, <2>2
<1>3. ASSUME setup.step = "finalize", NEW l, EndSetup(l), UNCHANGED <<final, profile, phrase>>
      PROVE  OldFiles'
  <2>2. setup'.step = "idle" /\ setup'.offer = setup.offer
    BY <1>3, SetupEnds
  <2>1. Installed(setup.offer)'
    BY <1>3, <2>2, AllInstalled, StillInstalled
  <2> QED
    BY <2>1, <2>2 DEF OldFiles, Forward, Early
<1>16. CASE Finalize
  BY <1>3, <1>16 DEF Finalize
<1>17. \A l : EndSetup(l) => setup'.step = "idle"
  BY SetupEnds
<1>18. \A s \in {"clear", "copyCert", "copyKey", "write"} : s \in Early
  BY DEF Early
<1>4. CASE ClearFails \/ StageFails \/ FingerprintFails \/ RestorePhrase \/ RestorePhraseFails
  BY <1>2, <1>4, <1>17, <1>18 DEF ClearFails, StageFails, FingerprintFails, RestorePhrase,
     RestorePhraseFails, Smooth, Faulty, RollbackFault, disk
\* A crash: nothing in place has changed; of the backups some may be gone once they are no
\* longer needed.
<1>19. CASE SetupCrash
  <2>1. /\ UNCHANGED <<final, profile, phrase, before>> /\ spoiled \subseteq spoiled'
        /\ setup'.step = "idle" /\ setup.step # "idle" /\ EndSetup("failed")
    BY <1>17, <1>19 DEF SetupCrash, Dies
  <2>2. CASE setup.step = "finalize"
    BY <1>3, <2>1, <2>2
  <2>3. CASE setup.step = "restore" /\ setup.todo = {}
    <3>1. \A k \in Slots : final[k] = before.final[k]
      BY <2>1, <2>3 DEF OldFiles
    <3> QED
      BY <2>1, <3>1 DEF OldFiles, Survives, Forward, Early
  <2>4. CASE UNCHANGED backup \/ setup.step \in Early
    BY <1>2, <2>1, <2>4
  <2> QED
    BY <1>18, <1>19, <2>2, <2>3, <2>4 DEF SetupCrash
<1>20. ASSUME NEW k \in Slots, CrashInRestore(k) PROVE OldFiles'
  <2>1. /\ setup.step = "restore" /\ k \in setup.todo /\ UNCHANGED <<backup, before>>
        /\ final' = [final EXCEPT ![k] = "torn"] /\ spoiled \subseteq spoiled'
        /\ setup'.step = "idle"
    BY <1>17, <1>20 DEF CrashInRestore, Dies
  <2>2. /\ \A l \in setup.todo : backup[l] = before.final[l]
        /\ \A l \in Slots \ setup.todo : final[l] = before.final[l]
    BY <2>1 DEF OldFiles
  <2>3. \A l \in Slots : Survives(l)'
    BY <1>0, <2>1, <2>2 DEF Survives, Files
  <2> QED
    BY <2>1, <2>3 DEF OldFiles, Forward, Early
<1>5. CASE ClearIncoming \/ StageFile \/ WriteProfile \/ SavePhrase
  <2>1. /\ setup.step \in Early /\ setup'.step \in Early
        /\ setup'.backups = setup.backups /\ setup'.installed = setup.installed
    <3>1. CASE ClearIncoming \/ WriteProfile
      BY <3>1 DEF ClearIncoming, WriteProfile, SetupShape, Setups, Early
    <3>2. CASE StageFile
      BY <3>2 DEF StageFile, SetupShape, Setups, Early
    <3>3. CASE SavePhrase
      BY <3>3 DEF SavePhrase, SetupShape, Setups, Early
    <3> QED
      BY <1>5, <3>1, <3>2, <3>3
  <2>2. setup.backups = {}
    BY <2>1 DEF SetupShape
  <2>3. UNCHANGED <<final, before, spoiled>>
    BY <1>5 DEF ClearIncoming, StageFile, WriteProfile, SavePhrase, Smooth, disk
  <2>4. setup'.step \in Forward \ {"install"}
    BY <2>1 DEF Forward, Early
  <2> QED
    BY <2>1, <2>2, <2>3, <2>4, FilesUntouched
<1>6. CASE StorePhrase
  <2>1. /\ setup.step \in Early /\ setup'.step \in {"back", "profile"}
        /\ setup'.backups = setup.backups /\ setup'.installed = setup.installed
    BY <1>6 DEF StorePhrase, SetupShape, Setups, Early
  <2>2. UNCHANGED <<final, backup, before, spoiled>>
    BY <1>6 DEF StorePhrase, Smooth
  <2> QED
    BY <2>1, <2>2, FilesUntouched DEF Forward
<1>7. CASE ReplaceProfile
  <2>1. /\ setup.step = "profile" /\ setup'.step = "finalize"
        /\ setup'.backups = setup.backups /\ setup'.installed = setup.installed
    BY <1>7 DEF ReplaceProfile, SetupShape, Setups
  <2>2. UNCHANGED <<final, backup, before, spoiled>>
    BY <1>7 DEF ReplaceProfile, Smooth
  <2> QED
    BY <2>1, <2>2, FilesUntouched DEF Forward
<1>8. CASE BackUpFinal
  <2> DEFINE c == setup.slot
  <2>1. /\ setup.step = "back" /\ setup'.step = "install" /\ setup'.slot = c
        /\ c \notin setup.backups /\ c \notin setup.installed
        /\ setup'.installed = setup.installed /\ c \in Slots
        /\ UNCHANGED <<before, spoiled>>
    BY <1>8, Slotting DEF BackUpFinal, Smooth, SetupShape, Setups
  <2>2. \A k \in Slots : Accounted(k)
    BY <1>8, <2>1 DEF OldFiles, Forward
  <2>3. CASE final[c] = "none"
    <3>1. UNCHANGED <<final, backup>> /\ setup'.backups = setup.backups
      BY <1>8, <2>3 DEF BackUpFinal, SetupShape, Setups
    <3> QED
      BY <2>1, <2>2, <2>3, <3>1 DEF OldFiles, Accounted
  <2>4. CASE final[c] # "none"
    <3>1. /\ final' = [final EXCEPT ![c] = "none"] /\ backup' = [backup EXCEPT ![c] = final[c]]
          /\ setup'.backups = setup.backups \cup {c}
      BY <1>8, <2>4 DEF BackUpFinal, SetupShape, Setups
    <3> HIDE DEF c
    <3>2. final'[c] = "none" /\ \A k \in Slots : Accounted(k)'
      BY <1>0, <2>1, <2>2, <2>4, <3>1 DEF Accounted, Files
    <3> QED
      BY <2>1, <3>2 DEF OldFiles
  <2> QED
    BY <2>3, <2>4
<1>9. CASE InstallStaged
  <2> DEFINE c == setup.slot
  <2>1. /\ setup.step = "install" /\ setup'.step \in {"back", "profile"}
        /\ setup'.installed = setup.installed \cup {c} /\ setup'.backups = setup.backups
        /\ c \notin setup.installed /\ c \in Slots
        /\ UNCHANGED <<backup, before, spoiled>>
        /\ final' = [final EXCEPT ![c] = staged[c]]
    BY <1>9, Slotting DEF InstallStaged, Smooth, SetupShape, Setups
  <2>2. final[c] = "none" /\ \A k \in Slots : Accounted(k)
    BY <1>9, <2>1 DEF OldFiles, Forward
  <2> HIDE DEF c
  <2>3. \A k \in Slots : Accounted(k)'
    BY <1>0, <2>1, <2>2 DEF Accounted, Files
  <2> QED
    BY <2>1, <2>3 DEF OldFiles
<1>10. ASSUME setup.tempDir, NEW b \in BOOLEAN, EnterRollback(b), UNCHANGED <<final, backup, before, spoiled>>,
              setup.step \in Forward
       PROVE  OldFiles'
  <2>1. /\ setup'.step = "unlink" /\ setup'.installed = setup.installed
        /\ setup'.backups = setup.backups /\ setup'.todo = setup.installed
    BY <1>10 DEF EnterRollback, SetupShape, Setups
  <2>2. \A k \in Slots : Accounted(k)
    BY <1>10 DEF OldFiles
  <2> QED
    BY <1>10, <2>1, <2>2 DEF OldFiles, Accounted
<1>11. CASE StepFails
  <2>1. UNCHANGED <<final, backup, before, spoiled>> /\ setup.step \in Forward
    BY <1>11 DEF StepFails, Faulty, disk, Forward, Early
  <2>2. CASE setup.tempDir
    BY <1>10, <1>11, <2>1, <2>2 DEF StepFails
  <2>3. CASE ~setup.tempDir
    <3>1. setup'.step = "phrase"
      BY <1>11, <2>3 DEF StepFails, EnterRollback, SetupShape, Setups
    <3>2. setup.backups = {} /\ setup.installed = {}
      BY <2>1, <2>3 DEF SetupShape
    <3>3. \A k \in Slots : final[k] = before.final[k]
      BY <1>11, <2>1, <3>2 DEF OldFiles, Accounted
    <3> QED
      BY <2>1, <3>1, <3>3 DEF OldFiles, Forward, Early
  <2> QED
    BY <2>2, <2>3
<1>12. ASSUME NEW k \in Slots, UnlinkInstalled(k) PROVE OldFiles'
  <2>1. /\ setup.step = "unlink" /\ setup'.step = "unlink" /\ setup'.todo = setup.todo \ {k}
        /\ setup'.installed = setup.installed /\ setup'.backups = setup.backups
        /\ k \in setup.installed
    BY <1>12 DEF UnlinkInstalled, Done, SetupShape, Setups
  <2>2. final' = [final EXCEPT ![k] = "none"] /\ UNCHANGED <<backup, before, spoiled>>
    BY <1>12 DEF UnlinkInstalled, Smooth, RollbackFault
  <2>3. \A l \in Slots : Accounted(l)
    BY <2>1, <2>2 DEF OldFiles
  <2>4. \A l \in setup.installed \ setup.todo : final[l] = "none"
    BY <2>1, <2>2 DEF OldFiles
  <2>5. \A l \in Slots : Accounted(l)'
    BY <1>0, <2>1, <2>2, <2>3 DEF Accounted, Files
  <2>6. setup.installed \subseteq Slots
    BY DEF SetupShape, Setups
  <2>7. \A l \in setup'.installed \ setup'.todo : final'[l] = "none"
    BY <1>0, <2>1, <2>2, <2>4, <2>6 DEF Files
  <2> QED
    BY <2>1, <2>5, <2>7 DEF OldFiles
<1>13. CASE StartRestore
  <2>1. /\ setup.step = "unlink" /\ setup.todo = {} /\ setup'.step = "restore"
        /\ setup'.todo = setup.backups
    BY <1>13 DEF StartRestore, SetupShape, Setups
  <2>2. UNCHANGED <<final, backup, before, spoiled>>
    BY <1>13 DEF StartRestore, Smooth, disk
  <2>3. setup.backups \subseteq Slots
    BY DEF SetupShape, Setups
  <2> QED
    BY <2>1, <2>2, <2>3 DEF OldFiles, Accounted, Forward, Early
<1>14. ASSUME NEW k \in Slots, RestoreBackup(k) \/ RestoreFails(k) PROVE OldFiles'
  <2>1. /\ setup.step = "restore" /\ k \in setup.todo /\ UNCHANGED <<before, spoiled>>
    BY <1>14 DEF RestoreBackup, RestoreFails, Smooth, Faulty, RollbackFault
  <2>2. backup[k] = before.final[k] /\ before.final[k] # "none"
    BY <2>1, <1>14 DEF OldFiles
  <2>3. /\ final' = [final EXCEPT ![k] = backup[k]] /\ backup' = [backup EXCEPT ![k] = "none"]
        /\ setup' = Done(k)
    BY <1>14, <2>1, <2>2 DEF RestoreBackup, RestoreFails, RollbackFault
  <2>4. setup'.step = "restore" /\ setup'.todo = setup.todo \ {k} /\ setup.todo \subseteq Slots
    BY <2>1, <2>3 DEF Done, SetupShape, Setups
  <2>5. /\ \A l \in setup.todo : backup[l] = before.final[l] /\ before.final[l] # "none"
        /\ \A l \in Slots \ setup.todo : final[l] = before.final[l]
    BY <2>1 DEF OldFiles
  <2> QED
    BY <1>0, <2>1, <2>2, <2>3, <2>4, <2>5 DEF OldFiles, Files, Forward, Early
<1>15. CASE DiscardIncoming
  <2>1. /\ setup.step = "restore" /\ setup.todo = {} /\ UNCHANGED <<final, before, spoiled>>
    BY <1>15 DEF DiscardIncoming, Smooth, Faulty
  <2>2. setup.allRestored
    BY <2>1 DEF SetupShape
  <2>3. setup'.step = "phrase"
    BY <1>15, <2>2 DEF DiscardIncoming, SetupShape, Setups
  <2> QED
    BY <2>1, <2>3 DEF OldFiles, Forward, Early
<1> QED
  BY <1>1, <1>4, <1>5, <1>6, <1>7, <1>8, <1>9, <1>11, <1>12, <1>13, <1>14, <1>15, <1>16, <1>19,
     <1>20 DEF SetupNext

\* A setup that ends with everything as it was: a refusal, or the end of a rollback.
LEMMA EndsAsBefore ==
  ASSUME DiskTypes', \A k \in Slots : final'[k] = before'.final[k],
         profile' = before'.profile, phrase' = before'.phrase,
         NEW l \in {"failed", "refused"}, EndSetup(l)
  PROVE  Ended' /\ before' = [final |-> final', profile |-> profile', phrase |-> phrase']
<1>1. setup'.last # "done"
  BY SetupEnds
<1>2. final' \in Files /\ before' \in [final : Files, profile : Profiles, phrase : Phrases]
  BY DEF DiskTypes
<1>3. final' = before'.final
  BY <1>2 DEF Files
<1>4. before' = [final |-> final', profile |-> profile', phrase |-> phrase']
  BY <1>2, <1>3
<1> QED
  BY <1>1, <1>4 DEF Ended

LEMMA EndedStep ==
  ASSUME SetupInv, SetupNext, DiskTypes'
  PROVE  Ended'
<1> USE DEF SetupInv, SetupAt, Continue
<1>1. CASE setup'.step # "idle"
  BY <1>1 DEF Ended
<1>2. CASE spoiled' # {}
  BY <1>2 DEF Ended
<1>3. CASE /\ EndSetup("refused") /\ UNCHANGED <<final, profile, phrase, before, spoiled>>
           /\ setup.step \in Early \ {"store"}
  <2>1. CASE spoiled = {}
    <3>1. \A k \in Slots : final[k] = before.final[k]
      BY <1>3, <2>1, NothingTouched
    <3>2. profile = before.profile /\ phrase = before.phrase
      BY <1>3, <2>1 DEF OldSecrets, SetupShape, Early
    <3> QED
      BY <1>3, <3>1, <3>2, EndsAsBefore
  <2> QED
    BY <1>2, <1>3, <2>1
<1>4. CASE ClearFails \/ StageFails \/ FingerprintFails
  BY <1>3, <1>4 DEF ClearFails, StageFails, FingerprintFails, Faulty, disk, Early
<1>5. CASE Finalize
  <2>1. setup.step = "finalize" /\ EndSetup("done") /\ UNCHANGED <<final, profile, phrase>>
    BY <1>5 DEF Finalize
  <2>3. setup'.last = "done" /\ setup'.offer = setup.offer
    BY <2>1, SetupEnds
  <2>2. Installed(setup.offer)'
    BY <2>1, <2>3, AllInstalled, StillInstalled
  <2> QED
    BY <2>2, <2>3 DEF Ended
<1>6. CASE RestorePhrase
  <2>1. /\ setup.step = "phrase" /\ UNCHANGED <<final, profile, before, spoiled>>
        /\ EndSetup("failed") /\ phrase' = IF setup.loaded THEN setup.saved ELSE phrase
    BY <1>6 DEF RestorePhrase, Smooth
  <2>2. CASE spoiled = {}
    <3>1. /\ \A k \in Slots : final[k] = before.final[k]
          /\ profile = before.profile /\ phrase' = before.phrase
      BY <2>1, <2>2 DEF OldFiles, OldSecrets
    <3> QED
      BY <2>1, <3>1, EndsAsBefore
  <2> QED
    BY <1>2, <2>1, <2>2
<1>7. CASE RestorePhraseFails \/ Dies
  BY <1>2, <1>7 DEF RestorePhraseFails, Dies, RollbackFault
<1>8. ASSUME NEW src \in Sources, StartSetup(src) PROVE Ended'
  <2>1. setup'.step \in {"clear", "write"}
    BY <1>8 DEF StartSetup, IdleSetup
  <2> QED
    BY <1>1, <2>1
<1>9. ASSUME NEW b \in BOOLEAN, EnterRollback(b) PROVE Ended'
  BY <1>1, <1>9 DEF EnterRollback, SetupShape, Setups
<1>10. ASSUME NEW x \in Steps \ {"idle"}, setup' = [setup EXCEPT !.step = x] PROVE Ended'
  BY <1>1, <1>10 DEF SetupShape, Setups
<1>11. CASE ClearIncoming \/ WriteProfile \/ StorePhrase \/ ReplaceProfile
  BY <1>10, <1>11 DEF ClearIncoming, WriteProfile, StorePhrase, ReplaceProfile, Steps
<1>12. CASE StageFile \/ SavePhrase \/ BackUpFinal \/ InstallStaged \/ StartRestore
  BY <1>1, <1>12 DEF StageFile, SavePhrase, BackUpFinal, InstallStaged, StartRestore, SetupShape, Setups
<1>13. CASE StepFails
  BY <1>9, <1>13 DEF StepFails
<1>14. ASSUME NEW k \in Slots, UnlinkInstalled(k) \/ RestoreBackup(k) \/ RestoreFails(k) PROVE Ended'
  <2>1. setup'.step = setup.step /\ setup.step \in {"unlink", "restore"}
    BY <1>14 DEF UnlinkInstalled, RestoreBackup, RestoreFails, Done, SetupShape, Setups
  <2> QED
    BY <1>1, <2>1
<1>15. CASE DiscardIncoming
  <2>1. CASE EnterRollback(FALSE)
    BY <1>9, <2>1
  <2>2. CASE setup' = [setup EXCEPT !.step = "phrase", !.tempDir = FALSE, !.backups = {}, !.installed = {}]
    BY <1>1, <2>2 DEF SetupShape, Setups
  <2>3. CASE setup' = [setup EXCEPT !.step = "phrase"]
    BY <1>1, <2>3 DEF SetupShape, Setups
  <2> QED
    BY <1>15, <2>1, <2>2, <2>3 DEF DiscardIncoming
<1> QED
  BY <1>4, <1>5, <1>6, <1>7, <1>8, <1>11, <1>12, <1>13, <1>14, <1>15
     DEF SetupNext, SetupCrash, CrashInRestore

LEMMA SetupInvInit == SetupInit => SetupInv
<1> SUFFICES ASSUME SetupInit PROVE SetupInv
  OBVIOUS
<1>1. NoFiles \in Files /\ NoProfile \in Profiles /\ "none" \in Phrases
  BY DEF NoFiles, Files, Contents, Profiles, Phrases
<1>2. SetupShape
  <2>1. setup \in Setups /\ setup.step = "idle" /\ phrase = "none"
    BY IdleSetupShape DEF SetupInit
  <2> QED
    BY <1>1, <2>1 DEF SetupShape, Early, Forward
<1>3. setup.step = "idle" /\ setup.last = "none" /\ before.final = final
  BY DEF SetupInit, IdleSetup
<1>4. DiskTypes
  BY <1>1 DEF DiskTypes, SetupInit
<1> QED
  BY <1>2, <1>3, <1>4 DEF SetupInv, NewFiles, OldFiles, OldSecrets, Ended, Survives, Early, Forward, SetupAt

LEMMA SetupInvStep == SetupInv /\ [SetupNext]_setupVars => SetupInv'
<1> SUFFICES ASSUME SetupInv, [SetupNext]_setupVars PROVE SetupInv'
  OBVIOUS
<1>1. CASE UNCHANGED setupVars
  BY <1>1 DEF setupVars, disk, SetupInv, SetupShape, DiskTypes, NewFiles, OldFiles, OldSecrets, Ended,
     Accounted, Survives, SetupAt, Installed, CertificateOf, PrivateKeyOf
<1>2. CASE SetupNext
  <2>1. SetupShape' /\ DiskTypes' /\ NewFiles'
    BY ShapeStep, DiskTypesStep, NewFilesStep DEF SetupInv
  <2>2. "rollback" \notin spoiled' => OldFiles' /\ OldSecrets'
    BY <1>2, OldFilesStep, OldSecretsStep DEF SetupInv
  <2>3. Ended'
    BY <1>2, <2>1, EndedStep
  <2> QED
    BY <2>1, <2>2, <2>3 DEF SetupInv
<1> QED
  BY <1>1, <1>2

LEMMA SetupsAlways == ExchangeSpec => []SetupInv
<1>1. SetupInv /\ [ExchangeNext]_lxVars => SetupInv'
  <2> SUFFICES ASSUME SetupInv, [ExchangeNext]_lxVars PROVE SetupInv'
    OBVIOUS
  <2>1. [SetupNext]_setupVars
    BY DEF ExchangeNext, lxVars, SetupStep, StartCommand, LoadProfile, ReadCertificate, ReadPrivateKey,
       ResolvePhrase, ReadFails, ParseMaterial, RefuseMessage, SendMessage, TransportFails, HttpError,
       BodyUnread, AuthAnswer, BusinessAnswer
  <2> QED
    BY <2>1, SetupInvStep
<1> QED
  BY <1>1, SetupInvInit, PTL DEF ExchangeSpec, ExchangeInit

\* SetupIsAtomic (setup_service.py, "rollback-safe profile creation") for any folders, sets,
\* faults and crashes: a setup that ended undisturbed has installed everything or nothing.
THEOREM SetupsAreAtomic == ExchangeSpec => []SetupIsAtomic
<1>1. SetupInv => SetupIsAtomic
  BY DEF SetupInv, Ended, SetupIsAtomic
<1> QED
  BY <1>1, SetupsAlways, PTL

\* OldFilesSurvive (commit() of setup_intake.py moves what it replaces): while no operation of
\* a rollback has failed, every replaced file exists until everything new is in place,
\* whatever step a crash cuts off, an rmtree in the middle included.
THEOREM ReplacedFilesSurvive == ExchangeSpec => []OldFilesSurvive
<1>1. SetupInv => OldFilesSurvive
  <2> SUFFICES ASSUME SetupInv, "rollback" \notin spoiled
               PROVE  (\A k \in Slots : Survives(k)) \/ Installed(setup.offer)
    BY DEF OldFilesSurvive
  <2>1. CASE setup.step = "idle"
    BY <2>1 DEF SetupInv, OldFiles
  <2>2. CASE setup.step # "idle"
    BY <2>2, OldFilesSurvived DEF SetupInv
  <2> QED
    BY <2>1, <2>2
<1> QED
  BY <1>1, SetupsAlways, PTL

-----------------------------------------------------------------------------
(* The command. *)

LEMMA StageNames ==
  /\ TransportStage["auth"] = "auth_transport"
  /\ TransportStage["request"] = "metadata_request_transport"
  /\ TransportStage["verify"] = "verify_transport"
  /\ TransportStage["download"] = "package_download"
  /\ ParseStage["auth"] = "auth_response_parse"
  /\ ParseStage["request"] = "metadata_request_parse"
  /\ ParseStage["verify"] = "verify_response_parse"
  /\ ParseStage["download"] = "package_download"
BY DEF TransportStage, ParseStage, MessageKinds

LEMMA StageSets ==
  /\ StagesOf("auth") = {"auth_transport", "auth_response_parse", "token_extract"}
  /\ StagesOf("request") = {"metadata_request_transport", "metadata_request_parse"}
  /\ StagesOf("verify") = {"verify_transport", "verify_response_parse"}
  /\ StagesOf("download") = {"package_download"}
<1> USE StageNames DEF StagesOf
<1>1. StagesOf("auth") = {"auth_transport", "auth_response_parse", "token_extract"}
  OBVIOUS
<1>2. StagesOf("request") = {"metadata_request_transport", "metadata_request_parse"}
  OBVIOUS
<1>3. StagesOf("verify") = {"verify_transport", "verify_response_parse"}
  OBVIOUS
<1>4. StagesOf("download") = {"package_download"}
  OBVIOUS
<1> QED
  BY <1>1, <1>2, <1>3, <1>4

\* A stage names one message at most, and none of the others is such a name.
LEMMA StagesDiffer ==
  /\ \A k, l \in MessageKinds : k # l => StagesOf(k) \cap StagesOf(l) = {}
  /\ \A k \in MessageKinds :
       /\ StagesOf(k) \cap LocalStages = {}
       /\ {"none", "preflight", "auth_request_readiness", "verify_request_readiness"} \cap StagesOf(k) = {}
       /\ TransportStage[k] \in StagesOf(k) /\ ParseStage[k] \in StagesOf(k)
  /\ "token_extract" \in StagesOf("auth")
BY StageSets, StageNames DEF MessageKinds, LocalStages

\* StageIsTruthful of any report and any messages.
Truthful(stage, kind, w) ==
  /\ stage \in LocalStages \cup {"preflight", "auth_request_readiness"} => w = <<>>
  /\ stage = "verify_request_readiness" =>
       /\ w # <<>> /\ w[Len(w)].kind \in {"auth", "request"}
       /\ \A i \in DOMAIN w : w[i].answered
  /\ \A k \in MessageKinds : stage \in StagesOf(k) =>
       IF kind \in AnswerKinds
       THEN w # <<>> /\ w[Len(w)].kind = k /\ \A i \in DOMAIN w : w[i].answered
       ELSE \A i \in DOMAIN w : w[i].answered <=> w[i].kind # k

LEMMA TruthfulStage == StageIsTruthful <=> Truthful(report.stage, report.kind, wire)
BY DEF StageIsTruthful, Truthful

LEMMA TruthfulEarly ==
  ASSUME NEW s \in LocalStages \cup {"none", "preflight", "auth_request_readiness"}, NEW kd, NEW w,
         s # "none" => w = <<>>
  PROVE  Truthful(s, kd, w)
<1>1. \A k \in MessageKinds : s \notin StagesOf(k)
  BY StagesDiffer
<1>2. s # "verify_request_readiness" /\ (s = "none" => s \notin LocalStages)
  BY DEF LocalStages
<1> QED
  BY <1>1, <1>2 DEF Truthful

\* Nobody answered: what is on the wire is answered, but for this message.
LEMMA TruthfulUnanswered ==
  ASSUME NEW k \in MessageKinds, NEW s \in StagesOf(k), NEW kd, kd \notin AnswerKinds, NEW w,
         \A i \in DOMAIN w : w[i].answered <=> w[i].kind # k
  PROVE  Truthful(s, kd, w)
<1>1. \A l \in MessageKinds : s \in StagesOf(l) => l = k
  BY StagesDiffer
<1>2. s \notin LocalStages \cup {"preflight", "auth_request_readiness"}
      /\ s # "verify_request_readiness"
  BY StagesDiffer
<1> QED
  BY <1>1, <1>2 DEF Truthful

LEMMA TruthfulAnswered ==
  ASSUME NEW k \in MessageKinds, NEW s \in StagesOf(k), NEW kd \in AnswerKinds, NEW w,
         w # <<>>, w[Len(w)].kind = k, \A i \in DOMAIN w : w[i].answered
  PROVE  Truthful(s, kd, w)
<1>1. \A l \in MessageKinds : s \in StagesOf(l) => l = k
  BY StagesDiffer
<1>2. s \notin LocalStages \cup {"preflight", "auth_request_readiness"}
      /\ s # "verify_request_readiness"
  BY StagesDiffer
<1> QED
  BY <1>1, <1>2 DEF Truthful

LEMMA TruthfulReadiness ==
  ASSUME NEW kd, NEW w, w # <<>>, w[Len(w)].kind \in {"auth", "request"},
         \A i \in DOMAIN w : w[i].answered
  PROVE  Truthful("verify_request_readiness", kd, w)
<1>1. \A k \in MessageKinds : "verify_request_readiness" \notin StagesOf(k)
  BY StagesDiffer
<1> QED
  BY <1>1 DEF Truthful, LocalStages

\* A table of eight rules gives one of its kinds.
LEMMA SomeRule ==
  ASSUME NEW rules, DOMAIN rules = 1..8, rules[8][1]
  PROVE  \E i \in 1..8 : FirstOf(rules) = rules[i][2]
<1> DEFINE Is(k) == rules[k][1] /\ \A j \in 1..(k - 1) : ~rules[j][1]
<1>1. \E k \in DOMAIN rules : Is(k)
  <2> SUFFICES ASSUME \A k \in 1..8 : ~Is(k) PROVE FALSE
    OBVIOUS
  <2>1. ~rules[1][1]
    OBVIOUS
  <2>2. ~rules[2][1]
    BY <2>1
  <2>3. ~rules[3][1]
    BY <2>1, <2>2
  <2>4. ~rules[4][1]
    BY <2>1, <2>2, <2>3
  <2>5. ~rules[5][1]
    BY <2>1, <2>2, <2>3, <2>4
  <2>6. ~rules[6][1]
    BY <2>1, <2>2, <2>3, <2>4, <2>5
  <2>7. ~rules[7][1]
    BY <2>1, <2>2, <2>3, <2>4, <2>5, <2>6
  <2> QED
    BY <2>1, <2>2, <2>3, <2>4, <2>5, <2>6, <2>7
<1>2. FirstOf(rules) = rules[CHOOSE k \in DOMAIN rules : Is(k)][2]
  BY DEF FirstOf
<1>3. (CHOOSE k \in DOMAIN rules : Is(k)) \in DOMAIN rules
  <2> HIDE DEF Is
  <2> QED
    BY <1>1
<1> HIDE DEF Is
<1> QED
  BY <1>2, <1>3

\* What is said of an exception is never what is said of an answer.
LEMMA ErrorsAreNoAnswers == \A e, stage : SendErrorKind(e, stage) \notin AnswerKinds
<1> SUFFICES ASSUME NEW e, NEW stage PROVE SendErrorKind(e, stage) \notin AnswerKinds
  OBVIOUS
<1> DEFINE rules == <<
  <<e.class = "cert_verify", "certificate_verify_failed">>,
  <<IsSslError(e) /\ "client_cert" \in e.says, "client_cert_rejected">>,
  <<IsSslError(e), "tls_handshake_failed">>,
  <<e.class = "timeout", "timeout">>,
  <<e.class \in {"remote_disconnected", "eof"} \/ "closed" \in e.says, "remote_closed_connection">>,
  <<IsReset(e) \/ "reset" \in e.says, "connection_reset_during_post">>,
  <<"proxy" \in e.says, "proxy_connect_failed">>,
  <<TRUE, "client_configuration_error">> >>
<1>1. ClassifyTransportFailure(e) = FirstOf(rules) /\ DOMAIN rules = 1..8 /\ rules[8][1]
  BY DEF ClassifyTransportFailure
<1>2. \A i \in 1..8 : rules[i][2] \notin AnswerKinds
  BY DEF AnswerKinds
<1> HIDE DEF rules
<1>3. ClassifyTransportFailure(e) \notin AnswerKinds
  BY <1>1, <1>2, SomeRule
<1> QED
  BY <1>3 DEF SendErrorKind, AnswerKinds

LEMMA SentWire ==
  ASSUME NEW w \in Seq(Message), NEW m \in Message
  PROVE  /\ Append(w, m) \in Seq(Message) /\ Append(w, m) # <<>>
         /\ Append(w, m)[Len(Append(w, m))] = m
         /\ DOMAIN Append(w, m) = 1..(Len(w) + 1) /\ Append(w, m)[Len(w) + 1] = m
         /\ \A i \in DOMAIN w : Append(w, m)[i] = w[i]
OBVIOUS

\* The messages w when the last one has been answered.
LastAnswered(w) == [w EXCEPT ![Len(w)].answered = TRUE]

LEMMA AnsweredWire ==
  ASSUME NEW w \in Seq(Message), w # <<>>, NEW v, v = LastAnswered(w)
  PROVE  /\ v \in Seq(Message) /\ v # <<>> /\ DOMAIN v = DOMAIN w
         /\ v[Len(v)].kind = w[Len(w)].kind /\ v[Len(v)].answered
         /\ \A i \in DOMAIN w :
              /\ v[i].cert = w[i].cert /\ v[i].key = w[i].key /\ v[i].kind = w[i].kind
              /\ i # Len(w) => v[i].answered = w[i].answered
<1> DEFINE n == Len(w)
           m == [w[n] EXCEPT !.answered = TRUE]
<1>1. n \in Nat /\ n > 0 /\ DOMAIN w = 1..n /\ \A i \in 1..n : w[i] \in Message
  OBVIOUS
<1>2. m \in Message /\ m.kind = w[n].kind /\ m.answered /\ m.cert = w[n].cert /\ m.key = w[n].key
  <2>1. w[n] \in Message
    BY <1>1
  <2> QED
    BY <2>1 DEF Message
<1>0. n = Len(w)
  OBVIOUS
<1>3. v = [w EXCEPT ![n] = m]
  BY DEF LastAnswered
<1> HIDE DEF m, n
<1>4. v \in Seq(Message) /\ Len(v) = n /\ DOMAIN v = 1..n
  <2>1. w \in [1..n -> Message]
    BY <1>1
  <2>2. v \in [1..n -> Message]
    BY <1>1, <1>2, <1>3, <2>1
  <2> QED
    BY <1>1, <2>2
<1>5. v[n] = m /\ \A i \in 1..n : i # n => v[i] = w[i]
  BY <1>1, <1>3
<1>6. \A i \in 1..n : /\ v[i].cert = w[i].cert /\ v[i].key = w[i].key /\ v[i].kind = w[i].kind
                      /\ i # n => v[i].answered = w[i].answered
  BY <1>2, <1>5
<1>7. v # <<>>
  BY <1>1, <1>4
<1> QED
  BY <1>0, <1>1, <1>2, <1>4, <1>5, <1>6, <1>7

LEMMA BuiltReady ==
  ASSUME NEW v \in Variants, NEW f \in Flags,
         EnvelopeOK("auth_live_smoke", v, f) \/ (v = DefaultVariant /\ f = "on")
  PROVE  AuthRequestReady(BuildHeader(v, f), v, f)
<1>1. /\ <<"Security">> # <<"Action", "Security">> /\ <<"Security">> # <<"Security", "Action">>
      /\ <<"Action", "Security">> # <<"Security", "Action">>
  OBVIOUS
<1>2. CASE v = "security_only"
  <2>1. BuildHeader(v, f) = <<"Security">>
    BY <1>2 DEF BuildHeader
  <2> QED
    BY <1>1, <1>2, <2>1 DEF AuthRequestReady, HeaderActionOrder
<1>3. CASE v = "action_before_security"
  <2>1. f = "on"
    BY <1>3 DEF EnvelopeOK, DefaultVariant
  <2>2. BuildHeader(v, f) = <<"Action", "Security">>
    BY <1>3, <2>1 DEF BuildHeader
  <2> QED
    BY <1>1, <1>3, <2>1, <2>2 DEF AuthRequestReady, HeaderActionOrder
<1>4. CASE v = "security_before_action"
  <2>1. f = "on"
    BY <1>4 DEF EnvelopeOK, DefaultVariant
  <2>2. BuildHeader(v, f) = <<"Security", "Action">>
    BY <1>4, <2>1 DEF BuildHeader
  <2> QED
    BY <1>1, <1>4, <2>1, <2>2 DEF AuthRequestReady, HeaderActionOrder
<1> QED
  BY <1>2, <1>3, <1>4 DEF Variants

Loading == {"load", "cert", "key", "phrase", "parse"}
Signing == {"send", "wait"}

CommandShape ==
  /\ cmd \in CommandType
  /\ cmd.step \in Loading => cmd.msg = "auth"
  /\ cmd.step = "parse" => cmd.phrase \in Sets /\ cmd.cert # "none"
  /\ cmd.step \in {"key", "phrase"} => cmd.cert # "none"
  /\ cmd.step \in Signing => cmd.cert \in Sets /\ cmd.key \in Sets
  /\ cmd.step # "idle" =>
       IF cmd.op = "auth_smoke" THEN EnvelopeOK("auth_live_smoke", cmd.variant, cmd.wcf)
       ELSE cmd.variant = DefaultVariant /\ cmd.wcf = "on"

LEMMA IdleCommandType ==
  ASSUME NEW c \in 0..MaxCommands
  PROVE  IdleCommand(c) \in CommandType /\ IdleCommand(c).step = "idle"
<1>1. /\ DefaultVariant \in Variants /\ "off" \in Flags /\ NoProfile \in Profiles /\ "none" \in Contents
      /\ "none" \in Phrases /\ "auth" \in MessageKinds /\ "idle" \in CommandSteps
      /\ "auth_smoke" \in Operations
  BY DEF DefaultVariant, Variants, Flags, Profiles, Contents, Phrases, MessageKinds, CommandSteps, Operations
<1> QED
  BY <1>1 DEF IdleCommand, CommandType

LEMMA EndShape ==
  ASSUME CommandShape, cmd' = IdleCommand(cmd.count)
  PROVE  CommandShape' /\ cmd'.step = "idle"
<1>1. cmd.count \in 0..MaxCommands
  BY DEF CommandShape, CommandType
<1>2. cmd' \in CommandType /\ cmd'.step = "idle"
  BY <1>1, IdleCommandType
<1> QED
  BY <1>2 DEF CommandShape, Loading, Signing

LEMMA OptionsType ==
  ASSUME NEW op \in Operations, NEW options \in EnvelopeOptions(op)
  PROVE  /\ options[1] \in Variants /\ options[2] \in Flags
         /\ IF op = "auth_smoke" THEN EnvelopeOK("auth_live_smoke", options[1], options[2])
            ELSE options[1] = DefaultVariant /\ options[2] = "on"
BY DEF EnvelopeOptions, DefaultVariant, Variants, Flags

LEMMA ProfileFiles ==
  ASSUME DiskTypes, NEW p \in Profiles
  PROVE  CertificateOf(p) \in Contents /\ PrivateKeyOf(p) \in Contents
<1>1. p.cert \in Contents /\ p.key \in Contents
  BY DEF Profiles, NoProfile, Contents
<1>2. "cert" \in Slots /\ KeySlot(p.key) \in Slots
  BY DEF KeySlot, Slots
<1> QED
  BY <1>1, <1>2 DEF CertificateOf, PrivateKeyOf, DiskTypes, Files

LEMMA FirstMessage ==
  ASSUME NEW op \in Operations, MessagesOf(op) # <<>>
  PROVE  Head(MessagesOf(op)) \in MessageKinds \ {"auth"}
<1>1. CASE op = "auth_smoke"
  BY <1>1 DEF MessagesOf
<1>2. CASE op = "metadata_smoke"
  BY <1>2 DEF MessagesOf, MessageKinds
<1>3. CASE op = "metadata_request_smoke"
  BY <1>3 DEF MessagesOf, MessageKinds
<1>4. CASE op = "verify_request"
  BY <1>4 DEF MessagesOf, MessageKinds
<1>5. CASE op = "download_package"
  BY <1>5 DEF MessagesOf, MessageKinds
<1> QED
  BY <1>1, <1>2, <1>3, <1>4, <1>5 DEF Operations

LEMMA CommandShapeStep ==
  ASSUME CommandShape, DiskTypes, phrase \in Phrases, [ExchangeNext]_lxVars
  PROVE  CommandShape'
<1> USE DEF At, Go
<1>1. CASE UNCHANGED cmd
  BY <1>1 DEF CommandShape
<1>2. CASE cmd' = IdleCommand(cmd.count)
  BY <1>2, EndShape
<1>3. ASSUME NEW op \in Operations, NEW argsOk \in BOOLEAN, NEW endpointOk \in BOOLEAN,
             NEW options \in EnvelopeOptions(op), StartCommand(op, options, argsOk, endpointOk)
      PROVE  CommandShape'
  <2> DEFINE c == IdleCommand(cmd.count + 1)
             v == options[1]
             f == options[2]
  <2>1. cmd.count + 1 \in 0..MaxCommands
    BY <1>3 DEF StartCommand, CommandShape, CommandType
  <2>2. c \in CommandType /\ c.msg = "auth"
    BY <2>1, IdleCommandType DEF IdleCommand
  <2>3. v \in Variants /\ f \in Flags
    BY OptionsType
  <2>4. IF op = "auth_smoke" THEN EnvelopeOK("auth_live_smoke", v, f)
        ELSE v = DefaultVariant /\ f = "on"
    BY OptionsType
  <2>5. cmd' = [c EXCEPT !.step = "load", !.op = op, !.variant = v, !.wcf = f,
                        !.argsOk = argsOk, !.verifyEndpointOk = endpointOk]
    BY <1>3 DEF StartCommand
  <2>6. "load" \in CommandSteps
    BY DEF CommandSteps
  <2> HIDE DEF c, v, f
  <2>7. cmd' \in CommandType
    BY <2>2, <2>3, <2>5, <2>6 DEF CommandType
  <2>8. cmd'.step = "load" /\ cmd'.msg = "auth" /\ cmd'.op = op /\ cmd'.variant = v /\ cmd'.wcf = f
    BY <2>2, <2>5 DEF CommandType
  <2> QED
    BY <2>4, <2>7, <2>8 DEF CommandShape, Signing
<1>4. CASE LoadProfile
  <2>1. CASE cmd' = [cmd EXCEPT !.step = "cert", !.profile = profile] /\ cmd.step = "load"
    <3>1. profile \in Profiles
      BY DEF DiskTypes
    <3> QED
      BY <2>1, <3>1 DEF CommandShape, CommandType, CommandSteps, Loading, Signing
  <2> QED
    BY <1>2, <1>4, <2>1 DEF LoadProfile, End
<1>5. CASE ReadCertificate
  <2> DEFINE x == CertificateOf(cmd.profile)
  <2>1. cmd.profile \in Profiles
    BY DEF CommandShape, CommandType
  <2>2. x \in Contents
    BY <2>1, ProfileFiles
  <2>3. End("credential_load", "credential_load_failed") \/
        (x # "none" /\ cmd' = [cmd EXCEPT !.step = "key", !.cert = x])
    BY <1>5 DEF ReadCertificate
  <2>4. cmd.step = "cert"
    BY <1>5 DEF ReadCertificate
  <2> HIDE DEF x
  <2>5. CASE x # "none" /\ cmd' = [cmd EXCEPT !.step = "key", !.cert = x]
    BY <2>2, <2>4, <2>5 DEF CommandShape, CommandType, CommandSteps, Loading, Signing
  <2> QED
    BY <1>2, <2>3, <2>5 DEF End
<1>6. CASE ReadPrivateKey
  <2> DEFINE x == PrivateKeyOf(cmd.profile)
  <2>1. cmd.profile \in Profiles
    BY DEF CommandShape, CommandType
  <2>2. x \in Contents
    BY <2>1, ProfileFiles
  <2>3. End("credential_load", "credential_load_failed") \/ cmd' = [cmd EXCEPT !.step = "phrase", !.key = x]
    BY <1>6 DEF ReadPrivateKey
  <2>4. cmd.step = "key"
    BY <1>6 DEF ReadPrivateKey
  <2> HIDE DEF x
  <2>5. CASE cmd' = [cmd EXCEPT !.step = "phrase", !.key = x]
    BY <2>2, <2>4, <2>5 DEF CommandShape, CommandType, CommandSteps, Loading, Signing
  <2> QED
    BY <1>2, <2>3, <2>5 DEF End
<1>7. CASE ResolvePhrase
  <2>1. CASE cmd' = [cmd EXCEPT !.step = "parse", !.phrase = phrase] /\ phrase # "none" /\ cmd.step = "phrase"
    <3>1. phrase \in Sets
      BY <2>1 DEF Phrases
    <3> QED
      BY <2>1, <3>1 DEF CommandShape, CommandType, CommandSteps, Loading, Signing
  <2> QED
    BY <1>2, <1>7, <2>1 DEF ResolvePhrase, End
<1>8. CASE ReadFails
  BY <1>2, <1>8 DEF ReadFails, End
<1>9. CASE ParseMaterial
  <2>1. CASE /\ cmd' = [cmd EXCEPT !.step = "send", !.material = TRUE] /\ cmd.step = "parse"
             /\ cmd.cert # "torn" /\ KeyOpens(cmd.key, cmd.phrase)
    <3>1. cmd.cert \in Sets /\ cmd.key \in Sets
      BY <2>1 DEF CommandShape, CommandType, Contents, Pieces, KeyOpens
    <3> QED
      BY <2>1, <3>1 DEF CommandShape, CommandType, CommandSteps, Loading, Signing
  <2> QED
    BY <1>2, <1>9, <2>1 DEF ParseMaterial, End
<1>10. CASE SendMessage
  BY <1>10 DEF SendMessage, CommandShape, CommandType, CommandSteps, Loading, Signing
<1>17. CASE RefuseMessage \/ BodyUnread
  BY <1>2, <1>17 DEF RefuseMessage, BodyUnread, End
<1>11. ASSUME NEW e \in Failures, TransportFails(e) PROVE CommandShape'
  BY <1>2, <1>11 DEF TransportFails, End
<1>12. ASSUME NEW r \in Answers, HttpError(r) PROVE CommandShape'
  BY <1>2, <1>12 DEF HttpError, End
<1>13. ASSUME NEW m \in MessageKinds, NEW tk \in TokenForms \cup {"none"}, NextMessage(m, tk),
              cmd.step = "wait"
       PROVE  CommandShape'
  BY <1>13 DEF NextMessage, CommandShape, CommandType, CommandSteps, Loading, Signing
<1>14. ASSUME NEW r \in Answers, NEW body \in Bodies, NEW token \in TokenForms, AuthAnswer(r, body, token)
       PROVE  CommandShape'
  <2> DEFINE m == Head(MessagesOf(cmd.op))
  <2>1. CASE NextMessage(m, token) /\ MessagesOf(cmd.op) # <<>>
    <3>1. cmd.op \in Operations
      BY DEF CommandShape, CommandType
    <3>2. m \in MessageKinds
      BY <2>1, <3>1, FirstMessage
    <3> HIDE DEF m
    <3> QED
      BY <1>13, <1>14, <2>1, <3>2 DEF AuthAnswer
  <2> QED
    BY <1>2, <1>14, <2>1 DEF AuthAnswer, End
<1>15. ASSUME NEW r \in Answers, NEW body \in Bodies, NEW accepted \in BOOLEAN, BusinessAnswer(r, body, accepted)
       PROVE  CommandShape'
  <2>1. cmd.step = "wait" /\ cmd.token \in TokenForms \cup {"none"} /\ "verify" \in MessageKinds
    BY <1>15 DEF BusinessAnswer, CommandShape, CommandType, MessageKinds
  <2>2. CASE NextMessage("verify", cmd.token)
    BY <1>13, <2>1, <2>2
  <2> QED
    BY <1>2, <1>15, <2>2 DEF BusinessAnswer, End
<1>16. CASE SetupStep \/ UNCHANGED lxVars
  BY <1>1, <1>16 DEF SetupStep, lxVars, exchangeVars
<1> QED
  BY <1>3, <1>4, <1>5, <1>6, <1>7, <1>8, <1>9, <1>10, <1>11, <1>12, <1>14, <1>15, <1>16, <1>17
     DEF ExchangeNext

\* The messages that can come before another one.
Before == [k \in MessageKinds |->
  CASE k = "auth" -> {} [] k = "verify" -> {"auth", "request"} [] OTHER -> {"auth"}]

LEMMA BeforeIs ==
  /\ Before["auth"] = {} /\ Before["request"] = {"auth"} /\ Before["download"] = {"auth"}
  /\ Before["verify"] = {"auth", "request"}
BY DEF Before, MessageKinds

\* What the messages on the wire have to do with the command that sent them.
WireInv ==
  /\ wire \in Seq(Message)
  /\ cmd.step \in Loading => wire = <<>>
  /\ cmd.step \in Signing => \A i \in DOMAIN wire : wire[i].cert = cmd.cert /\ wire[i].key = cmd.key
  /\ cmd.step \in Signing => \A i \in DOMAIN wire :
       wire[i].kind \in Before[cmd.msg] \/ (cmd.step = "wait" /\ i = Len(wire))
  /\ cmd.step = "send" => \A i \in DOMAIN wire : wire[i].answered
  /\ cmd.step = "send" /\ cmd.msg # "auth" => wire # <<>>
  /\ cmd.step = "wait" =>
       /\ wire # <<>> /\ wire[Len(wire)].kind = cmd.msg /\ ~wire[Len(wire)].answered
       /\ \A i \in DOMAIN wire : i # Len(wire) => wire[i].answered
  /\ cmd.step # "idle" => report.stage = "none"
  /\ OneIdentityPerCommand
  /\ Truthful(report.stage, report.kind, wire)

CommandInv == CommandShape /\ WireInv

\* A command ends: the messages stay, only the report changes.
LEMMA EndWire ==
  ASSUME cmd'.step = "idle", wire' \in Seq(Message), OneIdentityPerCommand',
         Truthful(report'.stage, report'.kind, wire')
  PROVE  WireInv'
BY DEF WireInv, Loading, Signing

\* A step before anything is sent.
LEMMA LoadingWire ==
  ASSUME wire' = <<>>, report'.stage = "none", cmd'.step \in Loading \/ (cmd'.step = "send" /\ cmd'.msg = "auth")
  PROVE  WireInv'
<1>1. <<>> \in Seq(Message)
  OBVIOUS
<1>2. \A kd : Truthful("none", kd, <<>>)
  BY TruthfulEarly
<1> QED
  BY <1>1, <1>2 DEF WireInv, Loading, Signing, OneIdentityPerCommand

\* The answer to the last message arrives.
LEMMA AnswerWire ==
  ASSUME WireInv, cmd.step = "wait", Answered
  PROVE  /\ wire' \in Seq(Message) /\ wire' # <<>> /\ OneIdentityPerCommand'
         /\ wire'[Len(wire')].kind = cmd.msg /\ \A i \in DOMAIN wire' : wire'[i].answered
         /\ \A i \in DOMAIN wire' : wire'[i].kind \in Before[cmd.msg] \cup {cmd.msg}
         /\ \A i \in DOMAIN wire' : wire'[i].cert = cmd.cert /\ wire'[i].key = cmd.key
<1> DEFINE v == wire'
<1>1. /\ wire \in Seq(Message) /\ wire # <<>> /\ wire[Len(wire)].kind = cmd.msg
      /\ \A i \in DOMAIN wire : wire[i].cert = cmd.cert /\ wire[i].key = cmd.key
      /\ \A i \in DOMAIN wire : i # Len(wire) => wire[i].answered
      /\ \A i \in DOMAIN wire : wire[i].kind \in Before[cmd.msg] \/ i = Len(wire)
  BY DEF WireInv, Signing
<1>2. v = LastAnswered(wire)
  BY DEF Answered, LastAnswered
<1>3. /\ v \in Seq(Message) /\ v # <<>> /\ DOMAIN v = DOMAIN wire
      /\ v[Len(v)].kind = wire[Len(wire)].kind /\ v[Len(v)].answered
      /\ \A i \in DOMAIN wire :
           /\ v[i].cert = wire[i].cert /\ v[i].key = wire[i].key /\ v[i].kind = wire[i].kind
           /\ i # Len(wire) => v[i].answered = wire[i].answered
  <2> HIDE DEF v
  <2> QED
    BY <1>1, <1>2, AnsweredWire
<1>4. \A i \in DOMAIN v : v[i].cert = cmd.cert /\ v[i].key = cmd.key
  BY <1>1, <1>3
<1>5. OneIdentityPerCommand'
  BY <1>4 DEF OneIdentityPerCommand
<1>6. Len(v) = Len(wire)
  BY <1>1, <1>3
<1>7. \A i \in DOMAIN v : v[i].answered
  BY <1>1, <1>3, <1>6
<1>8. \A i \in DOMAIN v : v[i].kind \in Before[cmd.msg] \cup {cmd.msg}
  BY <1>1, <1>3
<1> QED
  BY <1>1, <1>3, <1>4, <1>5, <1>7, <1>8

\* ... and the next message comes.
LEMMA GoOnWire ==
  ASSUME WireInv, cmd \in CommandType, cmd.step = "wait", Answered, UNCHANGED report,
         NEW m \in MessageKinds, NEW tk, NextMessage(m, tk),
         (cmd.msg = "auth" /\ m # "auth") \/ (cmd.msg = "request" /\ m = "verify")
  PROVE  WireInv'
<1>0. /\ cmd'.step = "send" /\ cmd'.cert = cmd.cert /\ cmd'.key = cmd.key /\ cmd'.msg = m
  BY DEF NextMessage, CommandType
<1>1. /\ wire' \in Seq(Message) /\ wire' # <<>> /\ OneIdentityPerCommand'
      /\ \A i \in DOMAIN wire' : wire'[i].answered
      /\ \A i \in DOMAIN wire' : wire'[i].kind \in Before[cmd.msg] \cup {cmd.msg}
      /\ \A i \in DOMAIN wire' : wire'[i].cert = cmd.cert /\ wire'[i].key = cmd.key
  BY AnswerWire
<1>2. Before[cmd.msg] \cup {cmd.msg} \subseteq Before[m]
  BY BeforeIs DEF MessageKinds
<1>3. report'.stage = "none"
  BY DEF WireInv
<1>4. Truthful(report'.stage, report'.kind, wire')
  BY <1>3, TruthfulEarly
<1> QED
  BY <1>0, <1>1, <1>2, <1>3, <1>4 DEF WireInv, Loading, Signing

LEMMA EndIdle ==
  ASSUME NEW s, NEW k, End(s, k)
  PROVE  cmd'.step = "idle" /\ report'.stage = s /\ report'.kind = k
BY DEF End, IdleCommand

\* A command that waits ends with an answer.
LEMMA EndAnswered ==
  ASSUME WireInv, cmd.step = "wait", Answered, cmd.msg \in MessageKinds,
         NEW s, NEW k, End(s, k), s = "none" \/ (s \in StagesOf(cmd.msg) /\ k \in AnswerKinds)
  PROVE  WireInv'
<1> DEFINE v == wire'
<1>1. /\ v \in Seq(Message) /\ v # <<>> /\ OneIdentityPerCommand'
      /\ v[Len(v)].kind = cmd.msg /\ \A i \in DOMAIN v : v[i].answered
  BY AnswerWire
<1> HIDE DEF v
<1>2. Truthful(s, k, v)
  <2>1. CASE s = "none"
    BY <2>1, TruthfulEarly
  <2>2. CASE s \in StagesOf(cmd.msg) /\ k \in AnswerKinds
    BY <1>1, <2>2, TruthfulAnswered
  <2> QED
    BY <2>1, <2>2
<1> QED
  BY <1>1, <1>2, EndWire, EndIdle DEF v

LEMMA WireStep ==
  ASSUME CommandInv, [ExchangeNext]_lxVars
  PROVE  WireInv'
<1> USE DEF CommandInv, At, Go
<1>0. cmd \in CommandType
  BY DEF CommandShape
<1>1. CASE SetupStep \/ UNCHANGED lxVars
  <2>1. UNCHANGED <<cmd, wire, report>>
    BY <1>1 DEF SetupStep, lxVars, exchangeVars
  <2> QED
    BY <2>1 DEF WireInv, OneIdentityPerCommand
<1>2. ASSUME NEW op \in Operations, NEW argsOk \in BOOLEAN, NEW endpointOk \in BOOLEAN,
             NEW options \in EnvelopeOptions(op), StartCommand(op, options, argsOk, endpointOk)
      PROVE  WireInv'
  <2>1. cmd'.step = "load" /\ wire' = <<>> /\ report'.stage = "none"
    BY <1>2 DEF StartCommand, IdleCommand
  <2> QED
    BY <2>1, LoadingWire DEF Loading
<1>3. ASSUME NEW s \in LocalStages \cup {"preflight"}, NEW k, End(s, k), UNCHANGED wire, cmd.step \in Loading
      PROVE  WireInv'
  <2>1. wire = <<>>
    BY <1>3 DEF WireInv
  <2>2. Truthful(s, k, wire')
    BY <1>3, <2>1, TruthfulEarly
  <2> QED
    BY <1>3, <2>2, EndWire, EndIdle DEF WireInv, OneIdentityPerCommand
<1>4. ASSUME UNCHANGED <<wire, report>>, cmd.step \in Loading,
             cmd'.step \in Loading \/ (cmd'.step = "send" /\ cmd'.msg = "auth")
      PROVE  WireInv'
  <2>1. wire' = <<>> /\ report'.stage = "none"
    BY <1>4 DEF WireInv, Loading
  <2> QED
    BY <1>4, <2>1, LoadingWire
<1>5. CASE LoadProfile
  <2>1. CASE cmd' = [cmd EXCEPT !.step = "cert", !.profile = profile] /\ UNCHANGED report
    <3>1. cmd'.step = "cert" /\ cmd.step = "load" /\ UNCHANGED wire
      BY <1>0, <1>5, <2>1 DEF LoadProfile, CommandType
    <3> QED
      BY <1>4, <2>1, <3>1 DEF Loading
  <2>2. CASE End("preflight", "guard_failed")
    BY <1>3, <1>5, <2>2 DEF LoadProfile, Loading
  <2> QED
    BY <1>5, <2>1, <2>2 DEF LoadProfile
<1>6. CASE ReadCertificate
  <2>1. CASE cmd' = [cmd EXCEPT !.step = "key", !.cert = CertificateOf(cmd.profile)] /\ UNCHANGED report
    <3>1. cmd'.step = "key" /\ cmd.step = "cert" /\ UNCHANGED wire
      BY <1>0, <1>6, <2>1 DEF ReadCertificate, CommandType
    <3> QED
      BY <1>4, <2>1, <3>1 DEF Loading
  <2>2. CASE End("credential_load", "credential_load_failed")
    BY <1>3, <1>6, <2>2 DEF ReadCertificate, Loading, LocalStages
  <2> QED
    BY <1>6, <2>1, <2>2 DEF ReadCertificate
<1>7. CASE ReadPrivateKey
  <2>1. CASE cmd' = [cmd EXCEPT !.step = "phrase", !.key = PrivateKeyOf(cmd.profile)] /\ UNCHANGED report
    <3>1. cmd'.step = "phrase" /\ cmd.step = "key" /\ UNCHANGED wire
      BY <1>0, <1>7, <2>1 DEF ReadPrivateKey, CommandType
    <3> QED
      BY <1>4, <2>1, <3>1 DEF Loading
  <2>2. CASE End("credential_load", "credential_load_failed")
    BY <1>3, <1>7, <2>2 DEF ReadPrivateKey, Loading, LocalStages
  <2> QED
    BY <1>7, <2>1, <2>2 DEF ReadPrivateKey
<1>8. CASE ResolvePhrase
  <2>1. CASE cmd' = [cmd EXCEPT !.step = "parse", !.phrase = phrase] /\ UNCHANGED report
    <3>1. cmd'.step = "parse" /\ cmd.step = "phrase" /\ UNCHANGED wire
      BY <1>0, <1>8, <2>1 DEF ResolvePhrase, CommandType
    <3> QED
      BY <1>4, <2>1, <3>1 DEF Loading
  <2>2. CASE End("secret_resolve", "secret_unavailable")
    BY <1>3, <1>8, <2>2 DEF ResolvePhrase, Loading, LocalStages
  <2> QED
    BY <1>8, <2>1, <2>2 DEF ResolvePhrase
<1>9. CASE ReadFails
  BY <1>3, <1>9 DEF ReadFails, Loading, LocalStages
<1>10. CASE ParseMaterial
  <2>1. CASE cmd' = [cmd EXCEPT !.step = "send", !.material = TRUE] /\ UNCHANGED report
    <3>1. cmd'.step = "send" /\ cmd.step = "parse" /\ UNCHANGED wire /\ cmd'.msg = cmd.msg
      BY <1>0, <1>10, <2>1 DEF ParseMaterial, CommandType
    <3>2. cmd.msg = "auth"
      BY <3>1 DEF CommandShape, Loading
    <3> QED
      BY <1>4, <2>1, <3>1, <3>2 DEF Loading
  <2>2. CASE \/ End("certificate_parse", "certificate_parse_failed")
             \/ End("private_key_load", "private_key_load_failed")
    BY <1>3, <1>10, <2>2 DEF ParseMaterial, Loading, LocalStages
  <2> QED
    BY <1>10, <2>1, <2>2 DEF ParseMaterial
<1>11. CASE SendMessage
  <2> DEFINE m == OnWire(cmd.msg)
  <2>1. cmd.step = "send" /\ cmd.cert \in Sets /\ cmd.key \in Sets /\ cmd.msg \in MessageKinds
        /\ wire \in Seq(Message) /\ wire' = Append(wire, m) /\ UNCHANGED report
        /\ cmd' = [cmd EXCEPT !.step = "wait"]
    BY <1>0, <1>11 DEF SendMessage, CommandShape, CommandType, Signing, WireInv
  <2>2. /\ m \in Message /\ m.cert = cmd.cert /\ m.key = cmd.key /\ m.kind = cmd.msg
        /\ m.answered = FALSE
    BY <2>1 DEF OnWire, Message
  <2>3. cmd'.step = "wait" /\ cmd'.msg = cmd.msg /\ cmd'.cert = cmd.cert /\ cmd'.key = cmd.key
    BY <1>0, <2>1 DEF CommandType
  <2>4. /\ \A i \in DOMAIN wire : wire[i].cert = cmd.cert /\ wire[i].key = cmd.key
        /\ \A i \in DOMAIN wire : wire[i].kind \in Before[cmd.msg] /\ wire[i].answered
    BY <2>1 DEF WireInv, Signing
  <2> DEFINE v == wire'
  <2>5. v = Append(wire, m)
    BY <2>1
  <2> HIDE DEF m, v
  <2>6. /\ v \in Seq(Message) /\ v # <<>> /\ v[Len(v)] = m
        /\ DOMAIN v = 1..(Len(wire) + 1) /\ v[Len(wire) + 1] = m
        /\ \A i \in DOMAIN wire : v[i] = wire[i]
    BY <2>1, <2>2, <2>5, SentWire
  <2>7. Len(v) = Len(wire) + 1 /\ DOMAIN wire = 1..Len(wire) /\ Len(wire) \in Nat
    BY <2>1, <2>6
  <2>8. \A i \in DOMAIN v : (v[i] = m /\ i = Len(v)) \/ (i \in DOMAIN wire /\ v[i] = wire[i])
    BY <2>6, <2>7
  <2>9. \A i \in DOMAIN v : v[i].cert = cmd.cert /\ v[i].key = cmd.key
    BY <2>2, <2>4, <2>8
  <2>10. /\ \A i \in DOMAIN v : v[i].kind \in Before[cmd.msg] \/ i = Len(v)
         /\ \A i \in DOMAIN v : i # Len(v) => v[i].answered
         /\ v[Len(v)].kind = cmd.msg /\ ~v[Len(v)].answered
    BY <2>2, <2>4, <2>6, <2>8
  <2>11. report'.stage = "none"
    BY <2>1 DEF WireInv
  <2>12. Truthful(report'.stage, report'.kind, v)
    BY <2>11, TruthfulEarly
  <2> QED
    BY <2>3, <2>6, <2>9, <2>10, <2>11, <2>12 DEF WireInv, OneIdentityPerCommand, Loading, Signing, v
<1>12. cmd.msg \in MessageKinds
  BY <1>0 DEF CommandType
<1>17. CASE RefuseMessage
  <2>1. /\ cmd.step = "send" /\ UNCHANGED wire /\ wire \in Seq(Message) /\ ~ReadyToSend
        /\ cmd.variant \in Variants /\ cmd.wcf \in Flags
    BY <1>0, <1>17 DEF RefuseMessage, WireInv, CommandType
  <2>2. AuthRequestReady(BuildHeader(cmd.variant, cmd.wcf), cmd.variant, cmd.wcf)
    BY <2>1, BuiltReady DEF CommandShape
  <2>3. cmd.msg = "verify"
    BY <2>1, <2>2 DEF ReadyToSend
  <2>4. End("verify_request_readiness", "client_configuration_error")
    BY <1>17, <2>3 DEF RefuseMessage
  <2>5. /\ wire # <<>> /\ \A i \in DOMAIN wire : wire[i].answered
        /\ \A i \in DOMAIN wire : wire[i].kind \in Before["verify"]
    BY <2>1, <2>3 DEF WireInv, Signing
  <2>6. Len(wire) \in DOMAIN wire
    BY <2>1, <2>5
  <2>7. Truthful("verify_request_readiness", "client_configuration_error", wire')
    BY <2>1, <2>5, <2>6, BeforeIs, TruthfulReadiness
  <2> QED
    BY <2>1, <2>4, <2>7, EndWire, EndIdle DEF WireInv, OneIdentityPerCommand
<1>18. CASE BodyUnread
  BY <1>12, <1>18, EndAnswered DEF BodyUnread
<1>13. ASSUME NEW e \in Failures, TransportFails(e) PROVE WireInv'
  <2> DEFINE s == TransportStage[cmd.msg]
             k == SendErrorKind(e, cmd.msg)
  <2>1. UNCHANGED wire /\ cmd.step \in Signing /\ End(s, k) /\ wire \in Seq(Message)
    BY <1>13 DEF TransportFails, Signing, WireInv
  <2>2. s \in StagesOf(cmd.msg) /\ k \notin AnswerKinds
    BY <1>12, StagesDiffer, ErrorsAreNoAnswers
  <2> HIDE DEF s, k
  <2>3. cmd.msg \notin Before[cmd.msg]
    BY <1>12, BeforeIs DEF MessageKinds
  <2>4. \A i \in DOMAIN wire : wire[i].answered <=> wire[i].kind # cmd.msg
    <3>1. CASE cmd.step = "send"
      BY <2>1, <2>3, <3>1 DEF WireInv
    <3>2. CASE cmd.step = "wait"
      <4>1. \A i \in DOMAIN wire : i # Len(wire) => wire[i].answered /\ wire[i].kind \in Before[cmd.msg]
        BY <2>1, <3>2 DEF WireInv
      <4>2. wire[Len(wire)].kind = cmd.msg /\ ~wire[Len(wire)].answered
        BY <3>2 DEF WireInv
      <4> QED
        BY <2>3, <4>1, <4>2
    <3> QED
      BY <2>1, <3>1, <3>2 DEF Signing
  <2>5. Truthful(s, k, wire')
    BY <1>12, <2>1, <2>2, <2>4, TruthfulUnanswered
  <2> QED
    BY <2>1, <2>5, EndWire, EndIdle DEF WireInv, OneIdentityPerCommand
<1>14. ASSUME NEW r \in Answers, HttpError(r) PROVE WireInv'
  <2>1. /\ TransportStage[cmd.msg] \in StagesOf(cmd.msg) /\ HttpResponseErrorKind(r) \in AnswerKinds
    BY <1>12, StagesDiffer DEF HttpResponseErrorKind, AnswerKinds
  <2> QED
    BY <1>12, <1>14, <2>1, EndAnswered DEF HttpError
<1>15. ASSUME NEW r \in Answers, NEW body \in Bodies, NEW token \in TokenForms, AuthAnswer(r, body, token)
       PROVE  WireInv'
  <2> DEFINE m == Head(MessagesOf(cmd.op))
  <2>1. CASE NextMessage(m, token) /\ UNCHANGED report /\ MessagesOf(cmd.op) # <<>>
    <3>1. m \in MessageKinds /\ m # "auth"
      BY <1>0, <2>1, FirstMessage DEF CommandType
    <3> HIDE DEF m
    <3> QED
      BY <1>0, <1>15, <2>1, <3>1, GoOnWire DEF AuthAnswer
  <2>2. CASE \/ End("auth_response_parse", "soap_fault") \/ End("token_extract", "token_missing")
             \/ End("auth_response_parse", "token_parse_failed") \/ End("none", "ok")
    <3>1. /\ {"auth_response_parse", "token_extract"} \subseteq StagesOf("auth")
          /\ {"soap_fault", "token_missing", "token_parse_failed"} \subseteq AnswerKinds
      BY StageSets DEF AnswerKinds
    <3> QED
      BY <1>12, <1>15, <2>2, <3>1, EndAnswered DEF AuthAnswer
  <2> QED
    BY <1>15, <2>1, <2>2 DEF AuthAnswer
<1>16. ASSUME NEW r \in Answers, NEW body \in Bodies, NEW accepted \in BOOLEAN, BusinessAnswer(r, body, accepted)
       PROVE  WireInv'
  <2>1. CASE NextMessage("verify", cmd.token) /\ UNCHANGED report /\ cmd.msg = "request"
    <3>1. "verify" \in MessageKinds
      BY DEF MessageKinds
    <3> QED
      BY <1>0, <1>16, <2>1, <3>1, GoOnWire DEF BusinessAnswer
  <2>2. CASE End(ParseStage[cmd.msg], ResponseErrorKind(r))
    <3>1. ParseStage[cmd.msg] \in StagesOf(cmd.msg) /\ ResponseErrorKind(r) \in AnswerKinds
      BY <1>12, StagesDiffer DEF ResponseErrorKind, AnswerKinds
    <3> QED
      BY <1>12, <1>16, <2>2, <3>1, EndAnswered DEF BusinessAnswer
  <2>3. CASE End("none", IF accepted THEN "ok" ELSE "not_accepted")
    BY <1>12, <1>16, <2>3, EndAnswered DEF BusinessAnswer
  <2> QED
    BY <1>16, <2>1, <2>2, <2>3 DEF BusinessAnswer
<1> QED
  BY <1>1, <1>2, <1>5, <1>6, <1>7, <1>8, <1>9, <1>10, <1>11, <1>13, <1>14, <1>15, <1>16,
     <1>17, <1>18 DEF ExchangeNext

LEMMA CommandsAlways == ExchangeSpec => []CommandInv
<1>1. ExchangeInit => CommandInv
  <2> SUFFICES ASSUME ExchangeInit PROVE CommandInv
    OBVIOUS
  <2>1. cmd \in CommandType /\ cmd.step = "idle"
    BY IdleCommandType DEF ExchangeInit
  <2>2. wire = <<>> /\ report.stage = "none" /\ <<>> \in Seq(Message)
    BY DEF ExchangeInit
  <2>3. Truthful(report.stage, report.kind, wire)
    BY <2>2, TruthfulEarly
  <2> QED
    BY <2>1, <2>2, <2>3 DEF CommandInv, CommandShape, WireInv, OneIdentityPerCommand, Loading, Signing
<1>2. SetupInv /\ CommandInv /\ [ExchangeNext]_lxVars => CommandInv'
  BY CommandShapeStep, WireStep DEF CommandInv, SetupInv, SetupShape
<1> QED
  BY <1>1, <1>2, SetupsAlways, PTL DEF ExchangeSpec

\* OneIdentityPerCommand: whatever setups replace while a command runs, everything it sends
\* is signed by one certificate and one key (_load_material keeps what it loaded).
THEOREM CommandsHaveOneIdentity == ExchangeSpec => []OneIdentityPerCommand
<1>1. CommandInv => OneIdentityPerCommand
  BY DEF CommandInv, WireInv
<1> QED
  BY <1>1, CommandsAlways, PTL

\* StageIsTruthful: the stage and the kind an operator is shown (sat_live_smoke.py, cli.py)
\* say how far the exchange came and whether SAT answered, for any failures of the transport.
THEOREM StagesAreTruthful == ExchangeSpec => []StageIsTruthful
<1>1. CommandInv => StageIsTruthful
  BY TruthfulStage DEF CommandInv, WireInv
<1> QED
  BY <1>1, CommandsAlways, PTL

-----------------------------------------------------------------------------
(* What a completed setup has installed. *)

\* Files f, profile p and phrase ph are those a setup was given.
Holds(f, p, ph, offer) ==
  /\ p = ProfileOf(offer) /\ ph = offer.phrase
  /\ offer.mode = "copied" => f["cert"] = offer.cert /\ f[KeySlot(offer.key)] = offer.key

\* An unencrypted PEM key: the one key that setup refuses.
PlainPem(offer) == offer.key \in PemSets \cap PlainSets

\* Unless something spoiled it, what was completed is in place, or will be after a rollback.
FitsInv ==
  /\ setup.step # "idle" => ~PlainPem(setup.offer)
  /\ completed # NoOffer => completed \in Offer /\ ~PlainPem(completed)
  /\ completed # NoOffer /\ setup.step = "idle" => Holds(final, profile, phrase, completed)
  /\ completed # NoOffer /\ setup.step # "idle" =>
       spoiled = {} /\ Holds(before.final, before.profile, before.phrase, completed)

\* Steps of a setup: it begins, goes on, or ends.
LEMMA SetupSteps ==
  ASSUME SetupShape, SetupNext
  PROVE  \/ /\ setup.step = "idle" /\ setup'.step # "idle" /\ UNCHANGED completed /\ spoiled' = {}
            /\ before' = [final |-> final, profile |-> profile, phrase |-> phrase]
            /\ ~PlainPem(setup'.offer)
         \/ /\ setup.step # "idle" /\ setup'.step # "idle" /\ setup'.offer = setup.offer
            /\ UNCHANGED before
            /\ completed' # NoOffer => completed' = completed /\ spoiled' = spoiled
         \/ /\ setup.step # "idle" /\ setup'.step = "idle" /\ setup'.last \in {"failed", "refused"}
            /\ UNCHANGED before
            /\ completed' # NoOffer => completed' = completed /\ spoiled' = spoiled
         \/ Finalize
<1> USE DEF SetupAt, Continue
<1>1. ASSUME NEW src \in Sources, StartSetup(src)
      PROVE  /\ setup.step = "idle" /\ setup'.step # "idle" /\ UNCHANGED completed /\ spoiled' = {}
             /\ before' = [final |-> final, profile |-> profile, phrase |-> phrase]
             /\ ~PlainPem(setup'.offer)
  <2>1. setup'.offer = src.offer /\ setup'.step \in {"clear", "write"}
    BY <1>1 DEF StartSetup, IdleSetup
  <2> QED
    BY <1>1, <2>1 DEF StartSetup, Accepts, PlainPem
<1>2. ASSUME NEW x \in Steps \ {"idle"}, setup' = [setup EXCEPT !.step = x]
      PROVE  setup'.step # "idle" /\ setup'.offer = setup.offer
  BY <1>2 DEF SetupShape, Setups
<1>3. CASE ClearIncoming \/ WriteProfile \/ StorePhrase \/ ReplaceProfile
  BY <1>2, <1>3 DEF ClearIncoming, WriteProfile, StorePhrase, ReplaceProfile, Steps, Smooth
<1>4. CASE StageFile \/ SavePhrase \/ BackUpFinal \/ InstallStaged \/ StartRestore
  <2>1. setup.step # "idle" /\ setup'.step # "idle" /\ setup'.offer = setup.offer
    <3>1. CASE StageFile
      <4>1. CASE setup.step = "copyCert"
        BY <3>1, <4>1 DEF StageFile, SetupShape, Setups
      <4>2. CASE setup.step = "copyKey"
        BY <3>1, <4>2 DEF StageFile, SetupShape, Setups
      <4> QED
        BY <3>1, <4>1, <4>2 DEF StageFile
    <3>2. CASE SavePhrase \/ StartRestore
      BY <3>2 DEF SavePhrase, StartRestore, SetupShape, Setups
    <3>3. CASE BackUpFinal
      BY <3>3 DEF BackUpFinal, SetupShape, Setups
    <3>4. CASE InstallStaged
      BY <3>4 DEF InstallStaged, SetupShape, Setups
    <3> QED
      BY <1>4, <3>1, <3>2, <3>3, <3>4
  <2> QED
    BY <1>4, <2>1 DEF StageFile, SavePhrase, BackUpFinal, InstallStaged, StartRestore, Smooth
<1>5. ASSUME NEW b \in BOOLEAN, EnterRollback(b) PROVE setup'.step # "idle" /\ setup'.offer = setup.offer
  BY <1>5 DEF EnterRollback, SetupShape, Setups
<1>6. CASE StepFails
  BY <1>5, <1>6 DEF StepFails, Faulty
<1>7. ASSUME NEW k \in Slots, UnlinkInstalled(k) \/ RestoreBackup(k) \/ RestoreFails(k)
      PROVE  /\ setup.step # "idle" /\ setup'.step # "idle" /\ setup'.offer = setup.offer
             /\ UNCHANGED before
             /\ completed' # NoOffer => completed' = completed /\ spoiled' = spoiled
  <2>1. setup.step # "idle" /\ setup'.step # "idle" /\ setup'.offer = setup.offer
    BY <1>7 DEF UnlinkInstalled, RestoreBackup, RestoreFails, Done, SetupShape, Setups
  <2> QED
    BY <1>7, <2>1 DEF UnlinkInstalled, RestoreBackup, RestoreFails, Smooth, Faulty, RollbackFault
<1>8. CASE DiscardIncoming
  <2>1. CASE EnterRollback(FALSE)
    BY <1>5, <1>8, <2>1 DEF DiscardIncoming, Smooth, Faulty
  <2>2. CASE \/ setup' = [setup EXCEPT !.step = "phrase", !.tempDir = FALSE, !.backups = {}, !.installed = {}]
             \/ setup' = [setup EXCEPT !.step = "phrase"]
    <3>1. setup'.step # "idle" /\ setup'.offer = setup.offer
      BY <2>2 DEF SetupShape, Setups
    <3> QED
      BY <1>8, <3>1 DEF DiscardIncoming, Smooth, Faulty
  <2> QED
    BY <1>8, <2>1, <2>2 DEF DiscardIncoming
<1>9. CASE ClearFails \/ StageFails \/ FingerprintFails \/ RestorePhrase \/ RestorePhraseFails
  <2>1. setup.step # "idle" /\ \E l \in {"failed", "refused"} : EndSetup(l)
    BY <1>9 DEF ClearFails, StageFails, FingerprintFails, RestorePhrase, RestorePhraseFails
  <2>2. setup'.step = "idle" /\ setup'.last \in {"failed", "refused"}
    BY <2>1, SetupEnds
  <2> QED
    BY <1>9, <2>1, <2>2 DEF ClearFails, StageFails, FingerprintFails, RestorePhrase, RestorePhraseFails,
       Smooth, Faulty, RollbackFault
<1>10. CASE Dies /\ setup.step # "idle"
  <2>1. setup'.step = "idle" /\ setup'.last = "failed"
    BY <1>10, SetupEnds DEF Dies
  <2> QED
    BY <1>10, <2>1 DEF Dies
<1>11. CASE SetupCrash \/ \E k \in Slots : CrashInRestore(k)
  BY <1>10, <1>11 DEF SetupCrash, CrashInRestore
<1> QED
  BY <1>1, <1>3, <1>4, <1>6, <1>7, <1>8, <1>9, <1>11 DEF SetupNext

LEMMA FitsStep ==
  ASSUME SetupInv, SetupInv', FitsInv, SetupNext
  PROVE  FitsInv'
<1>1. CASE /\ setup.step = "idle" /\ setup'.step # "idle" /\ UNCHANGED completed /\ spoiled' = {}
           /\ before' = [final |-> final, profile |-> profile, phrase |-> phrase]
           /\ ~PlainPem(setup'.offer)
  <2>1. before'.final = final /\ before'.profile = profile /\ before'.phrase = phrase
    BY <1>1
  <2>2. completed' # NoOffer => Holds(before'.final, before'.profile, before'.phrase, completed')
    BY <1>1, <2>1 DEF FitsInv
  <2> QED
    BY <1>1, <2>2 DEF FitsInv, PlainPem
<1>2. CASE /\ setup.step # "idle" /\ setup'.step # "idle" /\ setup'.offer = setup.offer
           /\ UNCHANGED before
           /\ completed' # NoOffer => completed' = completed /\ spoiled' = spoiled
  BY <1>2 DEF FitsInv, PlainPem
<1>3. CASE /\ setup.step # "idle" /\ setup'.step = "idle" /\ setup'.last \in {"failed", "refused"}
           /\ UNCHANGED before
           /\ completed' # NoOffer => completed' = completed /\ spoiled' = spoiled
  <2>1. CASE completed' # NoOffer
    <3>1. spoiled' = {} /\ completed' = completed
          /\ Holds(before.final, before.profile, before.phrase, completed)
      BY <1>3, <2>1 DEF FitsInv
    <3>2. before' = [final |-> final', profile |-> profile', phrase |-> phrase']
      BY <1>3, <3>1 DEF SetupInv, Ended, SetupAt
    <3>3. before.final = final' /\ before.profile = profile' /\ before.phrase = phrase'
      BY <1>3, <3>2
    <3>4. Holds(final', profile', phrase', completed')
      BY <3>1, <3>3
    <3> QED
      BY <1>3, <2>1, <3>1, <3>4 DEF FitsInv, PlainPem
  <2> QED
    BY <1>3, <2>1 DEF FitsInv
<1>4. CASE Finalize
  <2>1. /\ setup.step = "finalize" /\ EndSetup("done") /\ UNCHANGED <<final, profile, phrase>>
        /\ completed' = setup.offer
    BY <1>4 DEF Finalize, SetupAt
  <2>2. setup'.step = "idle"
    BY <2>1, SetupEnds
  <2>3. setup.offer \in Offer /\ ~PlainPem(setup.offer)
    BY <2>1 DEF SetupInv, SetupShape, FitsInv
  <2>4. Holds(final, profile, phrase, setup.offer)
    BY <2>1 DEF SetupInv, NewFiles, Holds
  <2> QED
    BY <2>1, <2>2, <2>3, <2>4 DEF FitsInv, Holds, PlainPem
<1> QED
  BY <1>1, <1>2, <1>3, <1>4, SetupSteps DEF SetupInv

\* What a command loads when nothing disturbs it is what the operator offered.
Loaded(c) ==
  /\ c.step \in {"cert", "key", "phrase", "parse"} => c.profile = profile
  /\ c.step \in {"key", "phrase", "parse"} \cup Signing => c.cert = completed.cert
  /\ c.step \in {"phrase", "parse"} \cup Signing => c.key = completed.key
  /\ c.step = "parse" => c.phrase = completed.phrase
  /\ c.step \in Signing => ~Unusable(completed)

LoadedInv ==
  /\ ~disturbed => setup.step = "idle"
  /\ completed # NoOffer /\ ~disturbed => Loaded(cmd)
  /\ InstalledProfileWorks

LEMMA FittingFiles ==
  ASSUME completed \in Offer, Holds(final, profile, phrase, completed)
  PROVE  /\ CertificateOf(profile) = completed.cert /\ PrivateKeyOf(profile) = completed.key
         /\ phrase = completed.phrase /\ completed.cert # "none" /\ completed.key # "none"
         /\ completed.phrase # "none"
<1>1. /\ profile.mode = completed.mode /\ profile.cert = completed.cert /\ profile.key = completed.key
      /\ completed.mode = "copied" =>
           final["cert"] = completed.cert /\ final[KeySlot(completed.key)] = completed.key
      /\ phrase = completed.phrase
  BY DEF Holds, ProfileOf
<1>2. completed.cert \in Pieces /\ completed.key \in Pieces /\ completed.phrase \in Sets
  BY DEF Offer
<1>3. "none" \notin Pieces /\ "none" \notin Sets
  BY DEF Pieces
<1> QED
  BY <1>1, <1>2, <1>3 DEF CertificateOf, PrivateKeyOf

\* A step that sends nothing and reports nothing that blames pieces which are usable.
LEMMA QuietStep ==
  ASSUME LoadedInv, UNCHANGED <<setup, profile, completed, wire, disturbed>>,
         UNCHANGED report \/ report'.stage \notin LocalStages \cup {"auth_request_readiness"}
           \/ (report'.stage \in LocalStages /\ (completed # NoOffer /\ ~disturbed => Unusable(completed))),
         completed # NoOffer /\ ~disturbed => Loaded(cmd')
  PROVE  LoadedInv'
<1>1. "auth_request_readiness" \notin LocalStages
  BY DEF LocalStages
<1>2. completed # NoOffer /\ ~disturbed => Loaded(cmd)'
  BY DEF Loaded, Unusable
<1>3. InstalledProfileWorks'
  BY <1>1 DEF LoadedInv, InstalledProfileWorks, Unusable
<1> QED
  BY <1>2, <1>3 DEF LoadedInv

\* A step after the material has been loaded.
LEMMA SigningStep ==
  ASSUME LoadedInv, CommandInv', UNCHANGED <<setup, profile, completed, disturbed>>,
         cmd.step \in Signing,
         \/ cmd'.step = "idle"
         \/ cmd'.step \in Signing /\ cmd'.cert = cmd.cert /\ cmd'.key = cmd.key,
         UNCHANGED report \/ report'.stage \notin LocalStages \cup {"auth_request_readiness"},
         \A i \in DOMAIN wire' : wire'[i].cert = cmd.cert /\ wire'[i].key = cmd.key
  PROVE  LoadedInv'
<1>1. completed # NoOffer /\ ~disturbed =>
        /\ cmd.cert = completed.cert /\ cmd.key = completed.key /\ ~Unusable(completed)
        /\ \A i \in DOMAIN wire' : wire'[i].cert = completed.cert /\ wire'[i].key = completed.key
  BY DEF LoadedInv, Loaded
<1>2. completed # NoOffer /\ ~disturbed => Loaded(cmd)'
  BY <1>1 DEF Loaded, Signing, Unusable
<1>3. InstalledProfileWorks'
  BY <1>1 DEF LoadedInv, InstalledProfileWorks, Unusable
<1> QED
  BY <1>2, <1>3 DEF LoadedInv

LEMMA RemoteStages ==
  /\ \A k \in MessageKinds : {TransportStage[k], ParseStage[k]} \cap (LocalStages \cup {"auth_request_readiness"}) = {}
  /\ {"none", "preflight", "verify_request_readiness", "token_extract", "auth_response_parse"}
        \cap (LocalStages \cup {"auth_request_readiness"}) = {}
BY StageNames DEF LocalStages, MessageKinds

\* An answer keeps the identity of what was sent.
LEMMA AnswerStep ==
  ASSUME CommandInv, CommandInv', LoadedInv, UNCHANGED setupVars, UNCHANGED disturbed, cmd.step = "wait",
         Answered \/ UNCHANGED wire,
         \/ cmd'.step = "idle"
         \/ cmd'.step = "send" /\ cmd'.cert = cmd.cert /\ cmd'.key = cmd.key,
         UNCHANGED report \/ report'.stage \notin LocalStages \cup {"auth_request_readiness"}
  PROVE  LoadedInv'
<1>1. \A i \in DOMAIN wire' : wire'[i].cert = cmd.cert /\ wire'[i].key = cmd.key
  <2>1. CASE Answered
    BY <2>1, AnswerWire DEF CommandInv
  <2>2. CASE UNCHANGED wire
    BY <2>2 DEF CommandInv, WireInv, Signing
  <2> QED
    BY <2>1, <2>2
<1> QED
  BY <1>1, SigningStep DEF Signing, setupVars, disk

LEMMA LoadedStep ==
  ASSUME SetupInv, FitsInv, CommandInv, CommandInv', LoadedInv, [ExchangeNext]_lxVars
  PROVE  LoadedInv'
<1> USE DEF At, Go
<1>0. cmd \in CommandType
  BY DEF CommandInv, CommandShape
<1>a. ASSUME completed # NoOffer, ~disturbed
      PROVE  /\ CertificateOf(profile) = completed.cert /\ PrivateKeyOf(profile) = completed.key
             /\ phrase = completed.phrase /\ completed.cert # "none" /\ completed.key # "none"
             /\ completed.phrase # "none" /\ ~PlainPem(completed) /\ Loaded(cmd)
  <2>1. Holds(final, profile, phrase, completed) /\ completed \in Offer /\ ~PlainPem(completed)
    BY <1>a DEF LoadedInv, FitsInv
  <2>2. Loaded(cmd)
    BY <1>a DEF LoadedInv
  <2> QED
    BY <2>1, <2>2, FittingFiles
<1>b. \A s, k : End(s, k) => cmd'.step = "idle" /\ report'.stage = s
  BY EndIdle
<1>c. ASSUME UNCHANGED setupVars PROVE UNCHANGED <<setup, profile, completed>>
  BY <1>c DEF setupVars, disk
<1>1. CASE UNCHANGED lxVars
  BY <1>1 DEF lxVars, setupVars, disk, exchangeVars, LoadedInv, Loaded, InstalledProfileWorks, Unusable
<1>2. CASE SetupStep
  BY <1>2 DEF SetupStep, LoadedInv, InstalledProfileWorks
<1>3. ASSUME NEW op \in Operations, NEW argsOk \in BOOLEAN, NEW endpointOk \in BOOLEAN,
             NEW options \in EnvelopeOptions(op), StartCommand(op, options, argsOk, endpointOk)
      PROVE  LoadedInv'
  <2>1. cmd'.step = "load" /\ wire' = <<>> /\ report'.stage = "none"
    BY <1>3 DEF StartCommand, IdleCommand
  <2>2. disturbed' = (setup.step # "idle") /\ UNCHANGED <<setup, profile, completed>>
    BY <1>3, <1>c DEF StartCommand, SetupAt
  <2>3. DOMAIN wire' = {}
    BY <2>1
  <2> QED
    BY <2>1, <2>2, <2>3, RemoteStages DEF LoadedInv, Loaded, InstalledProfileWorks, Signing
<1>d. ASSUME cmd'.step = "idle" PROVE Loaded(cmd')
  BY <1>d DEF Loaded, Signing
<1>4. CASE LoadProfile
  <2>1. cmd.step = "load" /\ UNCHANGED <<setup, profile, completed, wire, disturbed>>
    BY <1>4, <1>c DEF LoadProfile
  <2>2. CASE cmd' = [cmd EXCEPT !.step = "cert", !.profile = profile] /\ UNCHANGED report
    <3>1. cmd'.step = "cert" /\ cmd'.profile = profile
      BY <1>0, <2>2 DEF CommandType
    <3>2. Loaded(cmd')
      BY <3>1 DEF Loaded, Signing
    <3> QED
      BY <2>1, <2>2, <3>2, QuietStep
  <2>3. CASE End("preflight", "guard_failed")
    BY <1>b, <1>d, <2>1, <2>3, QuietStep, RemoteStages
  <2> QED
    BY <1>4, <2>2, <2>3 DEF LoadProfile
<1>5. CASE ReadCertificate
  <2>1. cmd.step = "cert" /\ UNCHANGED <<setup, profile, completed, wire, disturbed>>
    BY <1>5, <1>c DEF ReadCertificate
  <2>2. completed # NoOffer /\ ~disturbed =>
          cmd.profile = profile /\ CertificateOf(cmd.profile) = completed.cert /\ completed.cert # "none"
    BY <1>a, <2>1 DEF Loaded
  <2>3. CASE cmd' = [cmd EXCEPT !.step = "key", !.cert = CertificateOf(cmd.profile)] /\ UNCHANGED report
    <3>1. cmd'.step = "key" /\ cmd'.profile = cmd.profile /\ cmd'.cert = CertificateOf(cmd.profile)
      BY <1>0, <2>3 DEF CommandType
    <3>2. completed # NoOffer /\ ~disturbed => Loaded(cmd')
      BY <2>2, <3>1 DEF Loaded, Signing
    <3> QED
      BY <2>1, <2>3, <3>2, QuietStep
  <2>4. CASE End("credential_load", "credential_load_failed") /\ CertificateOf(cmd.profile) = "none"
    <3>1. cmd'.step = "idle" /\ report'.stage = "credential_load" /\ "credential_load" \in LocalStages
      BY <1>b, <2>4 DEF LocalStages
    <3> QED
      BY <1>d, <2>1, <2>2, <2>4, <3>1, QuietStep
  <2> QED
    BY <1>5, <2>3, <2>4 DEF ReadCertificate
<1>6. CASE ReadPrivateKey
  <2>1. cmd.step = "key" /\ UNCHANGED <<setup, profile, completed, wire, disturbed>>
    BY <1>6, <1>c DEF ReadPrivateKey
  <2>2. completed # NoOffer /\ ~disturbed =>
          /\ cmd.profile = profile /\ PrivateKeyOf(cmd.profile) = completed.key
          /\ cmd.cert = completed.cert /\ completed.key # "none"
    BY <1>a, <2>1 DEF Loaded
  <2>3. CASE cmd' = [cmd EXCEPT !.step = "phrase", !.key = PrivateKeyOf(cmd.profile)] /\ UNCHANGED report
    <3>1. cmd'.step = "phrase" /\ cmd'.profile = cmd.profile /\ cmd'.cert = cmd.cert
          /\ cmd'.key = PrivateKeyOf(cmd.profile)
      BY <1>0, <2>3 DEF CommandType
    <3>2. completed # NoOffer /\ ~disturbed => Loaded(cmd')
      BY <2>2, <3>1 DEF Loaded, Signing
    <3> QED
      BY <2>1, <2>3, <3>2, QuietStep
  <2>4. CASE End("credential_load", "credential_load_failed") /\ PrivateKeyOf(cmd.profile) = "none"
    <3>1. cmd'.step = "idle" /\ report'.stage = "credential_load" /\ "credential_load" \in LocalStages
      BY <1>b, <2>4 DEF LocalStages
    <3> QED
      BY <1>d, <2>1, <2>2, <2>4, <3>1, QuietStep
  <2> QED
    BY <1>6, <2>3, <2>4 DEF ReadPrivateKey
<1>7. CASE ResolvePhrase
  <2>1. cmd.step = "phrase" /\ UNCHANGED <<setup, profile, completed, wire, disturbed>>
    BY <1>7, <1>c DEF ResolvePhrase
  <2>2. completed # NoOffer /\ ~disturbed =>
          /\ cmd.profile = profile /\ cmd.cert = completed.cert /\ cmd.key = completed.key
          /\ phrase = completed.phrase /\ completed.phrase # "none"
    BY <1>a, <2>1 DEF Loaded
  <2>3. CASE cmd' = [cmd EXCEPT !.step = "parse", !.phrase = phrase] /\ UNCHANGED report
    <3>1. cmd'.step = "parse" /\ cmd'.profile = cmd.profile /\ cmd'.cert = cmd.cert
          /\ cmd'.key = cmd.key /\ cmd'.phrase = phrase
      BY <1>0, <2>3 DEF CommandType
    <3>2. completed # NoOffer /\ ~disturbed => Loaded(cmd')
      BY <2>2, <3>1 DEF Loaded, Signing
    <3> QED
      BY <2>1, <2>3, <3>2, QuietStep
  <2>4. CASE End("secret_resolve", "secret_unavailable") /\ phrase = "none"
    <3>1. cmd'.step = "idle" /\ report'.stage = "secret_resolve" /\ "secret_resolve" \in LocalStages
      BY <1>b, <2>4 DEF LocalStages
    <3> QED
      BY <1>d, <2>1, <2>2, <2>4, <3>1, QuietStep
  <2> QED
    BY <1>7, <2>3, <2>4 DEF ResolvePhrase
<1>8. CASE ReadFails
  <2>1. disturbed' /\ UNCHANGED setup /\ disturbed' = TRUE
    BY <1>8, <1>c DEF ReadFails
  <2> QED
    BY <2>1 DEF LoadedInv, InstalledProfileWorks
<1>9. CASE ParseMaterial
  <2>1. cmd.step = "parse" /\ UNCHANGED <<setup, profile, completed, wire, disturbed>>
    BY <1>9, <1>c DEF ParseMaterial
  <2>2. completed # NoOffer /\ ~disturbed =>
          /\ cmd.profile = profile /\ cmd.cert = completed.cert /\ cmd.key = completed.key
          /\ cmd.phrase = completed.phrase /\ ~PlainPem(completed)
    BY <1>a, <2>1 DEF Loaded
  <2>3. CASE /\ cmd' = [cmd EXCEPT !.step = "send", !.material = TRUE] /\ UNCHANGED report
             /\ cmd.cert # "torn" /\ KeyOpens(cmd.key, cmd.phrase)
    <3>1. cmd'.step = "send" /\ cmd'.cert = cmd.cert /\ cmd'.key = cmd.key
      BY <1>0, <2>3 DEF CommandType
    <3>2. completed # NoOffer /\ ~disturbed => ~Unusable(completed)
      BY <2>2, <2>3 DEF KeyOpens, Unusable
    <3>3. completed # NoOffer /\ ~disturbed => Loaded(cmd')
      BY <2>2, <3>1, <3>2 DEF Loaded
    <3> QED
      BY <2>1, <2>3, <3>3, QuietStep
  <2>4. CASE /\ cmd.cert = "torn" /\ End("certificate_parse", "certificate_parse_failed")
    <3>1. cmd'.step = "idle" /\ report'.stage = "certificate_parse" /\ "certificate_parse" \in LocalStages
      BY <1>b, <2>4 DEF LocalStages
    <3>2. completed # NoOffer /\ ~disturbed => Unusable(completed)
      BY <2>2, <2>4 DEF Unusable
    <3> QED
      BY <1>d, <2>1, <3>1, <3>2, QuietStep
  <2>5. CASE /\ ~KeyOpens(cmd.key, cmd.phrase) /\ End("private_key_load", "private_key_load_failed")
    <3>1. cmd'.step = "idle" /\ report'.stage = "private_key_load" /\ "private_key_load" \in LocalStages
      BY <1>b, <2>5 DEF LocalStages
    <3>2. completed # NoOffer /\ ~disturbed => Unusable(completed)
      BY <2>2, <2>5 DEF KeyOpens, Unusable, PlainPem
    <3> QED
      BY <1>d, <2>1, <3>1, <3>2, QuietStep
  <2> QED
    BY <1>9, <2>3, <2>4, <2>5 DEF ParseMaterial
<1>e. ASSUME cmd.step \in Signing
      PROVE  \A i \in DOMAIN wire : wire[i].cert = cmd.cert /\ wire[i].key = cmd.key
  BY <1>e DEF CommandInv, WireInv
<1>10. CASE SendMessage
  <2>1. cmd.step = "send" /\ UNCHANGED <<setup, profile, completed, disturbed, report>>
        /\ cmd' = [cmd EXCEPT !.step = "wait"]
    BY <1>10, <1>c DEF SendMessage
  <2>2. cmd'.step = "wait" /\ cmd'.cert = cmd.cert /\ cmd'.key = cmd.key
    BY <1>0, <2>1 DEF CommandType
  <2>3. \A i \in DOMAIN wire' : wire'[i].cert = cmd.cert /\ wire'[i].key = cmd.key
    BY <2>2 DEF CommandInv, WireInv, Signing
  <2> QED
    BY <2>1, <2>2, <2>3, SigningStep DEF Signing
<1>17. CASE RefuseMessage
  <2>1. /\ cmd.step = "send" /\ UNCHANGED <<setup, profile, completed, disturbed, wire>> /\ ~ReadyToSend
        /\ cmd.variant \in Variants /\ cmd.wcf \in Flags
    BY <1>0, <1>17, <1>c DEF RefuseMessage, CommandType
  <2>2. AuthRequestReady(BuildHeader(cmd.variant, cmd.wcf), cmd.variant, cmd.wcf)
    BY <2>1, BuiltReady DEF CommandInv, CommandShape
  <2>3. End("verify_request_readiness", "client_configuration_error")
    BY <1>17, <2>1, <2>2 DEF RefuseMessage, ReadyToSend
  <2> QED
    BY <1>b, <1>e, <2>1, <2>3, SigningStep, RemoteStages DEF Signing
<1>11. cmd.msg \in MessageKinds
  BY <1>0 DEF CommandType
<1>12. ASSUME NEW s, NEW k, End(s, k), cmd.step = "wait", UNCHANGED setupVars, UNCHANGED disturbed,
              Answered \/ UNCHANGED wire,
              s \notin LocalStages \cup {"auth_request_readiness"}
       PROVE  LoadedInv'
  BY <1>12, <1>b, AnswerStep
<1>13. ASSUME NEW e \in Failures, TransportFails(e) PROVE LoadedInv'
  <2>1. /\ cmd.step \in Signing /\ End(TransportStage[cmd.msg], SendErrorKind(e, cmd.msg))
        /\ UNCHANGED <<setup, profile, completed, disturbed, wire>>
    BY <1>13, <1>c DEF TransportFails, Signing
  <2> QED
    BY <1>11, <1>b, <1>e, <2>1, SigningStep, RemoteStages
<1>18. CASE BodyUnread
  BY <1>12, <1>18, RemoteStages DEF BodyUnread
<1>14. ASSUME NEW r \in Answers, HttpError(r) PROVE LoadedInv'
  BY <1>11, <1>12, <1>14, RemoteStages DEF HttpError
<1>15. ASSUME NEW r \in Answers, NEW body \in Bodies, NEW token \in TokenForms, AuthAnswer(r, body, token)
       PROVE  LoadedInv'
  <2>1. CASE NextMessage(Head(MessagesOf(cmd.op)), token) /\ UNCHANGED report
    <3>1. cmd'.step = "send" /\ cmd'.cert = cmd.cert /\ cmd'.key = cmd.key
      BY <1>0, <2>1 DEF NextMessage, CommandType
    <3> QED
      BY <1>15, <2>1, <3>1, AnswerStep DEF AuthAnswer
  <2>2. CASE \/ End("auth_response_parse", "soap_fault") \/ End("token_extract", "token_missing")
             \/ End("auth_response_parse", "token_parse_failed") \/ End("none", "ok")
    BY <1>12, <1>15, <2>2, RemoteStages DEF AuthAnswer
  <2> QED
    BY <1>15, <2>1, <2>2 DEF AuthAnswer
<1>16. ASSUME NEW r \in Answers, NEW body \in Bodies, NEW accepted \in BOOLEAN, BusinessAnswer(r, body, accepted)
       PROVE  LoadedInv'
  <2>1. CASE NextMessage("verify", cmd.token) /\ UNCHANGED report
    <3>1. cmd'.step = "send" /\ cmd'.cert = cmd.cert /\ cmd'.key = cmd.key
      BY <1>0, <2>1 DEF NextMessage, CommandType
    <3> QED
      BY <1>16, <2>1, <3>1, AnswerStep DEF BusinessAnswer
  <2>3. CASE End(ParseStage[cmd.msg], ResponseErrorKind(r))
    BY <1>11, <1>12, <1>16, <2>3, RemoteStages DEF BusinessAnswer
  <2>4. CASE End("none", IF accepted THEN "ok" ELSE "not_accepted")
    BY <1>12, <1>16, <2>4, RemoteStages DEF BusinessAnswer
  <2> QED
    BY <1>16, <2>1, <2>3, <2>4 DEF BusinessAnswer
<1> QED
  BY <1>1, <1>2, <1>3, <1>4, <1>5, <1>6, <1>7, <1>8, <1>9, <1>10, <1>13, <1>14, <1>15, <1>16,
     <1>17, <1>18 DEF ExchangeNext

\* InstalledProfileWorks: when no crash and no failed rollback spoiled what setup completed
\* and nothing disturbs the command, all its messages are signed with the certificate and the
\* key the operator offered (setup_service.py, sat_live_smoke.py), and it is refused for its
\* credentials only if these were unusable from the start.
THEOREM InstalledProfilesWork == ExchangeSpec => []InstalledProfileWorks
<1>1. ExchangeInit => FitsInv /\ LoadedInv
  <2> SUFFICES ASSUME ExchangeInit PROVE FitsInv /\ LoadedInv
    OBVIOUS
  <2>1. setup.step = "idle" /\ completed = NoOffer
    BY DEF ExchangeInit, SetupInit, IdleSetup
  <2> QED
    BY <2>1 DEF FitsInv, LoadedInv, InstalledProfileWorks
<1>2. SetupInv /\ SetupInv' /\ FitsInv /\ [ExchangeNext]_lxVars => FitsInv'
  <2> SUFFICES ASSUME SetupInv, SetupInv', FitsInv, [ExchangeNext]_lxVars PROVE FitsInv'
    OBVIOUS
  <2>1. CASE SetupNext
    BY <2>1, FitsStep
  <2>2. CASE UNCHANGED setupVars
    BY <2>2 DEF setupVars, disk, FitsInv, Holds, PlainPem
  <2> QED
    BY <2>1, <2>2 DEF ExchangeNext, lxVars, SetupStep, StartCommand, LoadProfile, ReadCertificate,
       ReadPrivateKey, ResolvePhrase, ReadFails, ParseMaterial, RefuseMessage, SendMessage,
       TransportFails, BodyUnread, HttpError, AuthAnswer, BusinessAnswer
<1>3. SetupInv /\ FitsInv /\ CommandInv /\ CommandInv' /\ LoadedInv /\ [ExchangeNext]_lxVars => LoadedInv'
  BY LoadedStep
<1>4. LoadedInv => InstalledProfileWorks
  BY DEF LoadedInv
<1> QED
  BY <1>1, <1>2, <1>3, <1>4, SetupsAlways, CommandsAlways, PTL DEF ExchangeSpec
=============================================================================

-------------------------- MODULE CredentialSetup ---------------------------
(***************************************************************************)
(* `cfdi-vault setup`: the credential files of a folder outside the        *)
(* repository are copied into the AppData profile, the private-key phrase  *)
(* goes to the secret store and profile.json is replaced, as one           *)
(* transaction made of file operations (setup_service.py, setup_intake.py, *)
(* setup_core.py, windows_secrets.py).  New files are staged in            *)
(* credentials/.incoming, replaced ones are moved there as .bak; a failed  *)
(* step rolls everything back; a crash (or Ctrl-C, which `except           *)
(* Exception` does not catch) can come between any two operations.         *)
(* Operators run one setup at a time.                                      *)
(***************************************************************************)
EXTENDS Integers, FiniteSets

CONSTANTS
  Sets,        \* e.firma sets: a certificate, its private key and its phrase
  PemSets,     \* the sets whose key file is a .pem (the others are .key)
  PlainSets,   \* the sets whose key file is not encrypted
  Sources,     \* folders an operator runs setup on, see Source
  MaxSetups,   \* bound on the number of setups
  MaxFaults,   \* bound on failing operations (OSError, provider error)
  MaxCrashes   \* bound on crashes

Modes == {"copied", "referenced"}      \* CredentialMode

\* A certificate or key file is that of a set, or "torn": incomplete, or no certificate (key).
Pieces == Sets \cup {"torn"}

\* What setup is given: a certificate, a key and a phrase, of any sets.
Offer == [mode : Modes, cert : Pieces, key : Pieces, phrase : Sets]

\* What guard_credential_intake, discover_credentials and run_setup look at besides: CI and
\* credential variables in the environment, location, candidates, and whether a phrase
\* was typed.
Source == [offer : Offer, ci : BOOLEAN, direct : BOOLEAN, inRepo : BOOLEAN,
           certs : Nat, keys : Nat, empty : BOOLEAN, typed : BOOLEAN]

ASSUME SetupAssumption ==
  /\ PemSets \subseteq Sets /\ PlainSets \subseteq Sets
  /\ {"none", "torn"} \cap Sets = {}
  /\ Sources \subseteq Source
  /\ MaxSetups \in Nat /\ MaxFaults \in Nat /\ MaxCrashes \in Nat

\* The file names of a profile: certificate.cer, private-key.key, private-key.pem.
Slots == {"cert", "key", "pem"}
KeySlot(s) == IF s \in PemSets THEN "pem" ELSE "key"

Contents == Pieces \cup {"none"}
NoFiles == [k \in Slots |-> "none"]
Phrases == Sets \cup {"none"}
NoProfile == [mode |-> "none", cert |-> "none", key |-> "none"]
Profiles == [mode : Modes, cert : Pieces, key : Pieces] \cup {NoProfile}
NoOffer == [mode |-> "copied", cert |-> "none", key |-> "none", phrase |-> "none"]

VARIABLES
  final,      \* [Slots -> Contents], the files in credentials/
  staged,     \* [Slots -> Contents], the new files in credentials/.incoming
  backup,     \* [Slots -> Contents], the .bak files in credentials/.incoming
  profile,    \* profile.json: where the files are, and the fingerprint of the certificate
  phrase,     \* the entry of the profile in the secret store
  setup,      \* the setup in progress, see Setups
  setups, faults, crashes,
  before,     \* history: files, profile and phrase when the latest setup began
  spoiled,    \* history: what disturbed the latest setup: "crash", "rollback"
  completed   \* history: what the latest setup that succeeded was given, unless a later
              \* one has been disturbed

disk == <<final, staged, backup, profile, phrase>>
setupVars == <<disk, setup, setups, faults, crashes, before, spoiled, completed>>

Steps == {"idle", "clear", "copyCert", "copyKey", "write", "save", "store", "back", "install",
          "profile", "finalize", "unlink", "restore", "phrase"}

\* offer is what the latest setup was given; slot the file commit() is at; loaded and saved
\* are phrase_backup_loaded and phrase_backup; tempDir, backups and installed the fields
\* of PendingCredentialImport; todo and allRestored the loops of rollback(); inner says
\* that commit() called it; last how the setup ended.
Setups == [step : Steps, offer : Offer \cup {NoOffer}, slot : Slots,
           loaded : BOOLEAN, saved : Phrases, tempDir : BOOLEAN,
           backups : SUBSET Slots, installed : SUBSET Slots,
           todo : SUBSET Slots, allRestored : BOOLEAN, inner : BOOLEAN,
           last : {"none", "done", "failed", "refused"}]

IdleSetup(offer, last) ==
  [step |-> "idle", offer |-> offer, slot |-> "cert", loaded |-> FALSE, saved |-> "none",
   tempDir |-> FALSE, backups |-> {}, installed |-> {}, todo |-> {}, allRestored |-> TRUE,
   inner |-> FALSE, last |-> last]

SetupInit ==
  /\ final = NoFiles /\ staged = NoFiles /\ backup = NoFiles
  /\ profile = NoProfile /\ phrase = "none"
  /\ setup = IdleSetup(NoOffer, "none")
  /\ setups = 0 /\ faults = 0 /\ crashes = 0
  /\ before = [final |-> final, profile |-> profile, phrase |-> phrase]
  /\ spoiled = {} /\ completed = NoOffer

SetupAt(step) == setup.step = step
Continue(step) == setup' = [setup EXCEPT !.step = step]
EndSetup(last) == setup' = IdleSetup(setup.offer, last)
Fault == faults < MaxFaults /\ faults' = faults + 1
Smooth == UNCHANGED <<setups, faults, crashes, before, spoiled, completed>>
Faulty == Fault /\ UNCHANGED <<setups, crashes, before, spoiled, completed>>

\* rmtree of .incoming; when it is cut off, some of the files are left.
RemoveIncoming == staged' = NoFiles /\ backup' = NoFiles
CutRemoval ==
  \E k, l \in SUBSET Slots :
    /\ staged' = [s \in Slots |-> IF s \in k THEN "none" ELSE staged[s]]
    /\ backup' = [s \in Slots |-> IF s \in l THEN "none" ELSE backup[s]]
-----------------------------------------------------------------------------
\* Mutant: an unencrypted PEM key is taken.
AcceptsPlainPem(src) ==
  ~src.ci /\ ~src.direct /\ ~src.inRepo /\ src.certs = 1 /\ src.keys = 1 /\ ~src.empty /\ src.typed

\* guard_credential_intake, discover_credentials, _guard_selected_paths and the test of
\* the phrase.  Only a .pem key is looked into, for missing encryption; nothing tries the
\* phrase on the key, reads the certificate or compares the two.
Accepts(src) ==
  /\ ~src.ci /\ ~src.direct /\ ~src.inRepo
  /\ src.certs = 1 /\ src.keys = 1 /\ ~src.empty
  /\ src.typed
  /\ ~(src.offer.key \in PemSets /\ src.offer.key \in PlainSets)

\* run_setup up to stage_credentials_for_appdata.  References to files outside need
\* no staging, and commit(), finalize() and rollback() have nothing to do for them.
StartSetup(src) ==
  /\ SetupAt("idle")
  /\ setups < MaxSetups
  /\ Accepts(src)
  /\ setups' = setups + 1
  /\ setup' = [IdleSetup(src.offer, "none") EXCEPT
       !.step = IF src.offer.mode = "copied" THEN "clear" ELSE "write"]
  /\ before' = [final |-> final, profile |-> profile, phrase |-> phrase]
  /\ spoiled' = {}
  /\ UNCHANGED <<disk, faults, crashes, completed>>

\* A leftover .incoming is deleted, with whatever an earlier setup left in it.
ClearIncoming ==
  /\ SetupAt("clear")
  /\ RemoveIncoming
  /\ Continue("copyCert")
  /\ Smooth
  /\ UNCHANGED <<final, profile, phrase>>

\* rmtree gives up in the middle; run_setup has not entered its try block yet.
ClearFails ==
  /\ SetupAt("clear")
  /\ CutRemoval
  /\ EndSetup("refused")
  /\ Faulty
  /\ UNCHANGED <<final, profile, phrase>>

CopySlot == IF SetupAt("copyCert") THEN "cert" ELSE KeySlot(setup.offer.key)

\* shutil.copy2 of one source file into .incoming.
StageFile ==
  /\ setup.step \in {"copyCert", "copyKey"}
  /\ staged' = [staged EXCEPT ![CopySlot] = IF SetupAt("copyCert") THEN setup.offer.cert
                                             ELSE setup.offer.key]
  /\ IF SetupAt("copyCert") THEN Continue("copyKey")
     ELSE setup' = [setup EXCEPT !.step = "write", !.tempDir = TRUE]
  /\ Smooth
  /\ UNCHANGED <<final, backup, profile, phrase>>

\* The copy fails; stage_credentials_for_appdata deletes .incoming, or what rmtree manages
\* to delete of it, before it gives up.
StageFails ==
  /\ setup.step \in {"copyCert", "copyKey"}
  /\ CutRemoval
  /\ EndSetup("refused")
  /\ Faulty
  /\ UNCHANGED <<final, profile, phrase>>

\* The certificate cannot be read for its fingerprint: this comes before the try block,
\* so .incoming stays.
FingerprintFails ==
  /\ SetupAt("write")
  /\ EndSetup("refused")
  /\ Faulty
  /\ UNCHANGED disk

\* write_profile to profile.json.tmp, which nobody else reads.
WriteProfile ==
  /\ SetupAt("write")
  /\ Continue("save")
  /\ Smooth
  /\ UNCHANGED disk

\* _backup_phrase_for_rollback
SavePhrase ==
  /\ SetupAt("save")
  /\ setup' = [setup EXCEPT !.step = "store", !.saved = phrase, !.loaded = TRUE]
  /\ Smooth
  /\ UNCHANGED disk

\* WindowsCredentialManagerSecretProvider.store replaces the entry of the profile with
\* what was typed.
StorePhrase ==
  /\ SetupAt("store")
  /\ phrase' = setup.offer.phrase
  /\ Continue(IF setup.tempDir THEN "back" ELSE "profile")
  /\ Smooth
  /\ UNCHANGED <<final, staged, backup, profile>>

\* Mutant: the file that is replaced is deleted.
DropFinal ==
  /\ SetupAt("back")
  /\ final' = [final EXCEPT ![setup.slot] = "none"]
  /\ Continue("install")
  /\ Smooth
  /\ UNCHANGED <<staged, backup, profile, phrase>>

\* commit(): the file of this name, if there is one, becomes the backup ...
BackUpFinal ==
  /\ SetupAt("back")
  /\ IF final[setup.slot] = "none" THEN UNCHANGED <<final, backup>> /\ Continue("install")
     ELSE /\ backup' = [backup EXCEPT ![setup.slot] = final[setup.slot]]
          /\ final' = [final EXCEPT ![setup.slot] = "none"]
          /\ setup' = [setup EXCEPT !.step = "install", !.backups = @ \cup {setup.slot}]
  /\ Smooth
  /\ UNCHANGED <<staged, profile, phrase>>

\* ... and the staged one takes its place; first the certificate, then the key.
InstallStaged ==
  /\ SetupAt("install")
  /\ final' = [final EXCEPT ![setup.slot] = staged[setup.slot]]
  /\ staged' = [staged EXCEPT ![setup.slot] = "none"]
  /\ setup' = [setup EXCEPT !.installed = @ \cup {setup.slot},
                            !.step = IF setup.slot = "cert" THEN "back" ELSE "profile",
                            !.slot = KeySlot(setup.offer.key)]
  /\ Smooth
  /\ UNCHANGED <<backup, profile, phrase>>

ProfileOf(offer) == [mode |-> offer.mode, cert |-> offer.cert, key |-> offer.key]

\* os.replace(profile.json.tmp, profile.json)
ReplaceProfile ==
  /\ SetupAt("profile")
  /\ profile' = ProfileOf(setup.offer)
  /\ Continue("finalize")
  /\ Smooth
  /\ UNCHANGED <<final, staged, backup, phrase>>

\* finalize(): the backups go one by one; rmtree ignores those it cannot delete.
Finalize ==
  /\ SetupAt("finalize")
  /\ IF setup.tempDir THEN \/ RemoveIncoming /\ UNCHANGED faults
                           \/ CutRemoval /\ Fault
                      ELSE UNCHANGED <<staged, backup, faults>>
  /\ EndSetup("done")
  /\ completed' = setup.offer
  /\ UNCHANGED <<final, profile, phrase, setups, crashes, before, spoiled>>

-----------------------------------------------------------------------------
\* Rollback.

\* Entry into rollback(), which returns at once when there is no .incoming.
EnterRollback(inner) ==
  setup' = IF setup.tempDir
           THEN [setup EXCEPT !.step = "unlink", !.todo = setup.installed,
                              !.allRestored = TRUE, !.inner = inner]
           ELSE [setup EXCEPT !.step = "phrase"]

\* An operation of the try block fails; a failing installation rolls back twice, once
\* in commit() and once in run_setup.
StepFails ==
  /\ setup.step \in {"write", "save", "store", "back", "install", "profile"}
  /\ EnterRollback(SetupAt("install"))
  /\ Faulty
  /\ UNCHANGED disk

RollbackFault ==
  /\ Fault
  /\ spoiled' = spoiled \cup {"rollback"} /\ completed' = NoOffer
  /\ UNCHANGED <<setups, crashes, before>>

Done(k) == [setup EXCEPT !.todo = @ \ {k}]

\* Files that were installed are deleted; a failure is ignored.
UnlinkInstalled(k) ==
  /\ SetupAt("unlink")
  /\ k \in setup.todo
  /\ setup' = Done(k)
  /\ \/ final' = [final EXCEPT ![k] = "none"] /\ Smooth
     \/ final[k] # "none" /\ UNCHANGED final /\ RollbackFault
  /\ UNCHANGED <<staged, backup, profile, phrase>>

StartRestore ==
  /\ SetupAt("unlink")
  /\ setup.todo = {}
  /\ setup' = [setup EXCEPT !.step = "restore", !.todo = setup.backups]
  /\ Smooth
  /\ UNCHANGED disk

\* Backups are moved back, the certificate first; one that is gone is passed over.
RestoreBackup(k) ==
  /\ SetupAt("restore")
  /\ k \in setup.todo
  /\ k = "cert" \/ "cert" \notin setup.todo
  /\ IF backup[k] = "none" THEN UNCHANGED <<final, backup>>
     ELSE final' = [final EXCEPT ![k] = backup[k]] /\ backup' = [backup EXCEPT ![k] = "none"]
  /\ setup' = Done(k)
  /\ Smooth
  /\ UNCHANGED <<staged, profile, phrase>>

\* os.replace fails: copy2 and unlink restore the file after all, or one of them fails
\* too and the backup stays where it is, beside a copy that may be incomplete.
RestoreFails(k) ==
  /\ SetupAt("restore")
  /\ k \in setup.todo
  /\ k = "cert" \/ "cert" \notin setup.todo
  /\ backup[k] # "none"
  /\ \/ /\ final' = [final EXCEPT ![k] = backup[k]]
        /\ backup' = [backup EXCEPT ![k] = "none"]
        /\ setup' = Done(k)
        /\ Faulty
     \/ /\ \E c \in {final[k], "torn", backup[k]} : final' = [final EXCEPT ![k] = c]
        /\ setup' = [Done(k) EXCEPT !.allRestored = FALSE]
        /\ UNCHANGED backup
        /\ RollbackFault
  /\ UNCHANGED <<staged, profile, phrase>>

\* .incoming is given up only when everything was restored; rmtree ignores errors.
DiscardIncoming ==
  /\ SetupAt("restore")
  /\ setup.todo = {}
  /\ IF setup.allRestored
     THEN /\ \/ RemoveIncoming /\ Smooth
             \/ CutRemoval /\ Faulty
          /\ setup' = [setup EXCEPT !.step = "phrase", !.tempDir = FALSE, !.backups = {},
                                    !.installed = {}]
     ELSE /\ UNCHANGED <<staged, backup>> /\ Smooth
          /\ IF setup.inner THEN EnterRollback(FALSE) ELSE Continue("phrase")
  /\ UNCHANGED <<final, profile, phrase>>

\* Mutant: the phrase of the failed setup stays.
PhraseKept ==
  /\ SetupAt("phrase")
  /\ EndSetup("failed")
  /\ Smooth
  /\ UNCHANGED disk

\* _restore_phrase_after_failure; the temporary profile is deleted with it.
RestorePhrase ==
  /\ SetupAt("phrase")
  /\ phrase' = IF setup.loaded THEN setup.saved ELSE phrase
  /\ EndSetup("failed")
  /\ Smooth
  /\ UNCHANGED <<final, staged, backup, profile>>

RestorePhraseFails ==
  /\ SetupAt("phrase")
  /\ setup.loaded
  /\ EndSetup("failed")
  /\ RollbackFault
  /\ UNCHANGED disk

-----------------------------------------------------------------------------
\* The process dies ...
Dies ==
  /\ crashes < MaxCrashes
  /\ crashes' = crashes + 1
  /\ EndSetup("failed")
  /\ spoiled' = spoiled \cup {"crash"} /\ completed' = NoOffer
  /\ UNCHANGED <<profile, phrase, setups, before>>

\* ... between two steps, or inside one: a copy in progress leaves an incomplete file behind,
\* an rmtree in progress whatever it has not deleted yet.
SetupCrash ==
  /\ ~SetupAt("idle")
  /\ Dies
  /\ \/ UNCHANGED <<staged, backup>>
     \/ /\ setup.step \in {"copyCert", "copyKey"}
        /\ staged' = [staged EXCEPT ![CopySlot] = "torn"]
        /\ UNCHANGED backup
     \/ /\ \/ setup.step \in {"clear", "copyCert", "copyKey"}
           \/ SetupAt("finalize") /\ setup.tempDir
           \/ SetupAt("restore") /\ setup.todo = {} /\ setup.allRestored
        /\ CutRemoval
  /\ UNCHANGED <<final, faults>>

\* ... while copy2 restores what os.replace did not.
CrashInRestore(k) ==
  /\ SetupAt("restore")
  /\ k \in setup.todo
  /\ k = "cert" \/ "cert" \notin setup.todo
  /\ backup[k] # "none"
  /\ Fault /\ Dies
  /\ final' = [final EXCEPT ![k] = "torn"]
  /\ UNCHANGED <<staged, backup>>

SetupNext ==
  \/ \E src \in Sources : StartSetup(src)
  \/ ClearIncoming \/ ClearFails \/ StageFile \/ StageFails \/ FingerprintFails
  \/ WriteProfile \/ SavePhrase \/ StorePhrase
  \/ BackUpFinal \/ InstallStaged \/ ReplaceProfile \/ Finalize
  \/ StepFails
  \/ \E k \in Slots : UnlinkInstalled(k) \/ RestoreBackup(k) \/ RestoreFails(k) \/ CrashInRestore(k)
  \/ StartRestore \/ DiscardIncoming \/ RestorePhrase \/ RestorePhraseFails
  \/ SetupCrash

-----------------------------------------------------------------------------
\* Readers of the profile.

\* The files profile.json refers to: in credentials/, or where the operator keeps them.
CertificateOf(p) == IF p.mode = "copied" THEN final["cert"] ELSE p.cert
PrivateKeyOf(p) == IF p.mode = "copied" THEN final[KeySlot(p.key)] ELSE p.key

\* inspect_profile: `ready` means that everything exists.
InspectReady ==
  /\ profile # NoProfile
  /\ CertificateOf(profile) # "none" /\ PrivateKeyOf(profile) # "none" /\ phrase # "none"

-----------------------------------------------------------------------------
\* Everything a setup was given is in place.
Installed(offer) ==
  /\ profile = ProfileOf(offer)
  /\ CertificateOf(profile) = offer.cert /\ PrivateKeyOf(profile) = offer.key
  /\ phrase = offer.phrase

\* A setup is all or nothing: once it has ended without a crash and without a failure
\* inside its own rollback, either everything it was given is in place, or every file, the
\* phrase and the profile are what they were ("rollback-safe profile creation",
\* setup_service.py; test_rerun_preserves_existing_profile_files_and_phrase_on_late_failures).
SetupIsAtomic ==
  SetupAt("idle") /\ spoiled = {} =>
    CASE setup.last = "done" -> Installed(setup.offer)
      [] setup.last \in {"failed", "refused"} ->
           before = [final |-> final, profile |-> profile, phrase |-> phrase]
      [] OTHER -> TRUE

\* A file that was there still exists, in its place or as a backup.
Survives(k) == before.final[k] # "none" => before.final[k] \in {final[k], backup[k]}

\* Wherever a setup is cut off by a crash or a failing step, and while it runs, the
\* files it replaces still exist (commit() moves, it never deletes), until the new ones, the
\* phrase and the profile are all in place; as long as no operation of the rollback itself
\* has failed.
OldFilesSurvive ==
  "rollback" \notin spoiled => (\A k \in Slots : Survives(k)) \/ Installed(setup.offer)

\* rollback() restores "replaced credentials when possible" (its docstring): whatever
\* fails, the replaced files exist in their place or as backups until the setup is complete.
RollbackKeepsOld == (\A k \in Slots : Survives(k)) \/ Installed(setup.offer)
=============================================================================

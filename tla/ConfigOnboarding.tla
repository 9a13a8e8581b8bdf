-------------------------- MODULE ConfigOnboarding --------------------------
(***************************************************************************)
(* `cfdi-vault onboard` and the profile configuration it keeps             *)
(* (onboarding.py, config.py): a request becomes a profile document, the   *)
(* JSON file is read, the profile is added to it or replaces the one of    *)
(* its id, the whole document is validated and the file is rewritten, by   *)
(* truncating it first and without a lock.  `config validate` reads the    *)
(* same file.  Commands may overlap and may die in the middle.             *)
(***************************************************************************)
EXTENDS Integers, Sequences, SequencesExt, FiniteSets

CONSTANTS
  Onboarders,      \* onboarding commands that may run at the same time
  Requests,        \* what operators ask for, see IsRequest
  HandWritten,     \* documents an operator may have written before
  ValidIds,        \* profile ids of the form PROFILE_ID_PATTERN
  MaxOnboardings,  \* bound on commands
  MaxTears         \* bound on crashes

\* A missing JSON value (None), where an integer or a date is expected.
Absent == -99

\* Texts by what the patterns of config.py make of them; a reference may also name a
\* scheme that is not allowed or a credential file.
TextForms == {"ok", "blank", "odd", "material"}
RefForms == {"ok", "blank", "scheme", "file"}
FlagForms == {"true", "false", "other"}

\* What OnboardingRequest holds: version tells requests of one id apart; the credential
\* files look right or not, the storage root can be written or not.
IsRequest(r) ==
  /\ DOMAIN r = {"id", "version", "rfc", "files", "phrase", "storage", "mode", "start", "end",
                 "schedule", "interval", "dailyAt", "concurrency", "prefix", "replace"}
  /\ r.rfc \in TextForms /\ r.mode \in {"issued", "received", "both"}
  /\ r.schedule \in {"disabled", "interval", "daily"} /\ r.prefix \in RefForms
  /\ r.start \in Int /\ r.end \in Int /\ r.interval \in Int /\ r.concurrency \in Int

ASSUME ConfigAssumption ==
  /\ \A r \in Requests : IsRequest(r)
  /\ \A d \in HandWritten : DOMAIN d = {"version", "profiles", "unknown"}
                               /\ d.profiles \in Seq(ToSet(d.profiles))
  /\ MaxOnboardings \in Nat /\ MaxTears \in Nat

VARIABLES
  config,        \* the file: [state : {"absent", "torn", "json"}, doc]
  onboarding,    \* [Onboarders -> progress: step, request, the new document, and whether
                 \*  another command wrote since this one opened the file]
  onboardings, tears,
  onboarded,     \* history: [profile id -> version the latest success reported, or Absent]
  original,      \* history: the document an operator wrote, as it was at the start
  overlapped     \* history: two onboardings were under way at the same time

configVars == <<config, onboarding, onboardings, tears, onboarded, original, overlapped>>

EmptyDoc == [version |-> 1, profiles |-> <<>>, unknown |-> FALSE]
NoConfig == [state |-> "absent", doc |-> EmptyDoc]
Free(p) == onboarding[p].step = "idle"
IdleOnboarding == [step |-> "idle", request |-> CHOOSE r \in Requests : TRUE, doc |-> EmptyDoc,
                   beneath |-> FALSE]
Ids == ValidIds \cup {r.id : r \in Requests}

-----------------------------------------------------------------------------
\* config.py: the schema.  Every function adds its complaints to one list, and any
\* complaint rejects the document.

\* _required_string with the pattern that follows it; _find_sensitive_string_value.
TextOK(t) == t = "ok"
\* _parse_positive_int
PositiveInt(n, required) == IF n = Absent THEN ~required ELSE n >= 1
\* _parse_download
DownloadOK(d) ==
  /\ {d.issued, d.received, d.metadataFirst} \subseteq {"true", "false"}
  /\ "true" \in {d.issued, d.received}
\* _parse_initial_range
RangeOK(r) == r.start # Absent /\ (r.end # Absent => r.end >= r.start)
\* _parse_schedule: an enabled schedule says when.
ScheduleOK(s) ==
  /\ s.enabled \in {"true", "false"}
  /\ PositiveInt(s.interval, FALSE) /\ s.dailyAt \in {"ok", "none"} /\ TextOK(s.timezone)
  /\ s.enabled = "true" => s.interval # Absent \/ s.dailyAt # "none"
\* _required_reference, for the three references of _parse_credential_refs.
ReferenceOK(ref) == ref = "ok"

\* _parse_profile: one of initialRange and lookbackDays, at most ten workers.
ProfileOK(p) ==
  /\ p.id \in ValidIds /\ TextOK(p.rfc) /\ TextOK(p.storageRoot) /\ TextOK(p.fingerprint)
  /\ DownloadOK(p.download)
  /\ p.range.given => RangeOK(p.range)
  /\ PositiveInt(p.lookback, FALSE)
  /\ p.range.given <=> p.lookback = Absent
  /\ PositiveInt(p.concurrency, TRUE) /\ p.concurrency <= 10
  /\ ScheduleOK(p.schedule)
  /\ \A ref \in p.refs : ReferenceOK(ref)
  /\ ~p.unknown

\* validate_config; unknown stands for a key outside the schema, a raw credential field
\* among them (_reject_unknown_keys, _find_raw_credential_fields).
ValidConfig(doc) ==
  /\ doc.version = 1 /\ ~doc.unknown
  /\ doc.profiles # <<>>
  /\ \A i \in DOMAIN doc.profiles : ProfileOK(doc.profiles[i])
  /\ IsInjective([i \in DOMAIN doc.profiles |-> doc.profiles[i].id])

\* load_config
Loads(file) == file.state = "json" /\ ValidConfig(file.doc)

-----------------------------------------------------------------------------
\* onboarding.py: from a request to a profile document.

\* _initial_range_document and _schedule_document refuse what they cannot express.
CanBuild(r) ==
  /\ r.end = Absent \/ r.end >= r.start
  /\ r.schedule = "interval" => r.interval # Absent
  /\ r.schedule = "daily" => r.dailyAt # "none"

\* build_profile_document
BuildProfile(r) ==
  [id |-> r.id, rfc |-> r.rfc, storageRoot |-> "ok", fingerprint |-> "ok", version |-> r.version,
   download |-> [issued |-> IF r.mode \in {"issued", "both"} THEN "true" ELSE "false",
                 received |-> IF r.mode \in {"received", "both"} THEN "true" ELSE "false",
                 metadataFirst |-> "true"],
   range |-> [given |-> TRUE, start |-> r.start, end |-> r.end], lookback |-> Absent,
   concurrency |-> r.concurrency,
   schedule |-> [enabled |-> IF r.schedule = "disabled" THEN "false" ELSE "true",
                 interval |-> IF r.schedule = "interval" THEN r.interval ELSE Absent,
                 dailyAt |-> IF r.schedule = "daily" THEN r.dailyAt ELSE "none",
                 timezone |-> "ok"],
   refs |-> {r.prefix}, unknown |-> FALSE]

\* Mutant: the first profile is replaced, whatever its id.
ReplaceFirst(doc, profile) ==
  [doc EXCEPT !.profiles = IF doc.profiles = <<>> THEN <<profile>> ELSE [@ EXCEPT ![1] = profile]]

\* write_profile_config: the first profile of this id is replaced, else it is appended.
PutProfile(doc, profile) ==
  LET at == SelectInSeq(doc.profiles, LAMBDA p : p.id = profile.id)
  IN  [doc EXCEPT !.profiles = IF at = 0 THEN Append(@, profile) ELSE [@ EXCEPT ![at] = profile]]

KnowsId(doc, id) == \E i \in DOMAIN doc.profiles : doc.profiles[i].id = id

-----------------------------------------------------------------------------
ConfigInit ==
  /\ config \in {NoConfig} \cup {[state |-> "json", doc |-> d] : d \in HandWritten}
  /\ original = config.doc
  /\ onboarding = [p \in Onboarders |-> IdleOnboarding]
  /\ onboardings = 0 /\ tears = 0 /\ overlapped = FALSE
  /\ onboarded = [id \in Ids |-> Absent]

EndOnboarding(p) == onboarding' = [onboarding EXCEPT ![p] = IdleOnboarding]

\* run_onboarding up to write_profile_config: credential files, profile document, phrase
\* and storage root.
PassesChecks(r) == r.files /\ CanBuild(r) /\ r.phrase /\ r.storage

\* `onboard`; a request that fails one of the checks ends here.
StartOnboarding(p, r) ==
  /\ Free(p)
  /\ onboardings < MaxOnboardings
  /\ PassesChecks(r)
  /\ onboardings' = onboardings + 1
  /\ onboarding' = [onboarding EXCEPT ![p] = [IdleOnboarding EXCEPT !.step = "read", !.request = r]]
  /\ overlapped' = (overlapped \/ \E q \in Onboarders \ {p} : ~Free(q))
  /\ UNCHANGED <<config, tears, onboarded, original>>

\* Mutant: only the new profile is validated.
ReadConfigUnchecked(p) ==
  LET r == onboarding[p].request
      doc == PutProfile(config.doc, BuildProfile(r))
  IN  /\ onboarding[p].step = "read"
      /\ IF /\ config.state # "torn" /\ config.doc.version = 1
            /\ KnowsId(config.doc, r.id) => r.replace
            /\ ProfileOK(BuildProfile(r))
         THEN onboarding' = [onboarding EXCEPT ![p].step = "open", ![p].doc = doc]
         ELSE EndOnboarding(p)
      /\ UNCHANGED <<config, onboardings, tears, onboarded, original, overlapped>>

\* The file is read (_read_existing_config); a torn one, another version, an id that is
\* taken without --replace-existing and a document that would not validate end the command.
ReadConfig(p) ==
  LET r == onboarding[p].request
      doc == PutProfile(config.doc, BuildProfile(r))
  IN  /\ onboarding[p].step = "read"
      /\ IF /\ config.state # "torn" /\ config.doc.version = 1
            /\ KnowsId(config.doc, r.id) => r.replace
            /\ ValidConfig(doc)
         THEN onboarding' = [onboarding EXCEPT ![p].step = "open", ![p].doc = doc]
         ELSE EndOnboarding(p)
      /\ UNCHANGED <<config, onboardings, tears, onboarded, original, overlapped>>

\* Path.write_text truncates the file ...
OpenConfig(p) ==
  /\ onboarding[p].step = "open"
  /\ config' = [config EXCEPT !.state = "torn"]
  /\ onboarding' = [onboarding EXCEPT ![p].step = "write"]
  /\ UNCHANGED <<onboardings, tears, onboarded, original, overlapped>>

\* ... and writes the document.  If another command wrote in between, its text lies
\* beneath and shows behind the end of a shorter document.
WriteConfig(p) ==
  /\ onboarding[p].step = "write"
  /\ \E state \in {"json"} \cup (IF onboarding[p].beneath THEN {"torn"} ELSE {}) :
       config' = [state |-> state, doc |-> onboarding[p].doc]
  /\ onboarded' = [onboarded EXCEPT ![onboarding[p].request.id] = onboarding[p].request.version]
  /\ onboarding' = [q \in Onboarders |->
       IF q = p THEN IdleOnboarding
       ELSE [onboarding[q] EXCEPT !.beneath = @ \/ onboarding[q].step = "write"]]
  /\ UNCHANGED <<onboardings, tears, original, overlapped>>

ConfigCrash(p) ==
  /\ ~Free(p)
  /\ tears < MaxTears
  /\ tears' = tears + 1
  /\ EndOnboarding(p)
  /\ UNCHANGED <<config, onboardings, onboarded, original, overlapped>>

ConfigNext ==
  \E p \in Onboarders :
    \/ \E r \in Requests : StartOnboarding(p, r)
    \/ ReadConfig(p) \/ OpenConfig(p) \/ WriteConfig(p) \/ ConfigCrash(p)

ConfigSpec == ConfigInit /\ [][ConfigNext]_configVars

-----------------------------------------------------------------------------
\* Whatever onboardings overlap, fail or follow a broken file, a complete file is one that
\* load_config accepts, or the operator's own text, untouched: a bad request never makes
\* the configuration of the other profiles unusable.
ConfigStaysLoadable ==
  config.state = "json" => Loads(config) \/ config.doc = original

\* "preserving existing profiles by default" (write_profile_config): as long as no two
\* onboardings overlap, a complete file holds every profile it ever held, each once, and
\* each onboarded one as the latest onboarding reported it.
ProfilesPreserved ==
  config.state = "json" /\ ~overlapped =>
    /\ \A i \in DOMAIN original.profiles : KnowsId(config.doc, original.profiles[i].id)
    /\ \A id \in Ids : onboarded[id] # Absent =>
         Cardinality({i \in DOMAIN config.doc.profiles :
                        config.doc.profiles[i].id = id
                          /\ config.doc.profiles[i].version = onboarded[id]}) = 1
=============================================================================

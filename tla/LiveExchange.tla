---------------------------- MODULE LiveExchange ----------------------------
(***************************************************************************)
(* One live command talking to SAT (SatLiveMetadataSmokeAdapter in         *)
(* sat_live_smoke.py, started by cli.py) while `setup` may replace the     *)
(* credentials under it.  The command inspects the profile, loads it       *)
(* again, reads certificate, key and phrase one after the other, builds    *)
(* and checks each envelope, sends it and parses the answer; the first     *)
(* problem ends the command with a stage and an error kind, the only       *)
(* things an operator gets to see.  SAT itself is external.                *)
(***************************************************************************)
EXTENDS CredentialSetup, AuthEnvelope, TransportErrors

CONSTANTS
  Failures,     \* subset of Exceptions the transport raises
  MaxCommands   \* bound on the number of commands

ASSUME ExchangeAssumption == Failures \subseteq Exceptions /\ MaxCommands \in Nat

\* The messages of an operation after the authentication, in their order.
Operations == {"auth_smoke", "metadata_smoke", "metadata_request_smoke", "verify_request",
               "download_package"}
MessagesOf(op) ==
  CASE op = "auth_smoke"             -> <<>>
    [] op = "metadata_smoke"         -> <<"request", "verify">>
    [] op = "metadata_request_smoke" -> <<"request">>
    [] op = "verify_request"         -> <<"verify">>
    [] op = "download_package"       -> <<"download">>
MessageKinds == {"auth", "request", "verify", "download"}

\* The stages _send and the parsers report for a message.
TransportStage == [k \in MessageKinds |->
  CASE k = "auth" -> "auth_transport"     [] k = "request"  -> "metadata_request_transport"
    [] k = "verify" -> "verify_transport" [] k = "download" -> "package_download"]
ParseStage == [k \in MessageKinds |->
  CASE k = "auth" -> "auth_response_parse"     [] k = "request"  -> "metadata_request_parse"
    [] k = "verify" -> "verify_response_parse" [] k = "download" -> "package_download"]

\* A token as SAT returns it: bare, already `WRAP access_token="..."`, or another
\* text that begins with "wrap ".
TokenForms == {"bare", "wrapped", "odd"}
\* What an answer carries beyond its status: its parts in order, a part missing, no XML.
Bodies == {"good", "empty", "garbage"}
Answers == {r \in Responses : r.status \in {200, 500} /\ ~r.wsdl /\ (r.mentions <=> r.fault)}

VARIABLES
  cmd,        \* the running command, see CommandType
  wire,       \* messages the command sent: kind, signed by, answered
  report,     \* stage and error kind the latest command ended with
  disturbed   \* history: a setup step or a read error since the command began

exchangeVars == <<cmd, wire, report, disturbed>>
lxVars == <<setupVars, exchangeVars>>

CommandSteps == {"idle", "load", "cert", "key", "phrase", "parse", "send", "wait"}
CommandType ==
  [step : CommandSteps, op : Operations, variant : Variants, wcf : Flags,
   argsOk : BOOLEAN, verifyEndpointOk : BOOLEAN,
   profile : Profiles, cert : Contents, key : Contents, phrase : Phrases,
   material : BOOLEAN, msg : MessageKinds, token : TokenForms \cup {"none"},
   count : 0..MaxCommands]
Message == [kind : MessageKinds, cert : Sets, key : Sets, answered : BOOLEAN]

IdleCommand(count) ==
  [step |-> "idle", op |-> "auth_smoke", variant |-> DefaultVariant, wcf |-> "off",
   argsOk |-> TRUE, verifyEndpointOk |-> TRUE, profile |-> NoProfile, cert |-> "none",
   key |-> "none", phrase |-> "none", material |-> FALSE, msg |-> "auth", token |-> "none",
   count |-> count]

ExchangeInit ==
  /\ SetupInit
  /\ cmd = IdleCommand(0) /\ wire = <<>> /\ disturbed = FALSE
  /\ report = [stage |-> "none", kind |-> "none"]

At(step) == cmd.step = step
Go(step) == cmd' = [cmd EXCEPT !.step = step]
End(stage, kind) ==
  /\ cmd' = IdleCommand(cmd.count)
  /\ report' = [stage |-> stage, kind |-> kind]
-----------------------------------------------------------------------------
\* Starting a command.

\* The envelope options of a command: those of an auth_live_smoke permit, or security
\* only (auth-smoke without a permit turns the Action header off, the others leave it on).
EnvelopeOptions(op) ==
  IF op = "auth_smoke"
  THEN {o \in Variants \X Flags : EnvelopeOK("auth_live_smoke", o[1], o[2])}
  ELSE {<<DefaultVariant, "on">>}

\* The guard (_validate_live_smoke_guard) lets a command through when the inspected
\* profile is ready.  argsOk is what the adapter asks of its argument, if it has one: an
\* identifier that is not blank, a metadata query of the permitted range; endpointOk what
\* the readiness check asks of the endpoint of a verify message.
StartCommand(op, options, argsOk, endpointOk) ==
  /\ At("idle")
  /\ cmd.count < MaxCommands
  /\ InspectReady
  /\ op = "auth_smoke" => argsOk
  /\ ~endpointOk => op \in {"metadata_smoke", "verify_request"}
  /\ cmd' = [IdleCommand(cmd.count + 1) EXCEPT
       !.step = "load", !.op = op, !.variant = options[1], !.wcf = options[2],
       !.argsOk = argsOk, !.verifyEndpointOk = endpointOk]
  /\ wire' = <<>> /\ report' = [stage |-> "none", kind |-> "none"]
  /\ disturbed' = ~SetupAt("idle")
  /\ UNCHANGED setupVars

\* _run_live_*: the profile is loaded a second time, then the argument is checked.
LoadProfile ==
  /\ At("load")
  /\ IF cmd.op # "auth_smoke" /\ ~cmd.argsOk THEN End("preflight", "guard_failed")
     ELSE /\ cmd' = [cmd EXCEPT !.step = "cert", !.profile = profile]
          /\ UNCHANGED report
  /\ UNCHANGED <<setupVars, wire, disturbed>>

-----------------------------------------------------------------------------
\* load_sat_efirma_material; _load_material does it once per adapter.

ReadCertificate ==
  /\ At("cert")
  /\ IF CertificateOf(cmd.profile) = "none" THEN End("credential_load", "credential_load_failed")
     ELSE /\ cmd' = [cmd EXCEPT !.step = "key", !.cert = CertificateOf(cmd.profile)]
          /\ UNCHANGED report
  /\ UNCHANGED <<setupVars, wire, disturbed>>

ReadPrivateKey ==
  /\ At("key")
  /\ IF PrivateKeyOf(cmd.profile) = "none" THEN End("credential_load", "credential_load_failed")
     ELSE /\ cmd' = [cmd EXCEPT !.step = "phrase", !.key = PrivateKeyOf(cmd.profile)]
          /\ UNCHANGED report
  /\ UNCHANGED <<setupVars, wire, disturbed>>

ResolvePhrase ==
  /\ At("phrase")
  /\ IF phrase = "none" THEN End("secret_resolve", "secret_unavailable")
     ELSE /\ cmd' = [cmd EXCEPT !.step = "parse", !.phrase = phrase]
          /\ UNCHANGED report
  /\ UNCHANGED <<setupVars, wire, disturbed>>

\* An OSError: of a file it is a failed load; of the secret store it is not a
\* CredentialProviderError and comes out as an envelope that could not be built.
ReadFails ==
  /\ \/ cmd.step \in {"cert", "key"} /\ End("credential_load", "credential_load_failed")
     \/ At("phrase") /\ End("auth_envelope_build", "envelope_build_failed")
  /\ disturbed' = TRUE
  /\ UNCHANGED <<setupVars, wire>>

\* The key opens with the phrase of its own set, and only if it is encrypted at all: a
\* passphrase for a plain key is refused by the library.  Nothing compares the key with
\* the certificate.
KeyOpens(key, ph) == key # "torn" /\ key = ph /\ key \notin PlainSets

ParseMaterial ==
  /\ At("parse")
  /\ IF cmd.cert = "torn" THEN End("certificate_parse", "certificate_parse_failed")
     ELSE IF ~KeyOpens(cmd.key, cmd.phrase) THEN End("private_key_load", "private_key_load_failed")
     ELSE cmd' = [cmd EXCEPT !.step = "send", !.material = TRUE] /\ UNCHANGED report
  /\ UNCHANGED <<setupVars, wire, disturbed>>

-----------------------------------------------------------------------------
\* _send.

\* _wrap_authorization
WrapAuthorization(token) == IF token = "bare" THEN "wrapped" ELSE token

\* _assert_verify_request_ready: the default endpoint and a token in the usual form.
VerifyRequestReady(endpointOk, authorization) == endpointOk /\ authorization = "wrapped"

OnWire(kind) == [kind |-> kind, cert |-> cmd.cert, key |-> cmd.key, answered |-> FALSE]

ReadyToSend ==
  /\ cmd.msg = "auth" => AuthRequestReady(BuildHeader(cmd.variant, cmd.wcf), cmd.variant, cmd.wcf)
  /\ cmd.msg = "verify" =>
       VerifyRequestReady(cmd.verifyEndpointOk, WrapAuthorization(cmd.token))

\* Mutant: the request is checked after it has been sent.
SendThenCheck ==
  /\ At("send")
  /\ ~ReadyToSend
  /\ wire' = Append(wire, OnWire(cmd.msg))
  /\ End(IF cmd.msg = "auth" THEN "auth_request_readiness" ELSE "verify_request_readiness",
         "client_configuration_error")
  /\ UNCHANGED <<setupVars, disturbed>>

\* The envelope is built from the material and the options, and checked.
RefuseMessage ==
  /\ At("send")
  /\ ~ReadyToSend
  /\ End(IF cmd.msg = "auth" THEN "auth_request_readiness" ELSE "verify_request_readiness",
         "client_configuration_error")
  /\ UNCHANGED <<setupVars, wire, disturbed>>

\* The transport posts it, and SAT has it from here on.
SendMessage ==
  /\ At("send")
  /\ ReadyToSend
  /\ wire' = Append(wire, OnWire(cmd.msg))
  /\ Go("wait")
  /\ UNCHANGED <<setupVars, report, disturbed>>

\* The transport raises before anything is sent (its own guard, DNS, a refused connection,
\* TLS), or after the message went out and before an answer came; _send cannot tell.
TransportFails(e) ==
  /\ At("wait") \/ (At("send") /\ ReadyToSend)
  /\ End(TransportStage[cmd.msg], SendErrorKind(e, cmd.msg))
  /\ UNCHANGED <<setupVars, wire, disturbed>>

Answered == wire' = [wire EXCEPT ![Len(wire)].answered = TRUE]

\* A status other than 2xx (urllib raises HTTPError, another sender may return it).
HttpError(r) ==
  /\ At("wait")
  /\ ~Success(r)
  /\ Answered
  /\ End(TransportStage[cmd.msg], HttpResponseErrorKind(r))
  /\ UNCHANGED <<setupVars, disturbed>>

\* Reading the body of an HTTPError fails, and nothing catches that: a traceback.
BodyUnread ==
  /\ At("wait")
  /\ Answered
  /\ End("none", "uncaught")
  /\ UNCHANGED <<setupVars, disturbed>>

\* Mutant: certificate and key are read anew for every message.
AgainFromDisk(msg, token) ==
  cmd' = [cmd EXCEPT !.step = "send", !.msg = msg, !.token = token,
                     !.cert = CertificateOf(cmd.profile), !.key = PrivateKeyOf(cmd.profile)]

NextMessage(msg, token) == cmd' = [cmd EXCEPT !.step = "send", !.msg = msg, !.token = token]

\* _authenticate: parse_authentication_response wants a token in an answer without Fault.
\* SAT (external) gives a token only to an envelope whose signature fits its certificate.
AuthAnswer(r, body, token) ==
  /\ At("wait") /\ cmd.msg = "auth"
  /\ Success(r)
  /\ Answered
  /\ (~r.fault /\ body = "good") => wire[Len(wire)].cert = wire[Len(wire)].key
  /\ IF r.fault THEN End("auth_response_parse", "soap_fault")
     ELSE IF body = "empty" THEN End("token_extract", "token_missing")
     ELSE IF body = "garbage" THEN End("auth_response_parse", "token_parse_failed")
     ELSE IF MessagesOf(cmd.op) = <<>> THEN End("none", "ok")
     ELSE NextMessage(Head(MessagesOf(cmd.op)), token) /\ UNCHANGED report
  /\ UNCHANGED <<setupVars, disturbed>>

\* The answers to the other messages.  metadata_smoke goes on to verify when the
\* request was accepted; that is all an accepted answer decides here.
BusinessAnswer(r, body, accepted) ==
  /\ At("wait") /\ cmd.msg # "auth"
  /\ Success(r)
  /\ Answered
  /\ \/ /\ r.fault \/ body # "good"
        /\ End(ParseStage[cmd.msg], ResponseErrorKind(r))
     \/ /\ ~r.fault /\ body = "good"
        /\ IF cmd.op = "metadata_smoke" /\ cmd.msg = "request" /\ accepted
           THEN NextMessage("verify", cmd.token) /\ UNCHANGED report
           ELSE End("none", IF accepted THEN "ok" ELSE "not_accepted")
  /\ UNCHANGED <<setupVars, disturbed>>

-----------------------------------------------------------------------------
SetupStep ==
  /\ SetupNext
  /\ disturbed' = TRUE
  /\ UNCHANGED <<cmd, wire, report>>

ExchangeNext ==
  \/ SetupStep
  \/ \E op \in Operations, argsOk \in BOOLEAN, endpointOk \in BOOLEAN :
       \E options \in EnvelopeOptions(op) : StartCommand(op, options, argsOk, endpointOk)
  \/ LoadProfile \/ ReadCertificate \/ ReadPrivateKey \/ ResolvePhrase \/ ReadFails
  \/ ParseMaterial \/ RefuseMessage \/ SendMessage \/ BodyUnread
  \/ \E e \in Failures : TransportFails(e)
  \/ \E r \in Answers : HttpError(r)
  \/ \E r \in Answers, body \in Bodies, token \in TokenForms : AuthAnswer(r, body, token)
  \/ \E r \in Answers, body \in Bodies, accepted \in BOOLEAN : BusinessAnswer(r, body, accepted)

ExchangeSpec == ExchangeInit /\ [][ExchangeNext]_lxVars

-----------------------------------------------------------------------------
LocalStages == {"credential_load", "secret_resolve", "certificate_parse", "private_key_load",
                "auth_envelope_build"}

\* What setup does not look into: an unreadable certificate or key, a phrase that is not the
\* key's, and a plain .key file, which a phrase does not open.
Unusable(offer) ==
  \/ offer.cert = "torn" \/ offer.key = "torn" \/ offer.phrase # offer.key
  \/ offer.key \in PlainSets \ PemSets

\* What setup completed is what a command uses: when no crash or failed rollback has spoiled
\* it and no setup overlaps the command, everything sent is signed with the certificate and
\* the key the operator offered; a stage that blames the local credentials is reported, and
\* nothing sent, only if the offered pieces were unusable.  Nor does the readiness check
\* refuse envelope options the permit was granted for, which would have consumed the permit
\* for nothing.
InstalledProfileWorks ==
  completed # NoOffer /\ ~disturbed =>
    /\ \A i \in DOMAIN wire : wire[i].cert = completed.cert /\ wire[i].key = completed.key
    /\ report.stage \in LocalStages => Unusable(completed)
    /\ Unusable(completed) => wire = <<>>
    /\ report.stage # "auth_request_readiness"

\* Whatever a concurrent setup replaces, all messages of one command are signed by one
\* certificate and one key: _load_material keeps what it loaded.
OneIdentityPerCommand ==
  \A i, j \in DOMAIN wire : wire[i].cert = wire[j].cert /\ wire[i].key = wire[j].key

\* Kinds reported only of an answer that came.
AnswerKinds == {"http_status_error", "soap_fault", "unexpected_http_response", "token_parse_failed",
                "token_missing"}
\* Stages named after a message.
StagesOf(k) == {TransportStage[k], ParseStage[k]} \cup IF k = "auth" THEN {"token_extract"} ELSE {}

\* What an operator can conclude from the report.  A local stage or a refused envelope: that
\* nothing was sent, and the readiness of a verify request, that everything before it was
\* answered.  A stage named after a message: that what came before this message was answered;
\* and the kind tells whether SAT answered the message itself.  If it did not, the message
\* may or may not have gone out.
StageIsTruthful ==
  LET last == wire[Len(wire)]
      answered == \A i \in DOMAIN wire : wire[i].answered
  IN /\ report.stage \in LocalStages \cup {"preflight", "auth_request_readiness"} => wire = <<>>
     /\ report.stage = "verify_request_readiness" =>
          wire # <<>> /\ last.kind \in {"auth", "request"} /\ answered
     /\ \A k \in MessageKinds : report.stage \in StagesOf(k) =>
          IF report.kind \in AnswerKinds THEN wire # <<>> /\ last.kind = k /\ answered
          ELSE \A i \in DOMAIN wire : wire[i].answered <=> wire[i].kind # k
=============================================================================

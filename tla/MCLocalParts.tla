---------------------------- MODULE MCLocalParts ----------------------------
(* The parts that work on local files and tables, in memory, or on one answer, and share
   nothing: package extraction, XML vault, configuration, backfill plan, offline
   orchestration, diagnoses of the probes.  A behaviour is about one of them and the others
   stay as they begin. *)
EXTENDS PackageExtraction, VaultImport, ConfigOnboarding, Backfill, RequestOrchestrator,
        TransportErrors

Txt(n, rows) == [name |-> n, lower |-> n, form |-> "plain", ext |-> ".txt", rows |-> rows]
Bad(form) == [Txt("c.txt", <<>>) EXCEPT !.form = form]
Pack(i, members) == [id |-> i, opens |-> TRUE, members |-> members]

\* One package that is good, and packages for the ways to be rejected.
GoodZip == Pack("good", <<Txt("a.txt", <<"none", "uuid">>), Txt("b.txt", <<"none">>)>>)
MCZips ==
  {GoodZip, [GoodZip EXCEPT !.id = "closed", !.opens = FALSE],
   Pack("case", <<[Txt("A.TXT", <<>>) EXCEPT !.lower = "a.txt"], Txt("a.txt", <<>>)>>),
   Pack("ext", <<Txt("a.txt", <<>>), [Txt("b.xml", <<>>) EXCEPT !.ext = ".xml"]>>),
   Pack("paths", <<Txt("a.txt", <<>>), Bad("absolute"), Bad("backslash"), Bad("directory"),
                   Bad("dotted")>>)}

Xml(u, h) == [uuid |-> u, sha |-> h, isXml |-> TRUE, parses |-> TRUE]
Broken == [Xml("u0", "h0") EXCEPT !.parses = FALSE]
Other == [Xml("u0", "h9") EXCEPT !.isXml = FALSE]
\* u1 in two versions; a ZIP with an unusable and a foreign member.
MCXmls == {Xml("u1", "h1"), Xml("u1", "h1b"), Xml("u2", "h2"), Broken, Other}
MCBatches == {<<Xml("u1", "h1")>>, <<Broken, Other, Xml("u1", "h1b"), Xml("u2", "h2")>>}

Request == [id |-> "p1", version |-> 1, rfc |-> "ok", files |-> TRUE, phrase |-> TRUE,
            storage |-> TRUE, mode |-> "both", start |-> 2, end |-> 3, schedule |-> "disabled",
            interval |-> Absent, dailyAt |-> "none", concurrency |-> 2, prefix |-> "ok",
            replace |-> FALSE]
\* Good requests for two profiles, and one for every part that can be wrong.
MCRequests ==
  {Request, [Request EXCEPT !.id = "p2", !.mode = "issued", !.end = Absent],
   [Request EXCEPT !.version = 2, !.replace = TRUE, !.schedule = "daily", !.dailyAt = "ok"],
   [Request EXCEPT !.id = "p2", !.version = 2, !.replace = TRUE, !.mode = "received",
                   !.schedule = "interval", !.interval = 5],
   [Request EXCEPT !.id = "?"], [Request EXCEPT !.rfc = "odd"], [Request EXCEPT !.files = FALSE],
   [Request EXCEPT !.phrase = FALSE], [Request EXCEPT !.storage = FALSE],
   [Request EXCEPT !.end = 1], [Request EXCEPT !.schedule = "interval"],
   [Request EXCEPT !.schedule = "interval", !.interval = 0],
   [Request EXCEPT !.schedule = "daily", !.dailyAt = "odd"], [Request EXCEPT !.schedule = "daily"],
   [Request EXCEPT !.concurrency = 0], [Request EXCEPT !.concurrency = 11],
   [Request EXCEPT !.prefix = "scheme"], [Request EXCEPT !.prefix = "file"]}

Kept == [BuildProfile(Request) EXCEPT !.id = "p3", !.range.given = FALSE, !.lookback = 30]
Doc(profiles) == [EmptyDoc EXCEPT !.profiles = profiles]
\* Documents of an operator: good ones, and one for every rule of validate_config.
MCHandWritten ==
  {Doc(<<Kept>>), Doc(<<Kept, [BuildProfile(Request) EXCEPT !.version = 9]>>), EmptyDoc,
   Doc(<<Kept, Kept>>), [Doc(<<Kept>>) EXCEPT !.version = 2], [Doc(<<Kept>>) EXCEPT !.unknown = TRUE]}
    \cup {Doc(<<p>>) : p \in {[Kept EXCEPT !.range.given = TRUE], [Kept EXCEPT !.lookback = Absent],
                              [Kept EXCEPT !.download.received = "false", !.download.issued = "false"],
                              [Kept EXCEPT !.download.metadataFirst = "other"],
                              [Kept EXCEPT !.storageRoot = "material"], [Kept EXCEPT !.unknown = TRUE],
                              [Kept EXCEPT !.schedule.enabled = "true"]}}

\* What the client of a probe meets: an exception or a response.
Outcomes == [failed : {TRUE}, exc : Exceptions] \cup [failed : {FALSE}, response : Responses]

MCDays == 1..9

VARIABLES part,      \* the part this behaviour is about
          outcome    \* what a probe meets

localVars == <<extractVars, importVars, configVars, backfillVars, orchVars, outcome>>

MCInit ==
  /\ part \in {"package", "vault", "config", "backfill", "orchestration", "diagnosis"}
  /\ ExtractInit /\ ImportInit /\ ConfigInit /\ BackfillInit /\ OrchInit
  /\ part # "config" => config = NoConfig
  /\ part # "orchestration" => service = "requests"
  /\ outcome \in IF part = "diagnosis" THEN Outcomes ELSE {CHOOSE o \in Outcomes : TRUE}

MCNext ==
  /\ \/ /\ part = "package" /\ ExtractNext
        /\ UNCHANGED <<importVars, configVars, backfillVars, orchVars>>
     \/ /\ part = "vault" /\ ImportNext
        /\ UNCHANGED <<extractVars, configVars, backfillVars, orchVars>>
     \/ /\ part = "config" /\ ConfigNext
        /\ UNCHANGED <<extractVars, importVars, backfillVars, orchVars>>
     \/ /\ part = "backfill" /\ BackfillNext
        /\ UNCHANGED <<extractVars, importVars, configVars, orchVars>>
     \/ /\ part = "orchestration" /\ OrchNext
        /\ UNCHANGED <<extractVars, importVars, configVars, backfillVars>>
  /\ UNCHANGED <<part, outcome>>

MCSpec == MCInit /\ [][MCNext]_<<localVars, part>>

\* What the live adapter and the probes say of the same exchange.  Of a failure, the POST
\* probe says what the adapter says, with three exceptions: only the probe knows DNS failures,
\* only the adapter a rejected client certificate (a TLS failure to the probe), and the
\* adapter renames the timeout of a verify message.  The matrix probe names the same failure
\* as the POST probe, except for a connection the server closed: it looks for a reset first
\* and knows no EOF.  Of an answer that is no success, adapter and probes say the same unless
\* its body mentions a fault that is none to the parser (or the parser finds one that is not
\* spelled in ASCII); a probe is ok if and only if an HTTP answer came.
DiagnosesAgree ==
  /\ outcome.failed =>
       \A stage \in {"auth", "request", "verify", "download"} :
       LET e == outcome.exc
           post == ClassifyPostProbe(e)
           live == SendErrorKind(e, stage)
           matrix == ClassifyMatrix(e)
       IN  /\ \/ post = live
              \/ e.class = "gaierror" /\ post = "dns_failed"
              \/ live = "client_cert_rejected" /\ post = "tls_handshake_failed"
              \/ live = "verify_read_timeout" /\ post = "timeout"
           /\ live = "verify_read_timeout" <=> post = "timeout" /\ stage = "verify"
           /\ post # "remote_closed_connection" => matrix = post
           /\ matrix = "remote_closed_connection" => post = matrix
           /\ ~PostProbe(outcome).ok /\ ~MatrixRow(outcome).ok
           /\ MatrixRow(outcome).tls = "failed" <=> live \in
                {"certificate_verify_failed", "client_cert_rejected", "tls_handshake_failed"}
           /\ ~HttpProbe(outcome, TRUE).ok /\ ~HttpProbe(outcome, FALSE).ok
  /\ ~outcome.failed =>
       LET r == outcome.response
           live == HttpResponseErrorKind(r)
       IN  /\ PostProbe(outcome).ok /\ MatrixRow(outcome).ok
           /\ ~Success(r) =>
                /\ MatrixRow(outcome).kind = PostProbe(outcome).kind
                /\ PostProbe(outcome).kind = live <=> (r.fault <=> r.mentions)
           /\ HttpProbe(outcome, TRUE).ok => HttpProbe(outcome, FALSE).ok
=============================================================================

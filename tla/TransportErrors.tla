--------------------------- MODULE TransportErrors --------------------------
(***************************************************************************)
(* What the program says of a failed HTTPS exchange with SAT.  The live    *)
(* adapter (sat_live_smoke.py) and the four probes (sat_*_probe.py) each   *)
(* classify exceptions and responses with a table of their own; operators  *)
(* compare what a probe reports with what a live command reported.         *)
(***************************************************************************)
EXTENDS Integers, Sequences

\* Exceptions as the classifiers see them, the root of a chain of causes: the class,
\* what the text (class name included) mentions, and whether a URLError is around it.
\* An OSError with errno ETIMEDOUT or ECONNRESET is a TimeoutError or a
\* ConnectionResetError in Python, so errno says nothing more than the class.
ExceptionClasses == {"gaierror", "cert_verify", "ssl", "timeout", "remote_disconnected", "eof",
                     "reset", "url", "other"}
Mentions == {"closed", "reset", "proxy", "client_cert"}
Exceptions == {e \in [class : ExceptionClasses, says : SUBSET Mentions, wrapped : BOOLEAN] :
                 e.class = "reset" => "reset" \in e.says}

\* isinstance: subclasses of SSLError and of ConnectionResetError.
IsSslError(e) == e.class \in {"cert_verify", "ssl"}
IsReset(e) == e.class \in {"reset", "remote_disconnected"}

\* A response: its status (http.client takes 100 to 999) and the 8192 bytes read of its body.
\* fault: they parse as XML with a Fault element and a usable code (_soap_fault_code);
\* mentions: they contain the word "fault", as any page with "default" does; wsdl: "wsdl".
Responses == [status : 100..999, fault : BOOLEAN, mentions : BOOLEAN, wsdl : BOOLEAN]
Success(r) == r.status \in 200..299

\* The kind of the first rule that applies.
FirstOf(rules) ==
  rules[CHOOSE i \in DOMAIN rules : rules[i][1] /\ \A j \in 1..(i - 1) : ~rules[j][1]][2]

\* _classify_transport_failure of the live adapter.
ClassifyTransportFailure(e) == FirstOf(<<
  <<e.class = "cert_verify", "certificate_verify_failed">>,
  <<IsSslError(e) /\ "client_cert" \in e.says, "client_cert_rejected">>,
  <<IsSslError(e), "tls_handshake_failed">>,
  <<e.class = "timeout", "timeout">>,
  <<e.class \in {"remote_disconnected", "eof"} \/ "closed" \in e.says, "remote_closed_connection">>,
  <<IsReset(e) \/ "reset" \in e.says, "connection_reset_during_post">>,
  <<"proxy" \in e.says, "proxy_connect_failed">>,
  <<TRUE, "client_configuration_error">> >>)

\* Mutant: the verify stage does not rename a timeout.
SendErrorKindAsIs(e, stage) == ClassifyTransportFailure(e)

\* _send: a timeout of the verify message has a kind of its own.
SendErrorKind(e, stage) ==
  LET kind == ClassifyTransportFailure(e)
  IN  IF stage = "verify" /\ kind = "timeout" THEN "verify_read_timeout" ELSE kind

\* _classify_exception of the auth POST probe, imported by the verify POST probe.
ClassifyPostProbe(e) == FirstOf(<<
  <<e.class = "gaierror", "dns_failed">>,
  <<e.class = "cert_verify", "certificate_verify_failed">>,
  <<IsSslError(e), "tls_handshake_failed">>,
  <<e.class = "timeout", "timeout">>,
  <<e.class \in {"remote_disconnected", "eof"} \/ "closed" \in e.says, "remote_closed_connection">>,
  <<IsReset(e) \/ "reset" \in e.says, "connection_reset_during_post">>,
  <<"proxy" \in e.says, "proxy_connect_failed">>,
  <<TRUE, "client_configuration_error">> >>)

\* _classify_exception of the matrix probe: the reset comes before the closed connection.
ClassifyMatrix(e) == FirstOf(<<
  <<e.class = "gaierror", "dns_failed">>,
  <<e.class = "cert_verify", "certificate_verify_failed">>,
  <<IsSslError(e), "tls_handshake_failed">>,
  <<e.class = "timeout", "timeout">>,
  <<IsReset(e) \/ "reset" \in e.says, "connection_reset_during_post">>,
  <<"closed" \in e.says, "remote_closed_connection">>,
  <<"proxy" \in e.says, "proxy_connect_failed">>,
  <<TRUE, "client_configuration_error">> >>)

\* _classify_probe_exception of the transport probe; only a URLError is unwrapped.
ClassifyTransportProbe(e) == FirstOf(<<
  <<e.class = "gaierror", "dns_failed">>,
  <<e.class = "cert_verify", "certificate_verify_failed">>,
  <<IsSslError(e), "tls_handshake_failed">>,
  <<e.class \in {"timeout", "url"}, "endpoint_unreachable">>,
  <<"proxy" \in e.says, "proxy_or_firewall_failed">>,
  <<TRUE, "unexpected_response">> >>)

\* _classify_response of the POST probes; the matrix probe differs in the last word.  All
\* of them look for the word.
ClassifyResponse(r, plain) == FirstOf(<<
  <<r.mentions, "soap_fault">>,
  <<~Success(r), "http_status_error">>,
  <<TRUE, plain>> >>)

\* The result of one probe: what its client met (an exception or a response).
PostProbe(outcome) ==
  LET kind == IF outcome.failed THEN ClassifyPostProbe(outcome.exc)
              ELSE ClassifyResponse(outcome.response, "post_reached_server")
  IN  [kind |-> kind, ok |-> kind \in {"post_reached_server", "http_status_error", "soap_fault"}]
MatrixRow(outcome) ==
  LET kind == IF outcome.failed THEN ClassifyMatrix(outcome.exc)
              ELSE ClassifyResponse(outcome.response, "unexpected_http_response")
  IN  [kind |-> kind, ok |-> kind \in {"http_status_error", "soap_fault", "unexpected_http_response"},
       tls |-> IF ~outcome.failed THEN "ok" ELSE IF IsSslError(outcome.exc) THEN "failed" ELSE "unknown"]
HttpProbe(outcome, wsdl) ==
  LET kind == IF outcome.failed THEN ClassifyTransportProbe(outcome.exc)
              ELSE FirstOf(<<
                <<outcome.response.status \notin 200..399,
                  IF wsdl THEN "wsdl_unavailable" ELSE "http_status_error">>,
                <<wsdl /\ ~outcome.response.wsdl, "unexpected_response">>,
                <<TRUE, "ok">> >>)
  IN  [kind |-> kind, ok |-> kind = "ok"]

\* _classify_curl_exit, used when curl printed no status.
ClassifyCurlExit(code) == FirstOf(<<
  <<code = 35, "tls_handshake_failed">>,
  <<code = 60, "certificate_verify_failed">>,
  <<code = 28, "timeout">>,
  <<code \in {52, 56}, "remote_closed_connection">>,
  <<code \in {5, 6}, "dns_failed">>,
  <<code \in {7, 55}, "connection_reset_during_post">>,
  <<TRUE, "client_configuration_error">> >>)

\* _http_response_error_kind and _response_error_kind of the live adapter, which parses.
HttpResponseErrorKind(r) == IF r.fault THEN "soap_fault" ELSE "http_status_error"
ResponseErrorKind(r) == IF r.fault THEN "soap_fault" ELSE "unexpected_http_response"
=============================================================================

---------------------------- MODULE AuthEnvelope ----------------------------
(***************************************************************************)
(* The two options of an authentication envelope, the order of the SOAP    *)
(* headers (auth_envelope_variant) and the WS-Addressing Action header     *)
(* (wcf_action_header_enabled), as three parts of the program see them:    *)
(* the permit that grants them (live_permit.py), the builder that obeys    *)
(* them and the readiness check that refuses a wrong envelope before it is *)
(* sent (sat_live_smoke.py).                                               *)
(***************************************************************************)

\* AUTH_ENVELOPE_VARIANTS; "none" is Python's None.
Variants == {"security_only", "action_before_security", "security_before_action"}
DefaultVariant == "security_only"
Optional(S) == S \cup {"none"}
Flags == {"on", "off"}

\* What live_permit_create and _validated_request make of the two envelope options.
RequestedVariant(scope, variant) ==
  IF scope # "auth_live_smoke" THEN "none"
  ELSE IF variant = "none" THEN DefaultVariant ELSE variant
RequestedWcf(scope, variant, wcf) ==
  IF scope # "auth_live_smoke" THEN "none"
  ELSE IF wcf # "none" THEN wcf
  ELSE IF RequestedVariant(scope, variant) = "security_only" THEN "off" ELSE "on"

\* Both create and use insist on the Action header for the variants that have one.
EnvelopeOK(scope, variant, wcf) ==
  IF scope = "auth_live_smoke"
  THEN variant \in Variants /\ (variant # "security_only" => wcf = "on")
  ELSE variant = "none" /\ wcf = "none"

\* _build_auth_envelope: the headers of the envelope, in their order.
BuildHeader(variant, wcf) ==
  CASE variant = "action_before_security" /\ wcf = "on" -> <<"Action", "Security">>
    [] variant = "security_before_action" /\ wcf = "on" -> <<"Security", "Action">>
    [] OTHER                                            -> <<"Security">>

\* _auth_header_action_order
HeaderActionOrder(header) ==
  CASE header = <<"Security">>           -> "security_only"
    [] header = <<"Action", "Security">> -> "action_before_security"
    [] header = <<"Security", "Action">> -> "security_before_action"
    [] OTHER                             -> "missing_action_or_security"

\* _assert_auth_request_ready, on what can be wrong with an envelope of this builder.
AuthRequestReady(header, variant, wcf) ==
  /\ HeaderActionOrder(header) = variant
  /\ variant # "security_only" => wcf = "on"
=============================================================================

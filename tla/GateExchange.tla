---------------------------- MODULE GateExchange ----------------------------
(***************************************************************************)
(* The two outbound rails of the SDK as pure operators: what a GateClient  *)
(* does with a packet before its one POST to Gate and with the reply, and  *)
(* what Gate's own GateDispatchTransport does with a dispatch to a worker  *)
(* and with the worker's reply.  StepExecutor and Rail make actions of     *)
(* them.                                                                   *)
(*                                                                         *)
(* c is a GateClientConfig, g a GateDispatchConfig; both have the fields   *)
(* key, keyId, unloadable (what signing with a key that cannot be loaded   *)
(* raises), alg, requireSig, verifyResp and verifying.  A reply is         *)
(* [kind, code, pkt]: a bare HTTP status, a page that is no packet, or a   *)
(* packet.  at is the clock.  Both rails validate with the default limits. *)
(***************************************************************************)
EXTENDS TransportPacket

CONSTANT Admission  \* the reserved action of the admission probe

NoReply == [kind |-> "none", code |-> 0, pkt |-> None]
AsPacket(q) == [kind |-> "packet", code |-> 200, pkt |-> q]
AsStatus(code) == [kind |-> "status", code |-> code, pkt |-> None]

\* The errors of the Gate client (gate/errors.py): GateClientError and below.
GateErrors == {"GatePolicyError", "GateConfigurationError", "GateSecurityError",
               "GateTimeoutError", "GateConnectionError", "GateAuthorizationError",
               "GateHTTPError", "GateResponseError"}

\* The errors of the dispatch transport: GateDispatchError and below.
DispatchErrors == {"GateDispatchConfigurationError", "GateDispatchAuthorityError",
                   "GateDispatchSecurityError", "WorkerTimeoutError", "WorkerConnectionError",
                   "WorkerHTTPError", "WorkerResponseError"}

\* What leaks out of a call of either without being one: a payload that JSON cannot
\* hold, a private key that is no key, a client that has been closed.
Untyped == {"TypeError", "ValueError", "RuntimeError"}

-----------------------------------------------------------------------------
(* Keys, the same rules on both rails.                                      *)

\* Variant for mutation: only the configured keys verify.
Keyring_Configured(c) == c.verifying

\* resolve_verifying_key: the sender's own key verifies too, unless it is the
\* private half of a pair.
Keyring(c) ==
  c.verifying \cup
    IF c.key = None THEN {} ELSE {IF c.alg = "hmac-sha256" THEN c.key ELSE "private"}

\* What a rail asks of a packet that is, or is not, to be signed.
ClientCheck(c, signed) ==
  [types |-> None, actions |-> None, node |-> None, skew |-> Skew, maxBytes |-> MaxBytes,
   maxHops |-> MaxHops, maxLinks |-> MaxLinks, attachable |-> Attachable, idem |-> {},
   replay |-> TRUE, dev |-> ~signed, requireSig |-> signed, keys |-> Keyring(c)]

\* _maybe_sign: the error it raises, or None.  config and security are the rail's
\* classes; only a TransportError of sign_transport_packet is made one of them.
SigningError(c, config, security) ==
  IF c.key = None THEN None
  ELSE IF ~c.keyId THEN config
  ELSE IF c.unloadable = "TransportAuthenticationError" THEN security ELSE c.unloadable

\* _maybe_sign, when it raises nothing.
MaybeSign(c, p) == IF c.key = None THEN p ELSE SignedBy(p, c.key)

-----------------------------------------------------------------------------
(* The Gate client.                                                         *)

\* validate_outbound_gate_packet.
PolicyAllows(c, p) ==
  /\ p.core.src # "client" /\ p.core.origin = "node"
  /\ p.core.src = c.local /\ p.core.original \in {None, c.local}
  /\ p.core.dst = c.gate /\ p.core.asked = p.core.action

\* max_timeout_ms bounds every budget of this client.
Clamp(c, budget) == IF c.ceiling # None /\ budget > c.ceiling THEN c.ceiling ELSE budget

\* _network_timeout_seconds: the packet's budget under the ceiling, less the margin.
Budget(c, p) == Clamp(c, p.core.timeout) - c.margin

\* _exchange before the POST: the error it raises, or None.
SendError(c, p, at) ==
  LET unsigned == SigningError(c, "GateConfigurationError", "GateSecurityError") IN
  IF ~PolicyAllows(c, p) THEN "GatePolicyError"
  ELSE IF unsigned # None THEN unsigned
  ELSE IF ~Valid(MaybeSign(c, p), ClientCheck(c, c.requireSig), at) THEN "GateSecurityError"
  ELSE IF Budget(c, p) <= 0 THEN "GateConfigurationError" ELSE None

\* _exchange after the POST: the error a reply raises, or None.
ReplyError(c, r, at) ==
  IF r.kind = "status"
    THEN IF r.code \in {401, 403} THEN "GateAuthorizationError" ELSE "GateHTTPError"
  ELSE IF r.kind = "page" \/ ~HeaderOK(r.pkt.core) THEN "GateResponseError"
  ELSE IF ~Intact(r.pkt) \/ ~Valid(r.pkt, ClientCheck(c, c.verifyResp), at)
    THEN "GateSecurityError" ELSE None

\* _resolve_operation_budget_ms, before it is found to be positive.
Asked(c, ask) == IF ask.timeout = None THEN c.default ELSE ask.timeout

\* _build_root_packet: what execute sends, for an action, with the id, at time at.
\* create_transport_packet gives it no audit_required, delegation or attachment.
RootCore(c, ask, action, id, at) ==
  [id |-> id, type |-> "request", action |-> action, created |-> at, expires |-> None,
   notBefore |-> None, timeout |-> Clamp(c, Asked(c, ask)), idem |-> ask.idem, corr |-> id,
   cause |-> None, replay |-> FALSE, src |-> c.local, dst |-> c.gate, replyTo |-> c.local,
   tenant |-> ask.tenant, payload |-> ask.payload,
   resolved |-> FALSE, route |-> None, origin |-> "node", asked |-> action,
   original |-> c.local, parent |-> None, root |-> id, gen |-> 0, audited |-> FALSE,
   links |-> 0, until |-> None, attached |-> None, defects |-> {}]

\* execute up to the POST of p: the error it raises, or None.  A blank action, and
\* inputs no packet can hold, are found while the packet is built; so is a payload
\* that JSON cannot hold, but _build_root_packet does not catch a TypeError.
ExecuteError(c, ask, p, at) ==
  IF Asked(c, ask) <= 0 \/ ~ask.wellFormed THEN "GateConfigurationError"
  ELSE IF ~ask.serialisable THEN "TypeError" ELSE SendError(c, p, at)

\* admission_problems: a consumer that cannot prove who it is, or verify Gate.
CanBeAdmitted(c) == c.key # None /\ c.keyId /\ c.verifying # {}

\* activate verifies the answer whatever the client does with answers to execute.
Verifying(c) == [c EXCEPT !.verifyResp = TRUE]

\* activate up to the POST of p.
ActivateError(c, ask, p, at) ==
  IF ~CanBeAdmitted(c) \/ Asked(c, ask) <= 0 \/ ~ask.wellFormed THEN "GateConfigurationError"
  ELSE SendError(Verifying(c), p, at)

\* Variant for mutation: any key that verifies will do, the client's own included.
ReceiptSigner_Any(c, q) == q.sig # None

\* The receipt is Gate's: signed, by a configured key, which is not this client's.
ReceiptSigner(c, q) == q.sig # None /\ q.sig.key \in c.verifying \ {c.key}

\* activate after the POST: parse_admission_payload and the missing actions.
ReceiptError(c, ask, r, at) ==
  LET raised == ReplyError(Verifying(c), r, at)
  IN  IF raised # None THEN raised
      ELSE IF ~ReceiptSigner(c, r.pkt) THEN "GateSecurityError"
      ELSE IF r.pkt.core.payload.status # "receipt" THEN "GateResponseError"
      ELSE IF ~(ask.required \subseteq r.pkt.core.payload.granted) THEN "GateAuthorizationError"
      ELSE None

-----------------------------------------------------------------------------
(* The dispatch transport.                                                  *)

\* _assert_gate_authored: the worker's own ingress law, with a route kind, and an
\* answer that comes back to Gate.
GateAuthored(g, p, target) ==
  /\ p.core.src = g.gate /\ p.core.dst = target
  /\ p.core.resolved /\ p.core.route = "external_ingress"
  /\ p.core.replyTo = g.gate

\* Variant for mutation: authority is not looked at.
DispatchError_Trusting(g, p, target, base, at) ==
  LET unsigned == SigningError(g, "GateDispatchConfigurationError", "GateDispatchSecurityError") IN
  IF ~base THEN "GateDispatchConfigurationError"
  ELSE IF unsigned # None THEN unsigned
  ELSE IF ~Valid(MaybeSign(g, p), ClientCheck(g, g.requireSig), at)
    THEN "GateDispatchSecurityError" ELSE None

\* send_gate_authored_packet up to the POST: the error it raises, or None.  base
\* says that the worker's base URL is one.  The deadline is p's own budget, which
\* a packet has (TransportHeader.timeout_ms).
DispatchError(g, p, target, base, at) ==
  LET unsigned == SigningError(g, "GateDispatchConfigurationError", "GateDispatchSecurityError") IN
  IF ~base THEN "GateDispatchConfigurationError"
  ELSE IF ~GateAuthored(g, p, target) THEN "GateDispatchAuthorityError"
  ELSE IF unsigned # None THEN unsigned
  ELSE IF ~Valid(MaybeSign(g, p), ClientCheck(g, g.requireSig), at)
    THEN "GateDispatchSecurityError" ELSE None

\* Variant for mutation: a canonical packet from a worker is its answer.
WorkerReplyError_AnyPacket(g, req, target, r, at) ==
  IF r.kind = "status" THEN "WorkerHTTPError"
  ELSE IF r.kind = "page" \/ ~HeaderOK(r.pkt.core) THEN "WorkerResponseError"
  ELSE IF ~Intact(r.pkt) \/ ~Valid(r.pkt, ClientCheck(g, g.verifyResp), at)
    THEN "GateDispatchSecurityError" ELSE None

\* send_gate_authored_packet after the POST of req: the error a reply raises, or None.
WorkerReplyError(g, req, target, r, at) ==
  IF r.kind = "status" THEN "WorkerHTTPError"
  ELSE IF r.kind = "page" \/ ~HeaderOK(r.pkt.core) THEN "WorkerResponseError"
  ELSE IF ~Intact(r.pkt) \/ ~Valid(r.pkt, ClientCheck(g, g.verifyResp), at)
    THEN "GateDispatchSecurityError"
  ELSE IF ~AnswersDispatch(r.pkt, req, target, g.gate) THEN "WorkerResponseError" ELSE None
=============================================================================

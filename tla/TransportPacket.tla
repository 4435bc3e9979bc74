--------------------------- MODULE TransportPacket ---------------------------
(***************************************************************************)
(* The canonical packet and the pure operations on it: construction of a   *)
(* child (derive), the hop journal (with_hop and the hop makers), signing, *)
(* validate_transport_packet, and the two routing laws a node and Gate     *)
(* apply to a packet.  No state: every other module is built from these.   *)
(*                                                                         *)
(* A packet is [core, restricted, hash, sig, hops].  The core holds every  *)
(* field that compute_transport_hash covers, so the hash of a packet is    *)
(* modelled as its core: SHA-256 taken as injective.  A signature is a key *)
(* and what it signed.  restricted is security.classification, which       *)
(* demands a signature and which the hash, and so the signature, leaves    *)
(* out (as it does encryption_status and pii_fields, which no check reads).*)
(*                                                                         *)
(* Of a delegation chain a packet has links, how many, and until, the      *)
(* earliest instant at which one expires; attached is its attachments.     *)
(* core.defects are the rules it breaks whenever it is looked at: an       *)
(* unknown schema, GDPR without a data subject, a delegation that widens   *)
(* its scope, or a mandate its last link does not give.                    *)
(***************************************************************************)
EXTENDS Integers, Sequences

CONSTANTS None,       \* Python's None
          Gate,       \* the node name of Gate (gate_node_name)
          Size(_)     \* transport_packet_size_bytes of a packet

\* The defaults of validate_transport_packet, which Gate and its clients keep.
CONSTANTS Skew,       \* allowed_clock_skew_seconds
          MaxBytes,   \* max_packet_bytes
          MaxHops,    \* max_hop_depth
          MaxLinks,   \* max_delegation_depth
          Attachable  \* the attachments that its three attachment limits let pass

ASSUME DefaultsAssumption ==
  Skew \in Nat /\ MaxBytes \in Nat /\ MaxHops \in Nat \ {0} /\ MaxLinks \in Nat

-----------------------------------------------------------------------------
(* Hashing, signing and the integrity checks of the packet constructor.    *)

TransportHash(core) == core

Unsigned(core, restricted) ==
  [core |-> core, restricted |-> restricted, hash |-> TransportHash(core), sig |-> None,
   hops |-> <<>>]

SignedBy(p, key) ==
  [p EXCEPT !.hash = TransportHash(p.core),
            !.sig = [key |-> key, over |-> TransportHash(p.core)]]

SignatureVerifies(p, keys) == p.sig.key \in keys /\ p.sig.over = p.hash

\* Variant for mutation: a start date must lie in the future.
HeaderOK_Strict(core) == /\ core.expires # None => core.expires > core.created
                         /\ core.notBefore # None => core.notBefore > core.created

\* TransportHeader.validate_header: a packet may not be born after it expires,
\* nor be valid before it is born.
HeaderOK(core) == /\ core.expires # None => core.expires > core.created
                  /\ core.notBefore # None => core.notBefore >= core.created

\* TransportPacket.validate_integrity.
Intact(p) == p.hash = TransportHash(p.core)

-----------------------------------------------------------------------------
(* derive(): the child of p born at time now.  Only what derive changes for *)
(* every caller; a caller overrides type, address, payload and provenance.  *)
(* The child keeps the deadlines, the replay mode, the keys that correlate  *)
(* an operation, the tenant, the delegations and the attachments, and, in   *)
(* the packet around it, the classification.                                *)

\* Variant for mutation: the cause is inherited with the rest of the header.
Child_NoCausation(p, id, now) ==
  [p.core EXCEPT !.id = id, !.created = now, !.parent = p.core.id, !.gen = @ + 1]

Child(p, id, now) ==
  [p.core EXCEPT !.id = id, !.created = now, !.cause = p.core.id,
                 !.parent = p.core.id, !.gen = @ + 1]

\* The child a node answers with: response or failure, addressed to reply_to.
AnswerCore(p, id, now, type, node, payload) ==
  [Child(p, id, now) EXCEPT !.type = type, !.src = node, !.dst = p.core.replyTo,
                            !.replyTo = node, !.payload = payload]

-----------------------------------------------------------------------------
(* The hop journal.                                                         *)

LastHopHash(p) == IF p.hops = <<>> THEN None ELSE p.hops[Len(p.hops)].hash

HopHash(hash, body) == <<hash, body>>

\* Variant for mutation: every hop is made as if it were the first.
MakeHop_Unchained(p, node, direction, status, error, now) ==
  LET body == [pid |-> p.core.id, node |-> node, direction |-> direction,
               status |-> status, error |-> error, ts |-> now, prev |-> None]
  IN  [body |-> body, hash |-> HopHash(p.hash, body)]

\* _finalize_hop: a hop bound to the packet's id, its hash and its last hop.
MakeHop(p, node, direction, status, error, now) ==
  LET body == [pid |-> p.core.id, node |-> node, direction |-> direction,
               status |-> status, error |-> error, ts |-> now, prev |-> LastHopHash(p)]
  IN  [body |-> body, hash |-> HopHash(p.hash, body)]

\* TransportHop.validate_hop: a failed hop names its error.
HopOK(hop) == hop.body.status = "failed" => hop.body.error # None

WithHop(p, hop) == [p EXCEPT !.hops = Append(@, hop)]

\* What validate_hop_trace says of the i-th hop: its first complaint, or "ok".
HopVerdict(p, i) ==
  LET hop == p.hops[i]
      prev == IF i = 1 THEN None ELSE p.hops[i - 1].hash
  IN  IF hop.body.pid # p.core.id THEN "TransportValidationError"
      ELSE IF hop.body.prev # prev \/ hop.hash # HopHash(p.hash, hop.body)
        THEN "TransportIntegrityError"
      ELSE IF i > 1 /\ hop.body.ts < p.hops[i - 1].body.ts
        THEN "TransportValidationError" ELSE "ok"

BadHops(p) == {i \in DOMAIN p.hops : HopVerdict(p, i) # "ok"}
ValidHopTrace(p) == BadHops(p) = {}
HopTraceError(p) ==
  IF ValidHopTrace(p) THEN "ok"
    ELSE HopVerdict(p, CHOOSE i \in BadHops(p) : \A j \in BadHops(p) : i <= j)

-----------------------------------------------------------------------------
(* validate_transport_packet.  v holds the parameters of one call: types,   *)
(* actions (None when unrestricted), node (None when not checked), skew,    *)
(* maxBytes, maxHops, maxLinks, attachable, idem, replay, dev, requireSig,  *)
(* and keys, what key_resolver can resolve ({} when it is None).  The       *)
(* checks, in the order of the code.                                        *)

\* _validate_delegation_chain.
DelegationOK(c, now) ==
  /\ "scopes" \notin c.defects
  /\ c.until # None => now <= c.until
  /\ c.type = "delegation" => "mandate" \notin c.defects

Checks(p, v, now) ==
  LET c == p.core IN
  << [bad |-> "schema" \in c.defects, error |-> "SchemaVersionError"],
     [bad |-> v.types # None /\ c.type \notin v.types, error |-> "TransportAuthorizationError"],
     [bad |-> v.actions # None /\ c.action \notin v.actions, error |-> "TransportAuthorizationError"],
     [bad |-> v.node # None /\ c.dst # v.node, error |-> "TransportAuthorizationError"],
     [bad |-> c.created > now + v.skew, error |-> "TransportValidationError"],
     [bad |-> Size(p) > v.maxBytes, error |-> "PacketSizeError"],
     [bad |-> \/ Len(p.hops) > v.maxHops \/ c.links > v.maxLinks
              \/ c.attached # None /\ c.attached \notin v.attachable,
      error |-> "TransportValidationError"],
     [bad |-> c.notBefore # None /\ now < c.notBefore, error |-> "TransportNotYetValidError"],
     [bad |-> c.expires # None /\ now > c.expires, error |-> "TransportExpiredError"],
     [bad |-> c.type = "replay_request" /\ ~c.replay, error |-> "TransportValidationError"],
     [bad |-> c.type = "replay_request" /\ ~v.replay, error |-> "TransportAuthorizationError"],
     [bad |-> c.replay /\ c.type # "replay_request", error |-> "TransportValidationError"],
     [bad |-> c.action \in v.idem /\ c.idem = None, error |-> "TransportValidationError"],
     [bad |-> "governance" \in c.defects \/ (p.restricted /\ ~c.audited),
      error |-> "TransportValidationError"],
     [bad |-> ~DelegationOK(c, now), error |-> "TransportAuthorizationError"],
     [bad |-> IF p.sig = None THEN (v.requireSig \/ p.restricted) /\ ~v.dev
                ELSE ~(v.dev /\ v.keys = {}) /\ ~SignatureVerifies(p, v.keys),
      error |-> "TransportAuthenticationError"],
     [bad |-> ~ValidHopTrace(p), error |-> HopTraceError(p)] >>

Failing(p, v, now) == {i \in 1..17 : Checks(p, v, now)[i].bad}
Valid(p, v, now) == Failing(p, v, now) = {}
Verdict(p, v, now) ==
  Checks(p, v, now)[CHOOSE i \in Failing(p, v, now) : \A j \in Failing(p, v, now) : i <= j].error

-----------------------------------------------------------------------------
(* The routing laws.                                                        *)

\* runtime/inbound_policy.py: what a node accepts on /v1/execute and /v1/relay.
GateMediated(p, node, kind, requireRoute) ==
  /\ p.core.src = Gate
  /\ p.core.dst = node
  /\ p.core.resolved
  /\ IF p.core.route = None THEN ~requireRoute ELSE p.core.route = kind

\* _assert_response_answers_dispatch: resp is the answer of target to req, for gate.
AnswersDispatch(resp, req, target, gate) ==
  /\ resp.core.src = target
  /\ resp.core.dst = gate
  /\ resp.core.action = req.core.action
  /\ resp.core.root = req.core.root
  /\ resp.core.cause = req.core.id
  /\ resp.core.tenant = req.core.tenant
  /\ resp.core.corr = req.core.corr
  /\ resp.core.idem = req.core.idem
=============================================================================

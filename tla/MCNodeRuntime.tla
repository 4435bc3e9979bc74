---------------------------- MODULE MCNodeRuntime ----------------------------
(***************************************************************************)
(* Instances of NodeRuntime for TLC: a worker "worker", Gate "gate" with   *)
(* the key "k", one action "act", and the packets and configurations that  *)
(* tell the rules apart.                                                   *)
(***************************************************************************)
EXTENDS NodeRuntime

-----------------------------------------------------------------------------
(* Packets.  Those that were sent carry Gate's dispatch hop.  A packet has  *)
(* the size its payload says, and one more for each hop.                    *)

Sized(n) == [status |-> "completed", error |-> None, size |-> n]
MCSize(p) ==
  Len(p.hops) + (IF "size" \in DOMAIN p.core.payload THEN p.core.payload.size ELSE 0)

Core == [id |-> <<"gate", 0>>, type |-> "request", action |-> "act", created |-> 0,
         expires |-> None, notBefore |-> None, timeout |-> 1, idem |-> None, corr |-> "corr",
         cause |-> <<"client", 0>>, replay |-> FALSE, src |-> Gate, dst |-> Node,
         replyTo |-> Gate, tenant |-> "org", payload |-> Payload("completed", None),
         resolved |-> TRUE, route |-> "external_ingress", parent |-> <<"client", 0>>,
         root |-> <<"client", 0>>, gen |-> 1, audited |-> FALSE, links |-> 0,
         until |-> None, attached |-> None, defects |-> {}]

Hopped(p, ts) == WithHop(p, MakeHop(p, Gate, "dispatch", "delegated", None, ts))
Plainly(core) == Unsigned(core, FALSE)
Sent(core) == Hopped(SignedBy(Plainly(core), "k"), 0)
Relay == [Core EXCEPT !.route = "gate_relay"]
Signed == Sent(Core)

\* Authentication: every way a signature and a routing claim can be wrong.
AuthInbound ==
  { Signed, Sent(Relay),
    Plainly(Core), Plainly(Relay),
    SignedBy(Plainly(Core), "other"),
    [Signed EXCEPT !.restricted = TRUE],
    [Signed EXCEPT !.sig.over = Relay],
    [Signed EXCEPT !.core.payload.status = "failed"],
    Sent([Core EXCEPT !.src = "client"]),
    Sent([Core EXCEPT !.resolved = FALSE]),
    Sent([Core EXCEPT !.route = None]) }

\* Dates: what expires, has not started, or was hopped by a faster clock.
DatedInbound ==
  { Signed,
    Sent([Core EXCEPT !.expires = 1]),
    Sent([Core EXCEPT !.expires = 2]),
    Sent([Core EXCEPT !.notBefore = 1]),
    Sent([Core EXCEPT !.created = 2]),
    Hopped(SignedBy(Plainly(Core), "k"), 1),
    Sent([Core EXCEPT !.links = 1, !.until = 0]), Sent([Core EXCEPT !.links = 1, !.until = 1]) }

\* Rules and ceilings.
RuledInbound ==
  { Signed,
    Hopped(Signed, 0),
    [Signed EXCEPT !.hops[1].body.prev = <<"x">>],
    [Signed EXCEPT !.hops[1].body.pid = <<"client", 0>>],
    [Signed EXCEPT !.hops[1].body.node = "other"],
    Sent([Core EXCEPT !.type = "event"]),
    Sent([Core EXCEPT !.action = "unknown"]),
    Sent([Core EXCEPT !.action = "keyed"]),
    Sent([Core EXCEPT !.action = "keyed", !.idem = "key"]),
    Sent([Core EXCEPT !.type = "replay_request", !.replay = TRUE]),
    Sent([Core EXCEPT !.type = "replay_request"]),
    Sent([Core EXCEPT !.replay = TRUE]),
    [Signed EXCEPT !.restricted = TRUE],
    [Sent([Core EXCEPT !.audited = TRUE]) EXCEPT !.restricted = TRUE],
    Unsigned([Core EXCEPT !.audited = TRUE], TRUE),
    Sent([Core EXCEPT !.payload = Sized(3)]),
    Sent([Core EXCEPT !.links = 2]),
    Sent([Core EXCEPT !.attached = "doc"]),
    Sent([Core EXCEPT !.type = "delegation", !.links = 1]),
    Sent([Core EXCEPT !.type = "delegation", !.links = 1, !.defects = {"mandate"}]) }
  \cup {Sent([Core EXCEPT !.defects = {defect}]) :
          defect \in {"schema", "governance", "scopes", "mandate"}}

AnswerInbound == DatedInbound \cup RuledInbound
SignedOnly == {Signed}
ExpiringInbound == {Signed, Sent([Core EXCEPT !.expires = 1])}

\* An answer the handler got from Gate for work of its own.
Foreign == SignedBy(Plainly([Core EXCEPT !.id = <<"gate", 9>>, !.type = "response",
                                          !.dst = Node, !.cause = <<"worker", 9>>]), "k")
MCElsewhere == {Foreign, [Foreign EXCEPT !.core.payload = Payload("failed", "ValueError"),
                                         !.hash.payload = Payload("failed", "ValueError")]}

\* What a handler returns: a result, a failure, and more than Gate takes.
MCResults == {Payload("completed", None), Payload("failed", None), Sized(2)}
OneResult == {Payload("completed", None)}

-----------------------------------------------------------------------------
(* Configurations.                                                          *)

Profile == [prod |-> TRUE, dev |-> FALSE, requireSig |-> TRUE, execSig |-> None,
            relaySig |-> None, alg |-> "hmac-sha256", key |-> "k", keyId |-> TRUE,
            verifying |-> {}, unloadable |-> None, actions |-> {"act", "keyed"},
            execActions |-> {}, relayActions |-> {}, execTypes |-> {}, relayTypes |-> {"request"},
            types |-> {"request", "replay_request", "delegation"}, idem |-> {"keyed"},
            replay |-> TRUE, enforce |-> TRUE, relay |-> TRUE, requireRoute |-> TRUE,
            returnErrors |-> TRUE, expose |-> FALSE, skew |-> 1, maxBytes |-> 3, maxHops |-> 1,
            maxLinks |-> 1, attachable |-> {}]

\* Every combination of the signature switches, with each way to hold keys.
AuthConfigs ==
  {[Profile EXCEPT !.prod = ~dev, !.dev = dev, !.requireSig = all, !.execSig = exec,
                   !.relaySig = rel, !.alg = keys[1], !.key = keys[2], !.verifying = keys[3],
                   !.enforce = enforce, !.relay = route, !.requireRoute = ~route] :
     dev \in BOOLEAN, all \in BOOLEAN, exec \in {None, TRUE, FALSE}, rel \in {None, TRUE, FALSE},
     keys \in {<<"hmac-sha256", "k", {}>>, <<"hmac-sha256", None, {"k"}>>,
               <<"ed25519", "k", {"k"}>>, <<"ed25519", "k", {}>>},
     enforce \in BOOLEAN, route \in BOOLEAN}

AnswerConfigs ==
  {Profile,
   [Profile EXCEPT !.returnErrors = FALSE],
   [Profile EXCEPT !.keyId = FALSE],
   [Profile EXCEPT !.expose = TRUE],
   [Profile EXCEPT !.maxBytes = 5, !.maxHops = 2, !.maxLinks = 2, !.attachable = {"doc"}],
   [Profile EXCEPT !.alg = "ed25519", !.verifying = {"k"}],
   [Profile EXCEPT !.alg = "ed25519", !.verifying = {"k"}, !.returnErrors = FALSE,
                   !.unloadable = "TransportAuthenticationError"],
   [Profile EXCEPT !.alg = "ed25519", !.verifying = {"k"}, !.unloadable = "ValueError"],
   [Profile EXCEPT !.prod = FALSE, !.dev = TRUE, !.requireSig = FALSE, !.key = None,
                   !.enforce = FALSE, !.replay = FALSE]}

OneConfig == {Profile}
\* One route, and bare HTTP errors.
PlainConfig == {[Profile EXCEPT !.relay = FALSE, !.returnErrors = FALSE]}
=============================================================================

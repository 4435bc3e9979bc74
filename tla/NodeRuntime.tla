----------------------------- MODULE NodeRuntime -----------------------------
(***************************************************************************)
(* One worker node: the HTTP routes POST /v1/execute and /v1/relay of      *)
(* create_node_app, the handler registry, and execute_transport_packet.    *)
(*                                                                         *)
(* The node is one process with one event loop.  A request is an await     *)
(* point apart from the others only while its handler is suspended: from   *)
(* the body to the handler's call, and from the handler's end to the       *)
(* answer, the code does not await, so each is one action.  A handler      *)
(* declared with "def" never suspends: it holds the loop until it returns. *)
(* One that suspends either ends at once when wait_for cancels it, or has  *)
(* cleanup to await first, at the end of which it may do anything.         *)
(***************************************************************************)
EXTENDS TransportPacket, FiniteSets

CONSTANTS
  Node,          \* this node's name (node_name)
  Requests,      \* HTTP requests, one at a time each
  Actions,       \* packet actions
  AnyAction,     \* the registry's fallback key "*"
  HandlerKinds,  \* how handlers are written: a subset of {"async", "cleanup", "sync"}
  Configs,       \* the NodeRuntimeConfig values somebody writes
  Inbound,       \* the packets that arrive
  Elsewhere,     \* packets a handler may hold from another exchange
  Results,       \* the payloads a handler may return: records with a status
  Raised,        \* the exceptions a handler may raise
  MaxTime,       \* bound: the last instant of the clock
  LastArrival    \* bound: the last instant a request arrives

ASSUME RuntimeAssumption ==
  /\ MaxTime \in Nat
  /\ LastArrival \in Nat
  /\ AnyAction \notin Actions
  /\ HandlerKinds \subseteq {"async", "cleanup", "sync"}
  /\ None \notin Inbound
  /\ \A p \in Inbound :
       /\ DOMAIN p = {"core", "restricted", "hash", "sig", "hops"}
       /\ p.core.action \in Actions
       /\ p.hops \in Seq({p.hops[i] : i \in DOMAIN p.hops})
       /\ \A i \in DOMAIN p.hops : p.hops[i].body.ts \in Int

\* The ranges of the configuration's fields, and what the header's fields hold.
ASSUME FieldAssumption ==
  /\ \A c \in Configs :
       /\ c.skew \in Nat /\ c.maxBytes \in Nat
       /\ c.maxHops \in Nat \ {0} /\ c.maxLinks \in Nat \ {0}
  /\ \A p \in Inbound :
       /\ {"id", "type", "action", "created", "expires", "notBefore", "timeout", "idem",
           "corr", "cause", "replay", "src", "dst", "replyTo", "tenant", "payload",
           "parent", "root", "gen", "audited", "links", "until", "attached", "defects"}
            \subseteq DOMAIN p.core
       /\ p.core.timeout \in Nat \ {0} /\ p.core.links \in Nat
       /\ {p.core.expires, p.core.notBefore, p.core.until} \subseteq Int \cup {None}

VARIABLES
  now,       \* the node's clock
  cfg,       \* the configuration the node started with
  handlers,  \* _HANDLER_REGISTRY
  req        \* the requests in flight and answered

vars == <<now, cfg, handlers, req>>

-----------------------------------------------------------------------------
(* Configuration: what the model validator and the preflight let start.    *)

Or(first, second) == IF first # None THEN first ELSE second
OrSet(first, second) ==
  IF first # {} THEN first ELSE IF second # {} THEN second ELSE None

\* NodeRuntimeConfig.validate_security_profile.
ConfigValid(c) ==
  /\ ~(c.prod /\ c.dev)
  /\ c.requireSig => c.key # None
  /\ c.idem \subseteq (IF c.execActions # {} THEN c.execActions ELSE c.actions)

\* _resolve_route_validation: what one route asks of a packet.
RequireSignature(c, route) ==
  Or(IF route = "relay" THEN c.relaySig ELSE c.execSig, c.requireSig)
AllowedActions(c, route) ==
  OrSet(IF route = "relay" THEN c.relayActions ELSE c.execActions, c.actions)
AllowedTypes(c, route) ==
  OrSet(IF route = "relay" THEN c.relayTypes ELSE c.execTypes, c.types)

\* Variant for mutation: the relay route is forgotten.
IngressAuthenticated_ExecuteOnly(c) ==
  ~c.dev /\ c.enforce => RequireSignature(c, "execute")

\* _validate_gate_ingress_authentication.
IngressAuthenticated(c) ==
  ~c.dev /\ c.enforce =>
    /\ RequireSignature(c, "execute")
    /\ c.relay => RequireSignature(c, "relay")

Startable(c) == ConfigValid(c) /\ IngressAuthenticated(c)

\* _build_key_resolver over what the app passes: an Ed25519 key only signs.
VerifyingKeys(c) ==
  IF c.verifying # {} THEN c.verifying
    ELSE IF c.alg = "hmac-sha256" /\ c.key # None THEN {c.key} ELSE {}

\* The validation parameters of one request.
RouteCheck(c, route) ==
  [types |-> AllowedTypes(c, route), actions |-> AllowedActions(c, route), node |-> Node,
   skew |-> c.skew, maxBytes |-> c.maxBytes, maxHops |-> c.maxHops, maxLinks |-> c.maxLinks,
   attachable |-> c.attachable, idem |-> c.idem, replay |-> c.replay, dev |-> c.dev,
   requireSig |-> RequireSignature(c, route), keys |-> VerifyingKeys(c)]

RouteKind(route) == IF route = "relay" THEN "gate_relay" ELSE "external_ingress"

\* validate_execute_ingress_packet and validate_relay_ingress_packet.
IngressOK(c, p, route) ==
  /\ GateMediated(p, Node, RouteKind(route), c.requireRoute)
  /\ route = "relay" =>
       /\ AllowedActions(c, route) # None => p.core.action \in AllowedActions(c, route)
       /\ AllowedTypes(c, route) # None => p.core.type \in AllowedTypes(c, route)

-----------------------------------------------------------------------------
(* Requests.                                                                *)

NoAnswer == [kind |-> "none", pkt |-> None, code |-> 0, at |-> 0]
Idle == [pc |-> "idle", pkt |-> None, route |-> "execute", handler |-> None,
         since |-> 0, cancelled |-> None, outcome |-> "none", answer |-> NoAnswer]

Running(r) == req[r].pc = "running"
Deadline(r) == req[r].since + req[r].pkt.core.timeout

\* The loop is held by a handler that does not suspend.
Blocked == \E r \in Requests : Running(r) /\ req[r].handler = "sync"
\* A handler that wait_for may still cancel.
Cancellable(r) == Running(r) /\ req[r].handler # "sync" /\ req[r].cancelled = None

\* Variants for mutation: the timer goes off one instant late, or is never set.
Due_Late(r) == Cancellable(r) /\ now > Deadline(r)
Due_Never(r) == FALSE

\* asyncio.wait_for's timer of r has gone off.
Due(r) == Cancellable(r) /\ now >= Deadline(r)

\* Variant for mutation: the hashes are not compared.
Decodable_Unchecked(p) == HeaderOK(p.core) /\ \A i \in DOMAIN p.hops : HopOK(p.hops[i])

\* TransportPacket.model_validate accepts the body.
Decodable(p) == /\ HeaderOK(p.core)
                /\ Intact(p)
                /\ \A i \in DOMAIN p.hops : HopOK(p.hops[i])

\* get_handler.
HandlerFor(action) == IF handlers[action] # None THEN handlers[action] ELSE handlers[AnyAction]

\* A decoded packet reaches a handler: ingress law, validation, registry.
Admits(p, route) ==
  /\ cfg.enforce => IngressOK(cfg, p, route)
  /\ Valid(p, RouteCheck(cfg, route), now)
  /\ HandlerFor(p.core.action) # None

\* The exception that a packet which does not reach one meets first.
Refusal(p, route) ==
  IF cfg.enforce /\ ~IngressOK(cfg, p, route) THEN "ValueError"
  ELSE IF ~Valid(p, RouteCheck(cfg, route), now) THEN Verdict(p, RouteCheck(cfg, route), now)
  ELSE "ValueError"

\* The packet a handler is given: the request with the execution hop.
Processing(p, at) == WithHop(p, MakeHop(p, Node, "execution", "processing", None, at))

-----------------------------------------------------------------------------
(* Answers.                                                                 *)

Payload(status, error) == [status |-> status, error |-> error]
Http(code) == [kind |-> "http", pkt |-> None, code |-> code, at |-> now]
Packet(p) == [kind |-> "packet", pkt |-> p, code |-> 200, at |-> now]

\* classify_exception.
StatusOf(error) ==
  CASE error = "TransportAuthenticationError" -> 401
    [] error = "TransportAuthorizationError" -> 403
    [] error \in {"TransportExpiredError", "TransportNotYetValidError"} -> 409
    [] error \in {"ValueError", "ValidationError", "TransportValidationError",
                  "TransportIntegrityError", "PacketSizeError", "SchemaVersionError"} -> 400
    [] error = "TimeoutError" -> 504
    [] OTHER -> 500

\* The exceptions a failure may report: a handler's, and those the node raises itself.
Reported == Raised \cup
  {"TypeError", "TimeoutError", "ValueError", "ValidationError", "SchemaVersionError",
   "PacketSizeError", "TransportValidationError", "TransportIntegrityError",
   "TransportAuthenticationError", "TransportAuthorizationError", "TransportExpiredError",
   "TransportNotYetValidError"}

\* The cores of the answers the SDK builds, and that a signature of one is not None.
AnswerCores ==
  {AnswerCore(p, <<r, n>>, at, type, Node, payload) :
     p \in Inbound, r \in Requests, n \in {1, 2}, at \in 0..MaxTime,
     type \in {"response", "failure"},
     payload \in Results \cup {Payload("failed", error) : error \in Reported}}

ASSUME SignatureAssumption ==
  None \notin [key : {c.key : c \in Configs}, over : AnswerCores]

\* What signing an answer raises, if anything: the key has no id, or it is no
\* Ed25519 key (_load_ed25519_private_key).
SignError(c) ==
  IF c.key = None THEN None ELSE IF ~c.keyId THEN "ValueError" ELSE c.unloadable
Sign(p) == IF cfg.key = None THEN p ELSE SignedBy(p, cfg.key)

\* Variant for mutation: a failure is answered as a response.
FailureAnswer_AsResponse(r, p, error, blank) ==
  LET q == Unsigned(AnswerCore(p, <<r, 2>>, now, "response", Node, Payload("failed", error)),
                    p.restricted)
  IN  Packet(Sign(WithHop(q, MakeHop(q, Node, "response", "failed", error, now))))

\* create_error_transport_packet, and the route's except clause around it: when
\* the failure packet cannot be built, its exception leaves the route as a 500.
\* A hop names no blank message, so an exposed one must not be blank.
FailureAnswer(r, p, error, blank) ==
  LET core == AnswerCore(p, <<r, 2>>, now, "failure", Node, Payload("failed", error))
      q == Unsigned(core, p.restricted)
  IN  IF ~cfg.returnErrors THEN Http(StatusOf(error))
      ELSE IF HeaderOK(core) /\ ~(cfg.expose /\ blank) /\ SignError(cfg) = None
        THEN Packet(Sign(WithHop(q, MakeHop(q, Node, "response", "failed", error, now))))
        ELSE Http(500)

\* The end of execute_transport_packet: q is the packet the node answers p with.
\* A payload whose status is "failed" makes a failed hop, and none names its error.
Respond(r, p, q) ==
  LET hop == MakeHop(q, Node, "response",
                     q.core.payload.status, None, now)
  IN  IF ~HopOK(hop) THEN FailureAnswer(r, p, "ValidationError", FALSE)
      ELSE IF SignError(cfg) # None THEN FailureAnswer(r, p, SignError(cfg), FALSE)
      ELSE Packet(Sign(WithHop(q, hop)))

Answer(r, outcome, answer) ==
  /\ req' = [req EXCEPT ![r].pc = "done", ![r].outcome = outcome, ![r].answer = answer]
  /\ UNCHANGED <<now, cfg, handlers>>

-----------------------------------------------------------------------------
(* Initial state and actions.                                              *)

Init ==
  /\ now = 0
  /\ cfg \in {c \in Configs : Startable(c)}
  /\ handlers = [a \in Actions \cup {AnyAction} |-> None]
  /\ req = [r \in Requests |-> Idle]

\* Variant for mutation: a registration forgets the other handlers.
RegisterHandler_Alone(a, kind) ==
  /\ handlers' = [b \in {a} |-> kind]
  /\ UNCHANGED <<now, cfg, req>>

\* register_handler: a later registration replaces an earlier one.
RegisterHandler(a, kind) ==
  /\ handlers' = [handlers EXCEPT ![a] = kind]
  /\ UNCHANGED <<now, cfg, req>>

\* clear_handlers.
ClearHandlers ==
  /\ handlers' = [a \in Actions \cup {AnyAction} |-> None]
  /\ UNCHANGED <<now, cfg, req>>

\* A request reaches a route that exists while the loop is free.
Arrives(r, route) ==
  /\ req[r].pc = "idle"
  /\ now <= LastArrival
  /\ ~Blocked
  /\ route = "relay" => cfg.relay

\* A request answered without its handler being called.
Turned(r, p, route, answer) ==
  /\ req' = [req EXCEPT ![r] = [Idle EXCEPT !.pc = "done", !.pkt = p, !.route = route,
                                            !.since = now, !.outcome = "refused",
                                            !.answer = answer]]
  /\ UNCHANGED <<now, cfg, handlers>>

\* The body is no packet: no packet can answer it.
RejectBody(r, p, route) ==
  /\ Arrives(r, route)
  /\ ~Decodable(p)
  /\ Turned(r, p, route, Http(400))

\* Ingress law, validation or the registry refuses the packet.
Refuse(r, p, route) ==
  /\ Arrives(r, route)
  /\ Decodable(p)
  /\ ~Admits(p, route)
  /\ Turned(r, p, route, FailureAnswer(r, p, Refusal(p, route), FALSE))

\* The packet is accepted and its handler called.
Start(r, p, route) ==
  /\ Arrives(r, route)
  /\ Decodable(p)
  /\ Admits(p, route)
  /\ req' = [req EXCEPT ![r] = [Idle EXCEPT !.pc = "running", !.pkt = p, !.route = route,
                                            !.handler = HandlerFor(p.core.action),
                                            !.since = now]]
  /\ UNCHANGED <<now, cfg, handlers>>

\* The handler of r has the loop: it holds it, or nothing else does.
OnLoop(r) == Running(r) /\ (Blocked => req[r].handler = "sync")

\* The handler returns a dict.  Nothing looks at the size of the answer.
ReturnDict(r, payload) ==
  LET p == req[r].pkt
      core == AnswerCore(p, <<r, 1>>, now, "response", Node, payload)
  IN  /\ OnLoop(r)
      /\ Answer(r, "returned",
                IF HeaderOK(core) THEN Respond(r, p, Unsigned(core, p.restricted))
                                  ELSE FailureAnswer(r, p, "ValidationError", FALSE))

\* The handler returns a packet it holds from another exchange, or the packet
\* it was given.
ReturnPacket(r, q) ==
  /\ OnLoop(r)
  /\ Answer(r, "forwarded", Respond(r, req[r].pkt, q))

ReturnRequest(r) ==
  /\ OnLoop(r)
  /\ Answer(r, "forwarded", Respond(r, req[r].pkt, Processing(req[r].pkt, req[r].since)))

\* The handler raises, with a message or a blank one, or returns what is neither a
\* packet nor a dict JSON can hold (TypeError, ValueError).  A TimeoutError is
\* replaced by one with a message.
RaiseError(r, error, blank) ==
  /\ OnLoop(r)
  /\ blank => error # "TimeoutError"
  /\ Answer(r, IF blank THEN "blank" ELSE "raised", FailureAnswer(r, req[r].pkt, error, blank))

HandlerEnds(r) ==
  \/ \E payload \in Results : ReturnDict(r, payload)
  \/ \E q \in Elsewhere : ReturnPacket(r, q)
  \/ ReturnRequest(r)
  \/ \E error \in Raised \cup {"TypeError", "ValueError"}, blank \in BOOLEAN :
       RaiseError(r, error, blank)

TimeoutAnswer(r) ==
  Answer(r, "timeout", FailureAnswer(r, req[r].pkt, "TimeoutError", FALSE))

\* asyncio.wait_for cancels a suspended handler at its deadline, and it ends.
TimeOut(r) ==
  /\ Due(r) /\ ~Blocked /\ req[r].handler = "async"
  /\ TimeoutAnswer(r)

\* Or it awaits its cleanup first, and wait_for awaits the handler.  It may
\* still return or raise (HandlerEnds), if it swallows its cancellation.
Cancel(r) ==
  /\ Due(r) /\ ~Blocked /\ req[r].handler = "cleanup"
  /\ req' = [req EXCEPT ![r].cancelled = now]
  /\ UNCHANGED <<now, cfg, handlers>>

\* The cleanup is over and the cancellation takes its course.
EndCancelled(r) ==
  /\ OnLoop(r) /\ req[r].cancelled # None
  /\ TimeoutAnswer(r)

\* Time passes.  A free loop runs a timer that is due before it waits again.
Tick ==
  /\ now < MaxTime
  /\ Blocked \/ \A r \in Requests : ~Due(r)
  /\ now' = now + 1
  /\ UNCHANGED <<cfg, handlers, req>>

Handle(r) ==
  \/ \E p \in Inbound, route \in {"execute", "relay"} :
       RejectBody(r, p, route) \/ Refuse(r, p, route) \/ Start(r, p, route)
  \/ HandlerEnds(r)
  \/ TimeOut(r) \/ Cancel(r) \/ EndCancelled(r)

Next ==
  \/ \E r \in Requests : Handle(r)
  \/ \E a \in Actions \cup {AnyAction}, kind \in HandlerKinds : RegisterHandler(a, kind)
  \/ ClearHandlers
  \/ Tick

Spec == Init /\ [][Next]_vars

\* Time passes, a due timer is run, and a handler that holds the loop returns:
\* nothing else is assumed, in particular that a suspended handler ever returns or
\* a cancelled one ends its cleanup.
FairSpec ==
  /\ Spec
  /\ WF_vars(Tick)
  /\ \A r \in Requests : WF_vars(TimeOut(r) \/ Cancel(r))
  /\ \A r \in Requests : WF_vars(req[r].handler = "sync" /\ HandlerEnds(r))

-----------------------------------------------------------------------------
(* Properties.                                                              *)

Answered(r) == req[r].pc = "done"
Executed(r) == Running(r) \/ (Answered(r) /\ req[r].outcome # "refused")
AnswerPacket(r) == req[r].answer.pkt
ByPacket(r) == Answered(r) /\ req[r].answer.kind = "packet"

\* Every variable has its type.
TypeOK ==
  /\ now \in 0..MaxTime
  /\ cfg \in Configs
  /\ handlers \in [Actions \cup {AnyAction} -> HandlerKinds \cup {None}]
  /\ DOMAIN req = Requests
  /\ \A r \in Requests :
       /\ DOMAIN req[r] = DOMAIN Idle
       /\ req[r].pc \in {"idle", "running", "done"}
       /\ req[r].pkt \in Inbound \cup {None}
       /\ req[r].pkt = None <=> req[r].pc = "idle"
       /\ req[r].route \in {"execute", "relay"}
       /\ req[r].handler \in HandlerKinds \cup {None}
       /\ req[r].since \in 0..now /\ req[r].cancelled \in (0..now) \cup {None}
       /\ req[r].answer.kind \in {"none", "http", "packet"}
       /\ req[r].answer.kind = "none" <=> req[r].pc # "done"
       /\ req[r].answer.at \in 0..now

\* A node that trusts Gate's routing claims runs a handler only for a packet
\* whose signature verifies and which Gate addressed to it, on either route and
\* whatever the per-route overrides say (preflight, ingress law and validation
\* taken together).
AuthenticatedExecution ==
  cfg.enforce /\ ~cfg.dev =>
    \A r \in Requests : Executed(r) =>
      /\ req[r].pkt.sig # None
      /\ SignatureVerifies(req[r].pkt, VerifyingKeys(cfg))
      /\ GateMediated(req[r].pkt, Node, RouteKind(req[r].route), cfg.requireRoute)

\* The hop journal a handler is given is valid when the packet's last hop is not
\* ahead of this node's clock: the execution hop extends the chain.
ProcessingTraceValid ==
  \A r \in Requests :
    LET hops == req[r].pkt.hops
    IN  Running(r) /\ (hops = <<>> \/ hops[Len(hops)].body.ts <= req[r].since) =>
          ValidHopTrace(Processing(req[r].pkt, req[r].since))

\* What Gate checks of an answer (the dispatch transport's inbound validation).
GateView ==
  [types |-> None, actions |-> None, node |-> None, skew |-> Skew, maxBytes |-> MaxBytes,
   maxHops |-> MaxHops, maxLinks |-> MaxLinks, attachable |-> Attachable, idem |-> {},
   replay |-> TRUE, dev |-> cfg.key = None, requireSig |-> cfg.key # None,
   keys |-> IF cfg.key = None THEN {} ELSE {cfg.key}]

\* A dispatch that Gate's own check of it passes whatever its size and the time,
\* without start date or replay mode, to be answered to Gate.
Plain(p) ==
  /\ p.core.defects = {} /\ p.core.notBefore = None /\ ~p.core.replay
  /\ p.core.links <= MaxLinks /\ (p.core.attached # None => p.core.attached \in Attachable)
  /\ p.restricted => p.core.audited
  /\ p.core.replyTo = Gate

\* The answers the SDK itself builds, for a result, a refusal, an exception or a
\* timeout, answer the request they are for, and pass Gate's validation except in
\* two cases the node does not look at before it sends them: the answer is larger
\* than Gate takes, or a delegation it inherits has expired while the handler ran.
AnswersAccepted ==
  \A r \in Requests :
    LET a == AnswerPacket(r)
        until == req[r].pkt.core.until
    IN  ByPacket(r) /\ req[r].outcome # "forwarded" /\ Plain(req[r].pkt) =>
          /\ AnswersDispatch(a, req[r].pkt, Node, Gate)
          /\ Valid(a, GateView, req[r].answer.at) <=>
               ~(Size(a) > MaxBytes) /\ (until # None => req[r].answer.at <= until)

\* With return_transport_errors the node answers a packet, never a bare HTTP
\* error, unless the body was no packet, the node cannot sign, the handler's
\* exception has a blank message that is to be exposed, or the request's own
\* dates forbid a child at the instant of the answer.
HttpOnlyWhenNoPacketCanBe ==
  \A r \in Requests :
    Answered(r) /\ req[r].answer.kind = "http" /\ cfg.returnErrors =>
      \/ ~Decodable(req[r].pkt)
      \/ SignError(cfg) # None
      \/ cfg.expose /\ req[r].outcome = "blank"
      \/ req[r].pkt.core.expires # None /\ req[r].pkt.core.expires <= req[r].answer.at
      \/ req[r].pkt.core.notBefore # None /\ req[r].pkt.core.notBefore < req[r].answer.at

\* The loop was held at the instant t, when it was to go on to the next.
HeldAt(t) ==
  \E s \in Requests :
    /\ req[s].handler = "sync" /\ req[s].since <= t
    /\ Running(s) \/ t < req[s].answer.at

\* The instant until which the handler of r had its own way.
Until(r) == IF req[r].cancelled # None THEN req[r].cancelled
            ELSE IF Answered(r) THEN req[r].answer.at ELSE now

\* A handler overruns its budget only as long as some handler holds the loop: at
\* every instant from its deadline until it ends or is cancelled, one did.  (One
\* that has cleanup to await answers as much later as its cleanup takes.)
LateOnlyBehindSync ==
  \A r \in Requests : Executed(r) => \A t \in Deadline(r)..(Until(r) - 1) : HeldAt(t)

\* Every request whose handler was called is answered, though a suspended handler
\* may never return (asyncio.wait_for); or its handler was cancelled, and then it
\* is answered when that lets its cleanup end, which wait_for waits for.
EveryRequestAnswered ==
  \A r \in Requests : Running(r) ~> Answered(r) \/ req[r].cancelled # None

-----------------------------------------------------------------------------
(* What the documents say, and the code does not do.                        *)

\* ARCHITECTURE.md: execute handler, then derive response/failure packet.
ExecutedIsAnswered ==
  \A r \in Requests : Answered(r) /\ Executed(r) /\ cfg.returnErrors => ByPacket(r)
=============================================================================

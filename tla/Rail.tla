-------------------------------- MODULE Rail --------------------------------
(***************************************************************************)
(* One call from end to end: an application calls execute or activate of a *)
(* GateClient; Gate receives the POST, and dispatches it through the SDK's *)
(* GateDispatchTransport to a worker, which is the node runtime of         *)
(* NodeRuntime; the worker's answer goes back to Gate and Gate's to the    *)
(* application.                                                            *)
(*                                                                         *)
(* Gate and the network are external.  Gate is a process that uses the     *)
(* dispatch transport: it derives the dispatch from the call, with the     *)
(* budget that is left (docs/gate-authority-transport.md), or refuses the  *)
(* call, or answers a probe with a receipt.  What it derives may be wrong, *)
(* or add a delegation or an audit (setup.slip): what the transport then   *)
(* does is the SDK's.  On each of the four legs a message may be slow,     *)
(* never arrive or arrive damaged, and it arrives whether its sender still *)
(* waits or not.  The worker's clock may differ from the other's.          *)
(***************************************************************************)
EXTENDS GateExchange, FiniteSets

CONSTANTS
  Node,        \* the worker Gate resolves
  Actions,     \* the actions of calls
  AnyAction,   \* the worker's fallback handler
  Setups,      \* [action, ask, client, authority, base, slip, granted, pool,
               \*  worker, handlers, drift] of a call
  Elsewhere,   \* packets the worker's handler may hold from another exchange
  Results,     \* the payloads the worker's handler may return
  MaxTime,     \* bound: the clock's last instant, but for a running deadline
  LastArrival, \* bound: the last instant a dispatch reaches the worker's route
  MaxFaults    \* bound: the kinds of fault after which the wire damages nothing more

\* The fields Gate may get wrong in a dispatch, or add to it.
SlipFields == {"src", "dst", "replyTo", "resolved", "route", "links", "until", "audited"}

ASSUME RailAssumption ==
  /\ None \notin GateErrors \cup DispatchErrors \cup Untyped
       \cup {"external_ingress", "TransportAuthenticationError"}
  /\ MaxTime \in Nat /\ LastArrival \in Nat /\ MaxFaults \in Nat
  /\ Admission \notin Actions
  /\ \A payload \in Results :
       "status" \in DOMAIN payload /\ payload.status \in {"completed", "failed"}
  /\ \A w \in Setups :
       /\ w.action \in Actions \cup {Admission}
       /\ "status" \in DOMAIN w.ask.payload
       \* activate has no arguments for these.
       /\ w.action = Admission => ~w.ask.restricted /\ w.ask.idem = None /\ w.ask.serialisable
       /\ {w.client.unloadable, w.authority.unloadable, w.worker.unloadable}
            \subseteq {None, "TransportAuthenticationError", "ValueError"}
       /\ DOMAIN w.slip \subseteq SlipFields
       /\ "until" \in DOMAIN w.slip => w.slip.until \in Int
       /\ w.pool \in {"none", "given"}
       /\ w.handlers \in [Actions \cup {AnyAction} -> {"async", "cleanup", "sync", None}]
       /\ w.worker.skew \in Nat /\ w.worker.maxBytes \in Nat
       /\ w.worker.maxHops \in Nat /\ w.worker.maxLinks \in Nat
       /\ w.drift \in Int /\ w.client.margin \in Int /\ w.client.default \in Int
       /\ w.client.ceiling \in Int \cup {None} /\ w.ask.timeout \in Int \cup {None}
  /\ \A q \in Elsewhere :
       /\ DOMAIN q = {"core", "restricted", "hash", "sig", "hops"}
       /\ {"id", "type", "payload", "cause", "root", "timeout"} \subseteq DOMAIN q.core
       /\ "status" \in DOMAIN q.core.payload
       /\ Intact(q) /\ q.core.cause # <<"dispatch", 0>>

VARIABLES
  now,       \* the clock of the application and of Gate
  setup,     \* the setup of this call
  call,      \* the call: idle, waiting; refused, returned, failed
  gate,      \* Gate: idle, asked, busy, done; since when, the packet, its reply
  dispatch,  \* the call of send_gate_authored_packet, like call
  pool,      \* the transport's client: none, given, open, closing
  wire,      \* the message on each leg
  faults,    \* history: what the network did
  handlers, req  \* the worker

client == <<setup, call>>
transport == <<dispatch, pool>>
worker == <<handlers, req>>
vars == <<now, client, gate, transport, wire, faults, worker>>

\* The worker serves one request, which the dispatch makes.
Work == "work"
Worker == INSTANCE NodeRuntime WITH
  now <- now + setup.drift, cfg <- setup.worker, Requests <- {Work}, Configs <- {},
  Inbound <- {}, Raised <- {}, HandlerKinds <- {"async", "cleanup", "sync"}

NoCall == [pc |-> "idle", error |-> None, pkt |-> None, since |-> 0, deadline |-> 0,
           result |-> None]
NoWire == [toGate |-> None, toClient |-> NoReply, toWorker |-> None, toTransport |-> NoReply]

Probe == setup.action = Admission
Over == {"refused", "returned", "failed"}

\* The call c has made its request.
Sent(c) == c.pc \in {"waiting", "returned", "failed"}

Init ==
  /\ now = 0
  /\ setup \in Setups
  /\ call = NoCall /\ dispatch = NoCall
  /\ gate = [pc |-> "idle", since |-> 0, pkt |-> None, reply |-> NoReply]
  /\ pool = setup.pool
  /\ wire = NoWire /\ faults = {}
  /\ handlers = setup.handlers
  /\ req = [r \in {Work} |-> Worker!Idle]

-----------------------------------------------------------------------------
(* A call of the SDK, of either rail, ends.                                 *)

Refused(c, error) == [c EXCEPT !.pc = "refused", !.error = error]
Raised(c, error) == [c EXCEPT !.pc = "failed", !.error = error]

\* Variant for mutation: whatever comes back is returned.
Judged_Not(c, r, error) == [c EXCEPT !.pc = "returned", !.result = r.pkt]

Judged(c, r, error) ==
  IF error # None THEN Raised(c, error) ELSE [c EXCEPT !.pc = "returned", !.result = r.pkt]

-----------------------------------------------------------------------------
(* The application's client.                                                *)

Root == Unsigned(RootCore(setup.client, setup.ask, setup.action, <<"call", 0>>, now),
                 setup.ask.restricted)
CallError == IF Probe THEN ActivateError(setup.client, setup.ask, Root, now)
                      ELSE ExecuteError(setup.client, setup.ask, Root, now)

\* The client refuses the call before it makes a request.
CallFails ==
  /\ call.pc = "idle" /\ CallError # None
  /\ call' = Refused(call, CallError)
  /\ UNCHANGED <<now, setup, gate, transport, wire, faults, worker>>

\* The one POST of the call.
CallPosts ==
  LET p == MaybeSign(setup.client, Root) IN
  /\ call.pc = "idle" /\ CallError = None
  /\ call' = [call EXCEPT !.pc = "waiting", !.pkt = p, !.since = now,
                          !.deadline = now + Budget(setup.client, p)]
  /\ wire' = [wire EXCEPT !.toGate = p]
  /\ UNCHANGED <<now, setup, gate, transport, faults, worker>>

CallTimesOut ==
  /\ call.pc = "waiting" /\ now >= call.deadline
  /\ call' = Raised(call, "GateTimeoutError")
  /\ wire' = [wire EXCEPT !.toClient = NoReply]
  /\ UNCHANGED <<now, setup, gate, transport, faults, worker>>

\* The connection cannot be made, or breaks before or after the request arrived.
CallDisconnects ==
  /\ call.pc = "waiting"
  /\ call' = Raised(call, "GateConnectionError")
  /\ \E rest \in {wire.toGate, None} :
       wire' = [wire EXCEPT !.toGate = rest, !.toClient = NoReply]
  /\ faults' = faults \cup {"broken"}
  /\ UNCHANGED <<now, setup, gate, transport, worker>>

CallReceives ==
  LET r == wire.toClient IN
  /\ call.pc = "waiting" /\ r # NoReply
  /\ call' = Judged(call, r, IF Probe THEN ReceiptError(setup.client, setup.ask, r, now)
                                      ELSE ReplyError(setup.client, r, now))
  /\ wire' = [wire EXCEPT !.toClient = NoReply]
  /\ UNCHANGED <<now, setup, gate, transport, faults, worker>>

-----------------------------------------------------------------------------
(* Gate (external).                                                         *)

GateTakes ==
  /\ wire.toGate # None
  /\ gate' = [pc |-> "asked", since |-> now, pkt |-> wire.toGate, reply |-> NoReply]
  /\ wire' = [wire EXCEPT !.toGate = None]
  /\ UNCHANGED <<now, client, transport, faults, worker>>

\* Gate's reply reaches the application's connection, if it still holds it.
GateReplies(r) ==
  /\ gate' = [gate EXCEPT !.pc = "done", !.reply = r]
  /\ wire' = IF call.pc = "waiting" THEN [wire EXCEPT !.toClient = r] ELSE wire

GateAnswer(type, payload) ==
  MaybeSign(setup.authority,
            Unsigned(AnswerCore(gate.pkt, <<"answer", 0>>, now, type, Gate, payload),
                     gate.pkt.restricted))

\* Gate answers a call it does not dispatch.
GateRefuses ==
  /\ gate.pc = "asked"
  /\ \E code \in {400, 403, 503} : GateReplies(AsStatus(code))
  /\ UNCHANGED <<now, client, transport, faults, worker>>

\* Gate answers a probe: with a receipt, or with something it is not.
GateAdmits ==
  /\ gate.pc = "asked" /\ Intact(gate.pkt) /\ Probe
  /\ \E what \in {"receipt", "other"} :
       GateReplies(AsPacket(GateAnswer("response", [status |-> what, granted |-> setup.granted])))
  /\ UNCHANGED <<now, client, transport, faults, worker>>

\* Gate answers a call with what its dispatch came to.
GateAnswers ==
  /\ gate.pc = "busy" /\ dispatch.pc \in Over
  /\ \/ /\ dispatch.pc = "returned"
        /\ GateReplies(AsPacket(GateAnswer(dispatch.result.core.type,
             [status |-> dispatch.result.core.payload.status, run |-> dispatch.result.core.id])))
     \/ /\ dispatch.pc # "returned"
        /\ \E r \in {AsStatus(502),
                     AsPacket(GateAnswer("failure", [status |-> "failed", run |-> None]))} :
             GateReplies(r)
  /\ UNCHANGED <<now, client, transport, faults, worker>>

\* What is left of the call's budget.
Remaining == gate.pkt.core.timeout - (now - gate.since)

\* The dispatch Gate derives from the call, but for what it gets wrong or adds.
Derived ==
  LET core == [Child(gate.pkt, <<"dispatch", 0>>, now) EXCEPT
                 !.src = Gate, !.dst = Node, !.replyTo = Gate, !.timeout = Remaining,
                 !.resolved = TRUE, !.route = "external_ingress", !.origin = "gate"]
      made == [f \in DOMAIN core |-> IF f \in DOMAIN setup.slip THEN setup.slip[f] ELSE core[f]]
      p == Unsigned(made, gate.pkt.restricted)
  IN  WithHop(p, MakeHop(p, Gate, "dispatch", "delegated", None, now))

-----------------------------------------------------------------------------
(* Gate's dispatch transport.                                               *)

AtDispatch ==
  /\ gate.pc = "asked" /\ Intact(gate.pkt) /\ ~Probe /\ Remaining > 0
  /\ gate' = [gate EXCEPT !.pc = "busy"]

Dispatchable == DispatchError(setup.authority, Derived, Node, setup.base, now)

\* The transport refuses the dispatch before it makes a request.
DispatchFails ==
  /\ AtDispatch
  /\ Dispatchable # None
  /\ dispatch' = Refused(dispatch, Dispatchable)
  /\ UNCHANGED <<now, client, pool, wire, faults, worker>>

\* A pooled client that aclose is closing refuses it, with an error of its own.
DispatchOnClosed ==
  /\ AtDispatch
  /\ Dispatchable = None /\ pool = "closing"
  /\ dispatch' = Refused(dispatch, "RuntimeError")
  /\ UNCHANGED <<now, client, pool, wire, faults, worker>>

\* The one POST of the dispatch.
DispatchPosts ==
  LET p == MaybeSign(setup.authority, Derived) IN
  /\ AtDispatch
  /\ Dispatchable = None /\ pool # "closing"
  /\ dispatch' = [dispatch EXCEPT !.pc = "waiting", !.pkt = p, !.since = now,
                                  !.deadline = now + p.core.timeout]
  /\ wire' = [wire EXCEPT !.toWorker = p]
  /\ UNCHANGED <<now, client, pool, faults, worker>>

DispatchTimesOut ==
  /\ dispatch.pc = "waiting" /\ now >= dispatch.deadline
  /\ dispatch' = Raised(dispatch, "WorkerTimeoutError")
  /\ wire' = [wire EXCEPT !.toTransport = NoReply]
  /\ UNCHANGED <<now, client, gate, pool, faults, worker>>

DispatchDisconnects ==
  /\ dispatch.pc = "waiting"
  /\ dispatch' = Raised(dispatch, "WorkerConnectionError")
  /\ \E rest \in {wire.toWorker, None} :
       wire' = [wire EXCEPT !.toWorker = rest, !.toTransport = NoReply]
  /\ faults' = faults \cup {"broken"}
  /\ UNCHANGED <<now, client, gate, pool, worker>>

DispatchReceives ==
  LET r == wire.toTransport IN
  /\ dispatch.pc = "waiting" /\ r # NoReply
  /\ dispatch' = Judged(dispatch, r,
                        WorkerReplyError(setup.authority, dispatch.pkt, Node, r, now))
  /\ wire' = [wire EXCEPT !.toTransport = NoReply]
  /\ UNCHANGED <<now, client, gate, pool, faults, worker>>

\* __aenter__ makes a client, unless the caller has given one.
EnterPool ==
  /\ pool = "none"
  /\ pool' = "open"
  /\ UNCHANGED <<now, client, gate, dispatch, wire, faults, worker>>

\* aclose, up to its await and after it: only a client the transport made.
ClosePool ==
  /\ pool = "open"
  /\ pool' = "closing"
  /\ UNCHANGED <<now, client, gate, dispatch, wire, faults, worker>>

PoolClosed ==
  /\ pool = "closing"
  /\ pool' = "none"
  /\ UNCHANGED <<now, client, gate, dispatch, wire, faults, worker>>

-----------------------------------------------------------------------------
(* The worker and the network.                                              *)

\* What the worker's answer is on the transport's connection.
AsReply(a) == IF a.kind = "packet" THEN AsPacket(a.pkt) ELSE AsStatus(a.code)

\* A step of the worker; its answer, if it made one, goes on the wire.
WorkerActs(step, taken) ==
  /\ UNCHANGED <<now, client, gate, transport, faults>>
  /\ step
  /\ wire' = [wire EXCEPT
       !.toWorker = IF taken THEN None ELSE @,
       !.toTransport = IF Worker!Answered(Work)' /\ dispatch.pc = "waiting"
                         THEN AsReply(req'[Work].answer) ELSE @]

WorkerTakes ==
  /\ wire.toWorker # None
  /\ \/ WorkerActs(Worker!RejectBody(Work, wire.toWorker, "execute"), TRUE)
     \/ WorkerActs(Worker!Refuse(Work, wire.toWorker, "execute"), TRUE)
     \/ WorkerActs(Worker!Start(Work, wire.toWorker, "execute"), TRUE)

WorkerEnds ==
  \/ WorkerActs(Worker!HandlerEnds(Work), FALSE)
  \/ WorkerActs(Worker!EndCancelled(Work), FALSE)

WorkerTimesOut ==
  \/ WorkerActs(Worker!TimeOut(Work), FALSE)
  \/ WorkerActs(Worker!Cancel(Work), FALSE)

\* What is on the wire is damaged: what the hash covers, or the classification,
\* which it does not cover; a reply may also be replaced by a proxy's.
Spoiled(p) == [p EXCEPT !.core.payload.status = "damaged"]
Relabelled(p) == [p EXCEPT !.restricted = ~@]

DamagedReplies(p) ==
  {AsStatus(504), [AsPacket(p) EXCEPT !.kind = "page"], AsPacket(Spoiled(p)),
   AsPacket(Relabelled(p))}

Damage ==
  /\ Cardinality(faults) < MaxFaults
  /\ \/ \E leg \in {"toGate", "toWorker"} :
          /\ wire[leg] # None
          /\ \E p \in {Spoiled(wire[leg]), Relabelled(wire[leg])} :
               wire' = [wire EXCEPT ![leg] = p]
     \/ \E leg \in {"toClient", "toTransport"} :
          /\ wire[leg].kind = "packet"
          /\ \E r \in DamagedReplies(wire[leg].pkt) : wire' = [wire EXCEPT ![leg] = r]
  /\ faults' = faults \cup {"damaged"}
  /\ UNCHANGED <<now, client, gate, transport, worker>>

\* Time passes.  The worker's free loop serves a due timer first.
Tick ==
  /\ \/ now < MaxTime
     \/ call.pc = "waiting" /\ now < call.deadline
     \/ dispatch.pc = "waiting" /\ now < dispatch.deadline
     \/ Worker!Running(Work) /\ now + setup.drift <= Worker!Deadline(Work)
  /\ Worker!Blocked \/ ~Worker!Due(Work)
  /\ now' = now + 1
  /\ UNCHANGED <<client, gate, transport, wire, faults, worker>>

Next ==
  \/ CallFails \/ CallPosts \/ CallTimesOut \/ CallDisconnects \/ CallReceives
  \/ GateTakes \/ GateRefuses \/ GateAdmits \/ GateAnswers
  \/ DispatchFails \/ DispatchOnClosed \/ DispatchPosts
  \/ DispatchTimesOut \/ DispatchDisconnects \/ DispatchReceives
  \/ EnterPool \/ ClosePool \/ PoolClosed
  \/ WorkerTakes \/ WorkerEnds \/ WorkerTimesOut
  \/ Damage \/ Tick

Spec == Init /\ [][Next]_vars

\* The clock goes on, a timer that has gone off is served and a call that can be
\* begun is.  Gate, the network and a suspended handler need never do anything.
Fairness ==
  /\ WF_vars(Tick)
  /\ WF_vars(CallFails \/ CallPosts)
  /\ WF_vars(CallTimesOut) /\ WF_vars(DispatchTimesOut) /\ WF_vars(WorkerTimesOut)

FairSpec == Spec /\ Fairness

-----------------------------------------------------------------------------
(* Properties.                                                              *)

\* Every variable has its type.  Not every error is of its rail's class, as
\* docs/gate-client.md and docs/gate-authority-transport.md have it: those in
\* Untyped leak out of the calls (DispatchErrorsTyped).
TypeOK ==
  /\ now \in Nat /\ setup \in Setups
  /\ \A c \in {call, dispatch} :
       /\ DOMAIN c = DOMAIN NoCall
       /\ c.pc \in {"idle", "waiting"} \cup Over
       /\ c.error # None <=> c.pc \in {"refused", "failed"}
       /\ c.result # None <=> c.pc = "returned"
  /\ call.error \in GateErrors \cup Untyped \cup {None}
  /\ dispatch.error \in DispatchErrors \cup Untyped \cup {None}
  /\ gate.pc \in {"idle", "asked", "busy", "done"}
  /\ pool \in {"none", "given", "open", "closing"}
  /\ DOMAIN wire = DOMAIN NoWire
  /\ faults \subseteq {"broken", "damaged"}
  /\ handlers \in [Actions \cup {AnyAction} -> {"async", "cleanup", "sync", None}]
  /\ req[Work].pc \in {"idle", "running", "done"}

\* What execute returns as a response is what the worker's handler returned for
\* the dispatch Gate made of this very call: no packet of another exchange that a
\* handler forwards, no failure and nothing damaged comes back as a result.
ResultIsTheWorkers ==
  ~Probe /\ call.pc = "returned" /\ call.result.core.type = "response" =>
    /\ req[Work].outcome = "returned"
    /\ req[Work].pkt.core = dispatch.pkt.core /\ dispatch.pkt.core.root = call.pkt.core.id
    /\ call.result.core.payload =
         [status |-> "completed", run |-> req[Work].answer.pkt.core.id]

\* What the handler is called with is what the application asked for, and of this
\* very call: Gate's derive, its hop and its signature, the wire and the worker's
\* decoding change none of it, or the worker refuses (derive, model_validate).
\* Its classification is not among it: neither hash nor signature covers that.
ExecutesTheCall ==
  Worker!Executed(Work) =>
    LET asked == call.pkt.core
        run == req[Work].pkt.core
    IN  /\ run.cause = asked.id /\ run.root = asked.id /\ run.resolved /\ ~Probe
        /\ \A f \in {"action", "tenant", "payload", "idem", "corr"} : run[f] = asked[f]

\* Gate and the worker agree about the dispatch p: on Gate's name, on the action,
\* on the key, and on what a packet may hold.
Compatible(p) ==
  LET w == setup.worker
      key == setup.authority.key
  IN  /\ w.enforce => setup.authority.gate = Gate
      /\ handlers[setup.action] # None \/ handlers[AnyAction] # None
      /\ Worker!AllowedActions(w, "execute") # None =>
           setup.action \in Worker!AllowedActions(w, "execute")
      /\ Worker!AllowedTypes(w, "execute") # None => "request" \in Worker!AllowedTypes(w, "execute")
      /\ setup.action \in w.idem => setup.ask.idem # None
      /\ w.maxHops > 0 /\ ~(Size(p) > w.maxBytes) /\ ~(p.core.links > w.maxLinks)
      /\ p.core.attached # None => p.core.attached \in w.attachable
      /\ IF key = None
           THEN w.dev \/ ~(Worker!RequireSignature(w, "execute") \/ p.restricted)
           ELSE key \in Worker!VerifyingKeys(w) \/ (w.dev /\ Worker!VerifyingKeys(w) = {})

\* And their clocks are no further apart than the worker allows.
Agreed == Compatible(dispatch.pkt) /\ setup.worker.skew + setup.drift >= 0

\* docs/gate-authority-transport.md: Gate cannot send a packet its worker would
\* reject.  Whatever Gate derives, a dispatch that leaves it is refused only by a
\* worker that does not agree with it, or damaged, or with a delegation that has
\* run out on its way; and run only by one that agrees with it as it arrived.
AgreedDispatchRuns ==
  /\ req[Work].outcome = "refused" /\ Agreed =>
       \/ "damaged" \in faults
       \/ dispatch.pkt.core.until # None /\ req[Work].since > dispatch.pkt.core.until
  /\ Worker!Executed(Work) => Compatible(req[Work].pkt)

\* A sender under the configuration c can verify what is signed with key.
Trusts(c, key) ==
  IF key = None THEN ~c.verifyResp
    ELSE key \in Keyring(c) \/ (~c.verifyResp /\ Keyring(c) = {})

\* A dispatch that was posted fails only if the network or the time did it, the
\* worker answered with no packet, with one of another exchange or with more than
\* a packet may hold, the delegation Gate gave it has run out, or the two do not
\* trust each other or are too far apart in time; a call likewise.  The rails
\* lose a result by no other rule of theirs.
FailsForCause ==
  faults = {} =>
    /\ dispatch.pc = "failed" =>
         \/ now >= dispatch.deadline
         \/ req[Work].outcome = "forwarded" \/ req[Work].answer.kind = "http"
         \/ Size(req[Work].answer.pkt) > MaxBytes
         \/ dispatch.pkt.core.until # None /\ now > dispatch.pkt.core.until
         \/ ~Trusts(setup.authority, setup.worker.key) \/ setup.drift > Skew
    /\ call.pc = "failed" /\ ~Probe =>
         \/ now >= call.deadline
         \/ gate.pc = "done" /\ call.error \in {"GateHTTPError", "GateAuthorizationError"}
         \/ gate.pc = "done" /\ Size(gate.reply.pkt) > MaxBytes
         \/ ~Trusts(setup.client, setup.authority.key)

\* A suspended handler is stopped at the caller's deadline and its margin, later
\* only by the time the call was on its two ways to the worker: the one budget
\* goes down the rail (_network_timeout_seconds on both sides, wait_for).  One
\* that has been stopped may still await its cleanup, for as long as that takes.
WorkEndsWithTheCall ==
  Worker!Running(Work) /\ req[Work].handler # "sync" /\ req[Work].cancelled = None =>
    now <= call.deadline + setup.client.margin
             + (gate.since - call.since) + (req[Work].since - setup.drift - dispatch.since)

\* A receipt that activate returns is what Gate said and Gate's: signed with a key
\* of Gate's that the consumer has and is not its own, granting what it requires.
ReceiptIsGates ==
  Probe /\ call.pc = "returned" =>
    /\ setup.authority.key \in setup.client.verifying \ {setup.client.key}
    /\ call.result.core.payload = [status |-> "receipt", granted |-> setup.granted]
    /\ setup.ask.required \subseteq setup.granted

\* The rails keep CallContract's promises to the application.
Outcome ==
  CASE call.pc \in {"idle", "waiting"} -> "open"
    [] call.pc \in {"refused", "failed"} -> call.pc
    [] OTHER -> IF Probe THEN "receipt"
                ELSE IF call.result.core.type = "response" THEN "result" ELSE "failure"

Contract == INSTANCE CallContract WITH
  probe <- Probe, posted <- Sent(call), dispatched <- Sent(dispatch),
  ran <- Worker!Executed(Work), outcome <- Outcome
KeepsContract == Contract!Spec

\* Whoever waits stops waiting, whatever Gate, the network and the handler do: the
\* application for Gate, Gate for the worker, and the worker for its handler, if
\* that has no cleanup to await when it is cancelled.  (The deadline of a call is
\* taken for a total one; httpx bounds each phase and chunk of a request.)
WaitsEnd ==
  /\ call.pc \in {"idle", "waiting"} ~> call.pc \in Over
  /\ dispatch.pc = "waiting" ~> dispatch.pc \in Over
  /\ Worker!Running(Work) /\ req[Work].handler # "sync" ~>
       Worker!Answered(Work) \/ req[Work].cancelled # None

-----------------------------------------------------------------------------
(* What the documents say, and the code does not do.                        *)

\* docs/gate-authority-transport.md: all errors descend from GateDispatchError.
DispatchErrorsTyped == dispatch.error \in DispatchErrors \cup {None}
=============================================================================

------------------------------ MODULE RailProofs ------------------------------
(***************************************************************************)
(* A call from end to end, proved for every setup of the two rails and the *)
(* worker, every clock and any number of faults.  The invariant follows    *)
(* the packet: what is on a leg is what was sent on it, but for damage     *)
(* that its hash gives away or that its hash does not cover (Travels), and *)
(* the time each party has left is the call's budget less what went by.    *)
(***************************************************************************)
EXTENDS Rail, TLAPS

CallId == <<"call", 0>>
DispatchId == <<"dispatch", 0>>

\* A packet with the fields the proofs look at.
Shaped(p) ==
  /\ DOMAIN p = {"core", "restricted", "hash", "sig", "hops"}
  /\ {"id", "type", "payload", "cause", "root", "timeout"} \subseteq DOMAIN p.core
  /\ "status" \in DOMAIN p.core.payload

\* x is p, or what damage made of it: the hash and what is signed stay; the
\* classification, which is in neither, may change.
Travels(x, p) ==
  /\ Shaped(x)
  /\ x.hash = p.hash /\ x.sig = p.sig /\ x.hops = p.hops
  /\ x.core.id = p.core.id /\ x.core.type = p.core.type /\ x.core.cause = p.core.cause
  /\ x.core.root = p.core.root /\ x.core.timeout = p.core.timeout

\* A record is its fields.
Whole(p) == p = [core |-> p.core, restricted |-> p.restricted, hash |-> p.hash, sig |-> p.sig,
                 hops |-> p.hops]

LEMMA RelabelledTravels ==
  ASSUME NEW x, NEW p, Travels(x, p)
  PROVE  Travels(Relabelled(x), p) /\ Whole(Relabelled(x))
<1>1. PICK y : y = [x EXCEPT !.restricted = ~x.restricted]
  OBVIOUS
<1>2. /\ DOMAIN y = {"core", "restricted", "hash", "sig", "hops"}
      /\ y.core = x.core /\ y.hash = x.hash /\ y.sig = x.sig /\ y.hops = x.hops
  BY <1>1 DEF Travels, Shaped
<1>3. Whole(y)
  BY <1>1, <1>2 DEF Whole
<1>4. Relabelled(x) = y
  BY <1>1 DEF Relabelled
<1> QED BY <1>2, <1>3, <1>4 DEF Travels, Shaped

LEMMA SpoiledTravels ==
  ASSUME NEW x, NEW p, Travels(x, p)
  PROVE  Travels(Spoiled(x), p) /\ Whole(Spoiled(x))
<1>1. PICK y : y = [x.core EXCEPT !.payload.status = "damaged"]
  OBVIOUS
<1>2. /\ DOMAIN y = DOMAIN x.core /\ y.id = x.core.id /\ y.type = x.core.type
      /\ y.cause = x.core.cause /\ y.root = x.core.root /\ y.timeout = x.core.timeout
      /\ "status" \in DOMAIN y.payload
  BY <1>1 DEF Travels, Shaped
<1>3. Spoiled(x) = [x EXCEPT !.core = y]
  BY <1>1 DEF Spoiled
<1>4. PICK z : z = [x EXCEPT !.core = y]
  OBVIOUS
<1>5. /\ DOMAIN z = {"core", "restricted", "hash", "sig", "hops"}
      /\ z.core = y /\ z.hash = x.hash /\ z.sig = x.sig /\ z.hops = x.hops
  BY <1>4 DEF Travels, Shaped
<1>6. Whole(z)
  BY <1>4, <1>5 DEF Whole
<1> QED BY <1>2, <1>3, <1>4, <1>5, <1>6 DEF Travels, Shaped

LEMMA IntactTravels ==
  ASSUME NEW x, NEW p, Travels(x, p), Intact(x), Intact(p)
  PROVE  x.core = p.core
  BY DEF Travels, Intact, TransportHash

\* Signing changes neither the core nor the hash of a packet whose hash is right.
LEMMA SignedFields ==
  ASSUME NEW c, NEW core, NEW label, {"id", "type", "payload", "cause", "root", "timeout"} \subseteq DOMAIN core,
         "status" \in DOMAIN core.payload
  PROVE  LET p == MaybeSign(c, Unsigned(core, label)) IN
         /\ Shaped(p) /\ Whole(p) /\ Intact(p) /\ p.core = core
         /\ p.sig # None => p.sig.key = c.key
<1>1. CASE c.key = None
  BY <1>1 DEF MaybeSign, Unsigned, TransportHash, Shaped, Whole, Intact
<1>2. CASE c.key # None
  <2>1. PICK p : p = MaybeSign(c, Unsigned(core, label))
    OBVIOUS
  <2>2. p = [[core |-> core, restricted |-> label, hash |-> core, sig |-> None, hops |-> <<>>] EXCEPT
               !.hash = core, !.sig = [key |-> c.key, over |-> core]]
    BY <1>2, <2>1 DEF MaybeSign, Unsigned, SignedBy, TransportHash
  <2>3. /\ DOMAIN p = {"core", "restricted", "hash", "sig", "hops"} /\ p.core = core /\ p.hash = core
        /\ p.sig.key = c.key
    BY <2>2
  <2>4. Whole(p)
    BY <2>2, <2>3 DEF Whole
  <2> QED BY <2>1, <2>3, <2>4 DEF Shaped, Intact, TransportHash
<1> QED BY <1>1, <1>2

-----------------------------------------------------------------------------
(* What the parties make.                                                   *)

Fields == {"id", "type", "payload", "cause", "root", "timeout"}

\* The call's budget.
Total == Clamp(setup.client, Asked(setup.client, setup.ask))

LEMMA TotalType ==
  ASSUME setup \in Setups
  PROVE  /\ Total \in Int /\ setup.client.margin \in Int /\ setup.drift \in Int
         /\ Clamp(setup.client, Total) = Total
  BY RailAssumption DEF Total, Clamp, Asked

\* The packet execute or activate sends.
LEMMA RootFields ==
  ASSUME setup \in Setups
  PROVE  LET p == MaybeSign(setup.client, Root) IN
         /\ Shaped(p) /\ Whole(p) /\ Intact(p)
         /\ p.core.id = CallId /\ p.core.root = CallId /\ p.core.type = "request"
         /\ p.core.timeout = Total
<1> DEFINE core == RootCore(setup.client, setup.ask, setup.action, <<"call", 0>>, now)
<1>1. /\ Fields \subseteq DOMAIN core /\ "status" \in DOMAIN core.payload
      /\ core.id = CallId /\ core.root = CallId /\ core.type = "request" /\ core.timeout = Total
  BY RailAssumption DEF RootCore, Fields, CallId, Total
<1> HIDE DEF core
<1> QED BY <1>1, SignedFields DEF Root, core, Fields

\* The child of a packet that gets a type, an address and a payload.
LEMMA AnswerCoreFields ==
  ASSUME NEW p, Shaped(p), NEW id, NEW at, NEW type, NEW node, NEW payload,
         "status" \in DOMAIN payload
  PROVE  LET c == AnswerCore(p, id, at, type, node, payload) IN
         /\ Fields \subseteq DOMAIN c /\ "status" \in DOMAIN c.payload
         /\ c.type = type /\ c.payload = payload /\ c.id = id
<1>1. PICK c : c = AnswerCore(p, id, at, type, node, payload)
  OBVIOUS
<1>2. DOMAIN c = DOMAIN p.core /\ c.type = type /\ c.payload = payload /\ c.id = id
  BY <1>1 DEF AnswerCore, Child, Shaped
<1> QED BY <1>1, <1>2 DEF Shaped, Fields

LEMMA GateAnswerFields ==
  ASSUME Shaped(gate.pkt), NEW type, NEW payload, "status" \in DOMAIN payload
  PROVE  LET q == GateAnswer(type, payload) IN
         /\ Shaped(q) /\ Intact(q) /\ q.core.type = type /\ q.core.payload = payload
         /\ q.sig # None => q.sig.key = setup.authority.key
  BY AnswerCoreFields, SignedFields DEF GateAnswer, Fields

\* The dispatch: what Gate may get wrong or add is none of these fields.
LEMMA DerivedFields ==
  ASSUME setup \in Setups, Shaped(gate.pkt)
  PROVE  LET p == MaybeSign(setup.authority, Derived) IN
         /\ Shaped(p) /\ Whole(p) /\ Intact(p)
         /\ p.core.id = DispatchId /\ p.core.root = gate.pkt.core.root
         /\ p.core.type = gate.pkt.core.type /\ p.core.timeout = Remaining
<1>1. PICK core : core = [Child(gate.pkt, <<"dispatch", 0>>, now) EXCEPT
                 !.src = Gate, !.dst = Node, !.replyTo = Gate, !.timeout = Remaining,
                 !.resolved = TRUE, !.route = "external_ingress", !.origin = "gate"]
  OBVIOUS
<1>2. /\ DOMAIN core = DOMAIN gate.pkt.core /\ core.id = DispatchId
      /\ core.root = gate.pkt.core.root /\ core.type = gate.pkt.core.type
      /\ core.timeout = Remaining /\ core.payload = gate.pkt.core.payload
  BY <1>1 DEF Child, Shaped, DispatchId
<1>3. PICK made : made = [f \in DOMAIN core |->
                            IF f \in DOMAIN setup.slip THEN setup.slip[f] ELSE core[f]]
  OBVIOUS
<1>4. /\ Fields \subseteq DOMAIN made /\ "status" \in DOMAIN made.payload
      /\ made.id = DispatchId /\ made.root = gate.pkt.core.root
      /\ made.type = gate.pkt.core.type /\ made.timeout = Remaining
  <2>1. DOMAIN setup.slip \cap Fields = {}
    BY RailAssumption DEF Fields, SlipFields
  <2>2. Fields \subseteq DOMAIN core /\ \A f \in Fields : made[f] = core[f]
    BY <1>2, <1>3, <2>1 DEF Shaped, Fields
  <2> QED BY <1>2, <1>3, <2>2 DEF Fields, Shaped
<1>5. PICK hop : hop = MakeHop(Unsigned(made, gate.pkt.restricted), Gate, "dispatch", "delegated",
                               None, now)
  OBVIOUS
<1>6. Derived = [core |-> made, restricted |-> gate.pkt.restricted, hash |-> made, sig |-> None,
                 hops |-> <<hop>>]
  <2>1. Derived = WithHop(Unsigned(made, gate.pkt.restricted), hop)
    BY <1>1, <1>3, <1>5 DEF Derived
  <2>2. Unsigned(made, gate.pkt.restricted) =
          [core |-> made, restricted |-> gate.pkt.restricted, hash |-> made, sig |-> None,
           hops |-> <<>>]
    BY DEF Unsigned, TransportHash
  <2> QED BY <2>1, <2>2 DEF WithHop
<1>7. PICK p : p = MaybeSign(setup.authority, Derived)
  OBVIOUS
<1>8. Shaped(p) /\ Whole(p) /\ Intact(p) /\ p.core = made
  <2>1. CASE setup.authority.key = None
    BY <1>4, <1>6, <1>7, <2>1 DEF MaybeSign, Shaped, Whole, Intact, TransportHash, Fields
  <2>2. CASE setup.authority.key # None
    <3>1. PICK d : d = Derived
      OBVIOUS
    <3>2. p = [d EXCEPT !.hash = made, !.sig = [key |-> setup.authority.key, over |-> made]]
      BY <1>6, <1>7, <2>2, <3>1 DEF MaybeSign, SignedBy, TransportHash
    <3>3. /\ DOMAIN p = {"core", "restricted", "hash", "sig", "hops"} /\ p.core = made /\ p.hash = made
      BY <1>6, <3>1, <3>2
    <3>4. Whole(p)
      BY <1>6, <3>1, <3>2, <3>3 DEF Whole
    <3> QED BY <1>4, <3>3, <3>4 DEF Shaped, Intact, TransportHash, Fields
  <2> QED BY <2>1, <2>2
<1> QED BY <1>4, <1>7, <1>8

\* A packet the worker answers with: its hop and its signature leave the core alone.
Answering(a) ==
  a.kind = "packet" => Shaped(a.pkt) /\ Intact(a.pkt)

LEMMA WorkerSigns ==
  ASSUME NEW q, Shaped(q), Intact(q), NEW hop
  PROVE  LET p == Worker!Sign(Worker!WithHop(q, hop)) IN
         Shaped(p) /\ Intact(p) /\ p.core = q.core
<1>1. PICK h : h = Worker!WithHop(q, hop)
  OBVIOUS
<1>2. Shaped(h) /\ h.core = q.core /\ h.hash = q.hash
  BY <1>1 DEF Worker!WithHop, Shaped
<1>3. CASE setup.worker.key = None
  BY <1>1, <1>2, <1>3 DEF Worker!Sign, Intact, TransportHash
<1>4. CASE setup.worker.key # None
  <2>1. PICK p : p = [h EXCEPT !.hash = h.core, !.sig = [key |-> setup.worker.key, over |-> h.core]]
    OBVIOUS
  <2>2. Worker!Sign(h) = p
    BY <1>4, <2>1 DEF Worker!Sign, Worker!SignedBy, Worker!TransportHash
  <2>3. DOMAIN p = DOMAIN h /\ p.core = h.core /\ p.hash = h.core
    BY <1>2, <2>1 DEF Shaped
  <2> QED BY <1>1, <1>2, <2>2, <2>3 DEF Shaped, Intact, TransportHash
<1> QED BY <1>3, <1>4

LEMMA WorkerCore ==
  ASSUME NEW p, Shaped(p), NEW id, NEW at, NEW type, NEW node, NEW payload, NEW label,
         "status" \in DOMAIN payload
  PROVE  LET c == Worker!AnswerCore(p, id, at, type, node, payload) IN
         LET u == Worker!Unsigned(c, label) IN
         /\ Shaped(u) /\ Intact(u) /\ u.core = c
         /\ c.type = type /\ c.payload = payload
<1>1. PICK c : c = Worker!AnswerCore(p, id, at, type, node, payload)
  OBVIOUS
<1>2. DOMAIN c = DOMAIN p.core /\ c.type = type /\ c.payload = payload
  BY <1>1 DEF Worker!AnswerCore, Worker!Child, Shaped
<1>3. PICK u : u = Worker!Unsigned(c, label)
  OBVIOUS
<1>4. DOMAIN u = {"core", "restricted", "hash", "sig", "hops"} /\ u.core = c /\ u.hash = c
  BY <1>3 DEF Worker!Unsigned, Worker!TransportHash
<1> QED BY <1>1, <1>2, <1>3, <1>4 DEF Shaped, Intact, TransportHash

LEMMA FailureFields ==
  ASSUME NEW p, Shaped(p), NEW error, NEW blank
  PROVE  LET a == Worker!FailureAnswer(Work, p, error, blank) IN
         Answering(a) /\ (a.kind = "packet" => a.pkt.core.type = "failure")
<1> DEFINE core == Worker!AnswerCore(p, <<Work, 2>>, now + setup.drift, "failure", Node,
                                     Worker!Payload("failed", error))
           u == Worker!Unsigned(core, p.restricted)
<1>1. Shaped(u) /\ Intact(u) /\ u.core.type = "failure"
  BY WorkerCore DEF Worker!Payload
<1> DEFINE hop == Worker!MakeHop(u, Node, "response", "failed", error, now + setup.drift)
<1>2. Worker!FailureAnswer(Work, p, error, blank) \in
        {Worker!Http(Worker!StatusOf(error)), Worker!Http(500),
         Worker!Packet(Worker!Sign(Worker!WithHop(u, hop)))}
  BY Zenon DEF Worker!FailureAnswer
<1> HIDE DEF u, hop
<1> QED BY <1>1, <1>2, WorkerSigns DEF Answering, Worker!Http, Worker!Packet

\* What the worker answers p with when it has q.
LEMMA RespondFields ==
  ASSUME NEW p, Shaped(p), NEW q, Shaped(q), Intact(q)
  PROVE  LET a == Worker!Respond(Work, p, q) IN
         /\ Answering(a)
         /\ a.kind = "packet" =>
              \/ a.pkt.core.type = "failure"
              \/ a.pkt.core = q.core /\ q.core.payload.status # "failed"
<1> DEFINE hop == Worker!MakeHop(q, Node, "response", q.core.payload.status, None,
                                 now + setup.drift)
           a == Worker!Respond(Work, p, q)
<1>1. CASE ~Worker!HopOK(hop)
  BY <1>1, FailureFields DEF Worker!Respond
<1>2. CASE Worker!HopOK(hop) /\ Worker!SignError(setup.worker) # None
  BY <1>2, FailureFields DEF Worker!Respond
<1>3. CASE Worker!HopOK(hop) /\ Worker!SignError(setup.worker) = None
  <2>1. a = Worker!Packet(Worker!Sign(Worker!WithHop(q, hop)))
    BY <1>3 DEF Worker!Respond
  <2>2. q.core.payload.status # "failed"
    BY <1>3 DEF Worker!HopOK, Worker!MakeHop
  <2> HIDE DEF a, hop
  <2>3. Answering(a) /\ (a.kind = "packet" => a.pkt.core = q.core)
    BY <2>1, WorkerSigns DEF Answering, Worker!Packet
  <2> QED BY <2>2, <2>3 DEF a
<1> QED BY <1>1, <1>2, <1>3

-----------------------------------------------------------------------------
(* The invariant.                                                           *)

Ans == req[Work].answer
Kinds == {"none", "status", "page", "packet"}

\* Each variable has the fields the steps update.
Setting ==
  /\ now \in Int /\ setup \in Setups
  /\ \A c \in {call, dispatch} :
       DOMAIN c = DOMAIN NoCall /\ c.pc \in {"idle", "waiting"} \cup Over
  /\ DOMAIN gate = {"pc", "since", "pkt", "reply"} /\ gate.pc \in {"idle", "asked", "busy", "done"}
  /\ DOMAIN wire = DOMAIN NoWire
  /\ DOMAIN req = {Work} /\ DOMAIN req[Work] = DOMAIN Worker!Idle
  /\ req[Work].pc \in {"idle", "running", "done"}

\* One request a leg, in the order of the legs.
Order ==
  /\ wire.toGate # None => gate.pc = "idle" /\ Sent(call)
  /\ gate.pc # "idle" => Sent(call)
  /\ gate.pc = "busy" => dispatch.pc # "idle"
  /\ dispatch.pc # "idle" => gate.pc \in {"busy", "done"} /\ ~Probe
  /\ wire.toWorker # None => Sent(dispatch) /\ req[Work].pc = "idle"
  /\ req[Work].pc # "idle" => Sent(dispatch)

\* From the application to Gate.
ClientLeg ==
  /\ Sent(call) =>
       /\ Shaped(call.pkt) /\ Whole(call.pkt) /\ Intact(call.pkt)
       /\ call.pkt.core.id = CallId /\ call.pkt.core.root = CallId
       /\ call.pkt.core.type = "request" /\ call.pkt.core.timeout = Total
       /\ call.since \in Int /\ call.deadline + setup.client.margin = call.since + Total
  /\ wire.toGate # None => Travels(wire.toGate, call.pkt)
  /\ gate.pc # "idle" => Travels(gate.pkt, call.pkt) /\ gate.since \in Int

\* From Gate to the worker.
DispatchLeg ==
  /\ Sent(dispatch) =>
       /\ Shaped(dispatch.pkt) /\ Whole(dispatch.pkt) /\ Intact(dispatch.pkt)
       /\ dispatch.pkt.core.id = DispatchId /\ dispatch.pkt.core.root = CallId
       /\ dispatch.pkt.core.type = "request" /\ dispatch.since \in Int
       /\ dispatch.pkt.core.timeout = Total - (dispatch.since - gate.since)
       /\ dispatch.pkt.core.timeout > 0
  /\ wire.toWorker # None => Travels(wire.toWorker, dispatch.pkt) /\ Whole(wire.toWorker)

\* The worker: the dispatch it runs, until its timer goes off, and its answer.
WorkerLeg ==
  /\ req[Work].pc = "running" =>
       /\ Shaped(req[Work].pkt) /\ Intact(req[Work].pkt)
       /\ req[Work].pkt.core = dispatch.pkt.core /\ req[Work].since \in Int
       /\ req[Work].handler # "sync" /\ req[Work].cancelled = None =>
            now + setup.drift <= req[Work].since + req[Work].pkt.core.timeout
  /\ req[Work].pc = "done" =>
       /\ Answering(Ans)
       /\ req[Work].outcome # "refused" => req[Work].pkt.core = dispatch.pkt.core
       /\ Ans.kind = "packet" /\ Ans.pkt.core.type = "response" =>
            \/ req[Work].outcome = "returned" /\ Ans.pkt.core.payload.status = "completed"
            \/ req[Work].outcome = "forwarded" /\ Ans.pkt.core.cause # DispatchId

\* From the worker to Gate.
WorkerBack ==
  /\ wire.toTransport.kind \in Kinds
  /\ wire.toTransport.kind = "none" => wire.toTransport = NoReply
  /\ wire.toTransport.kind \in {"page", "packet"} =>
       /\ req[Work].pc = "done" /\ Ans.kind = "packet"
       /\ Travels(wire.toTransport.pkt, Ans.pkt)
  /\ dispatch.pc = "returned" =>
       /\ req[Work].pc = "done" /\ Ans.kind = "packet"
       /\ dispatch.result.core = Ans.pkt.core /\ Ans.pkt.core.cause = DispatchId

\* The result of the call is the worker's.
Delivered(payload) ==
  /\ Sent(call) /\ dispatch.pc = "returned" /\ req[Work].pc = "done"
  /\ req[Work].outcome = "returned" /\ Ans.kind = "packet"
  /\ payload = [status |-> "completed", run |-> Ans.pkt.core.id]

\* What Gate says: of a call what its worker did, of a probe its receipt.
Said(core) ==
  /\ ~Probe /\ core.type = "response" => Delivered(core.payload)
  /\ Probe /\ core.payload.status = "receipt" =>
       core.payload = [status |-> "receipt", granted |-> setup.granted]

\* From Gate to the application.
ClientBack ==
  /\ wire.toClient.kind \in Kinds
  /\ wire.toClient.kind = "none" => wire.toClient = NoReply
  /\ wire.toClient.kind \in {"page", "packet"} =>
       /\ Shaped(wire.toClient.pkt)
       /\ wire.toClient.pkt.sig # None => wire.toClient.pkt.sig.key = setup.authority.key
       /\ Said(wire.toClient.pkt.hash)
  /\ call.pc = "returned" => Said(call.result.core) /\ ReceiptIsGates

IInv ==
  /\ Setting /\ Order /\ ClientLeg /\ DispatchLeg /\ WorkerLeg /\ WorkerBack /\ ClientBack

LEMMA InitOK == Init => IInv
<1> SUFFICES ASSUME Init PROVE IInv
  OBVIOUS
<1>1. /\ call = NoCall /\ dispatch = NoCall /\ wire = NoWire /\ gate.pc = "idle"
      /\ req = [r \in {Work} |-> Worker!Idle] /\ req[Work].pc = "idle"
  BY DEF Init, Worker!Idle
<1>2. Setting
  BY <1>1 DEF Init, Setting, NoCall
<1> QED
  BY <1>1, <1>2 DEF IInv, Order, ClientLeg, DispatchLeg, WorkerLeg, WorkerBack, ClientBack,
     NoCall, NoWire, NoReply, Kinds, Sent

-----------------------------------------------------------------------------
(* The client's steps.                                                      *)

\* A step that leaves the setup alone.
LEMMA SetupKept ==
  ASSUME setup' = setup
  PROVE  Total' = Total /\ Probe' = Probe
  BY DEF Total, Probe, Clamp, Asked

LEMMA CallFailsOK == ASSUME IInv, CallFails PROVE IInv'
<1> USE DEF IInv
<1>1. /\ call.pc = "idle" /\ DOMAIN call' = DOMAIN call /\ call'.pc = "refused"
      /\ UNCHANGED <<now, setup, gate, dispatch, wire, req>>
      /\ Total' = Total /\ Probe' = Probe
  BY SetupKept DEF CallFails, Refused, Setting, NoCall, transport, worker
<1>2. ~Sent(call) /\ ~Sent(call)' /\ Sent(dispatch)' = Sent(dispatch)
  BY <1>1 DEF Sent
<1>3. Setting'
  BY <1>1 DEF Setting, Over, NoCall, NoWire, Worker!Idle, Worker!NoAnswer
<1>4. Order'
  BY <1>1, <1>2 DEF Order
<1>5. ClientLeg'
  BY <1>1, <1>2 DEF ClientLeg, Order
<1>6. DispatchLeg'
  BY <1>1, <1>2 DEF DispatchLeg
<1>7. WorkerLeg' /\ WorkerBack'
  BY <1>1, <1>2 DEF WorkerLeg, WorkerBack, Ans
<1>8. ClientBack'
  BY <1>1, <1>2 DEF ClientBack, Said, Delivered, Ans
<1> QED BY <1>3, <1>4, <1>5, <1>6, <1>7, <1>8

LEMMA CallPostsOK == ASSUME IInv, CallPosts PROVE IInv'
<1> USE DEF IInv
<1>1. PICK p : p = MaybeSign(setup.client, Root)
  OBVIOUS
<1>2. /\ Shaped(p) /\ Whole(p) /\ Intact(p)
      /\ p.core.id = CallId /\ p.core.root = CallId /\ p.core.type = "request"
      /\ p.core.timeout = Total
  BY <1>1, RootFields DEF Setting
<1>3. now + Budget(setup.client, p) + setup.client.margin = now + Total
  BY <1>2, TotalType DEF Budget, Setting
<1>4. /\ call.pc = "idle" /\ DOMAIN call' = DOMAIN call /\ call'.pc = "waiting"
      /\ call'.pkt = p /\ call'.since = now /\ call'.deadline = now + Budget(setup.client, p)
      /\ DOMAIN wire' = DOMAIN wire /\ wire'.toGate = p /\ wire'.toClient = wire.toClient
      /\ wire'.toWorker = wire.toWorker /\ wire'.toTransport = wire.toTransport
      /\ UNCHANGED <<now, setup, gate, dispatch, req>>
      /\ Total' = Total /\ Probe' = Probe
  BY <1>1, SetupKept DEF CallPosts, Setting, NoCall, NoWire, transport, worker
<1>5. ~Sent(call) /\ Sent(call)' /\ Sent(dispatch)' = Sent(dispatch)
  BY <1>4 DEF Sent
<1>6. Setting'
  BY <1>4 DEF Setting, Over, NoCall, NoWire, Worker!Idle, Worker!NoAnswer
<1>7. Order'
  BY <1>4, <1>5 DEF Order
<1>8. ClientLeg'
  BY <1>2, <1>3, <1>4, <1>5 DEF ClientLeg, Order, Setting, Travels
<1>9. DispatchLeg'
  BY <1>4, <1>5 DEF DispatchLeg
<1>10. WorkerLeg' /\ WorkerBack'
  BY <1>4, <1>5 DEF WorkerLeg, WorkerBack, Ans
<1>11. ClientBack'
  BY <1>4, <1>5 DEF ClientBack, Said, Delivered, Ans
<1> QED BY <1>6, <1>7, <1>8, <1>9, <1>10, <1>11

\* The end of a call whose request was made.
LEMMA CallEnds ==
  ASSUME IInv, call.pc = "waiting",
         DOMAIN call' = DOMAIN call, call'.pc \in {"failed", "returned"}, call'.pkt = call.pkt,
         call'.since = call.since, call'.deadline = call.deadline,
         DOMAIN wire' = DOMAIN wire, wire'.toGate \in {wire.toGate, None},
         wire'.toClient = NoReply, wire'.toWorker = wire.toWorker,
         wire'.toTransport = wire.toTransport,
         UNCHANGED <<now, setup, gate, dispatch, req>>,
         call'.pc = "returned" => Said(call'.result.core) /\ ReceiptIsGates'
  PROVE  IInv'
<1> USE DEF IInv
<1>1. Total' = Total /\ Probe' = Probe
  BY SetupKept
<1>2. Sent(call) /\ Sent(call)' /\ Sent(dispatch)' = Sent(dispatch)
  BY DEF Sent
<1>3. Setting'
  BY DEF Setting, Over, NoCall, NoWire, Worker!Idle, Worker!NoAnswer
<1>4. Order'
  BY <1>1, <1>2 DEF Order
<1>5. ClientLeg'
  BY <1>1, <1>2 DEF ClientLeg
<1>6. DispatchLeg'
  BY <1>1, <1>2 DEF DispatchLeg
<1>7. WorkerLeg' /\ WorkerBack'
  BY DEF WorkerLeg, WorkerBack, Ans
<1>8. Said(call.result.core)' = Said(call'.result.core)
  BY <1>1, <1>2 DEF Said, Delivered, Ans
<1>9. ClientBack'
  BY <1>1, <1>2, <1>8 DEF ClientBack, NoReply, Kinds
<1> QED BY <1>3, <1>4, <1>5, <1>6, <1>7, <1>9

LEMMA CallStopsOK == ASSUME IInv, CallTimesOut \/ CallDisconnects PROVE IInv'
<1> USE DEF IInv
<1>1. /\ call.pc = "waiting" /\ DOMAIN call' = DOMAIN call /\ call'.pc = "failed"
      /\ call'.pkt = call.pkt /\ call'.since = call.since /\ call'.deadline = call.deadline
      /\ UNCHANGED <<now, setup, gate, dispatch, req>>
  BY DEF CallTimesOut, CallDisconnects, Raised, Setting, NoCall, transport, worker
<1>2. /\ DOMAIN wire' = DOMAIN wire /\ wire'.toGate \in {wire.toGate, None}
      /\ wire'.toClient = NoReply /\ wire'.toWorker = wire.toWorker
      /\ wire'.toTransport = wire.toTransport
  BY DEF CallTimesOut, CallDisconnects, Setting, NoWire
<1> QED BY <1>1, <1>2, CallEnds

LEMMA CallReceivesOK == ASSUME IInv, CallReceives PROVE IInv'
<1> USE DEF IInv
<1>1. PICK r : r = wire.toClient
  OBVIOUS
<1>2. PICK error : error = IF Probe THEN ReceiptError(setup.client, setup.ask, r, now)
                                    ELSE ReplyError(setup.client, r, now)
  OBVIOUS
<1>3. /\ call.pc = "waiting" /\ r # NoReply /\ call' = Judged(call, r, error)
      /\ DOMAIN wire' = DOMAIN wire /\ wire'.toGate = wire.toGate /\ wire'.toClient = NoReply
      /\ wire'.toWorker = wire.toWorker /\ wire'.toTransport = wire.toTransport
      /\ UNCHANGED <<now, setup, gate, dispatch, req>>
      /\ Probe' = Probe
  BY <1>1, <1>2, SetupKept DEF CallReceives, Setting, NoWire, transport, worker
<1>4. /\ DOMAIN call' = DOMAIN call /\ call'.pc \in {"failed", "returned"}
      /\ call'.pkt = call.pkt /\ call'.since = call.since /\ call'.deadline = call.deadline
      /\ call'.pc = "returned" => error = None /\ call'.result = r.pkt
  <2>1. CASE error = None
    BY <1>3, <2>1 DEF Judged, Setting, NoCall
  <2>2. CASE error # None
    BY <1>3, <2>2 DEF Judged, Raised, Setting, NoCall
  <2> QED BY <2>1, <2>2
<1>5. ASSUME error = None
      PROVE  r.kind = "packet" /\ Intact(r.pkt)
  <2>1. \A c : ReplyError(c, r, now) = None => r.kind \notin {"status", "page"} /\ Intact(r.pkt)
    BY RailAssumption DEF ReplyError, GateErrors
  <2>2. ReceiptError(setup.client, setup.ask, r, now) = None =>
          ReplyError(Verifying(setup.client), r, now) = None
    BY DEF ReceiptError
  <2>3. r.kind \notin {"status", "page"} /\ Intact(r.pkt)
    BY <1>2, <1>5, <2>1, <2>2
  <2>4. r.kind \in Kinds /\ r.kind # "none"
    BY <1>1, <1>3 DEF ClientBack
  <2> QED BY <2>3, <2>4 DEF Kinds
<1>6. ASSUME error = None, Probe
      PROVE  /\ ReceiptSigner(setup.client, r.pkt)
             /\ r.pkt.core.payload.status = "receipt"
             /\ setup.ask.required \subseteq r.pkt.core.payload.granted
  <2>1. ReceiptError(setup.client, setup.ask, r, now) = None
    BY <1>2, <1>6
  <2> QED BY <2>1, RailAssumption DEF ReceiptError, GateErrors
<1>7. ASSUME call'.pc = "returned"
      PROVE  Said(call'.result.core) /\ ReceiptIsGates'
  <2>1. /\ r.kind = "packet" /\ Intact(r.pkt) /\ call'.result = r.pkt
        /\ error = None
    BY <1>4, <1>5, <1>7
  <2>2. /\ r.pkt.sig # None => r.pkt.sig.key = setup.authority.key
        /\ Said(r.pkt.hash) /\ r.pkt.hash = r.pkt.core
    BY <1>1, <2>1 DEF ClientBack, Intact, TransportHash
  <2>3. ASSUME Probe
        PROVE  /\ setup.authority.key \in setup.client.verifying \ {setup.client.key}
               /\ call'.result.core.payload = [status |-> "receipt", granted |-> setup.granted]
               /\ setup.ask.required \subseteq setup.granted
    <3>1. r.pkt.core.payload = [status |-> "receipt", granted |-> setup.granted]
      BY <1>6, <2>1, <2>2, <2>3 DEF Said
    <3>2. r.pkt.core.payload.granted = setup.granted
      BY <3>1
    <3> QED BY <1>6, <2>1, <2>2, <2>3, <3>1, <3>2 DEF ReceiptSigner
  <2> QED BY <1>3, <2>1, <2>2, <2>3 DEF ReceiptIsGates
<1> QED BY <1>3, <1>4, <1>7, CallEnds

-----------------------------------------------------------------------------
(* Gate's steps.                                                            *)

LEMMA GateTakesOK == ASSUME IInv, GateTakes PROVE IInv'
<1> USE DEF IInv
<1>1. /\ wire.toGate # None /\ gate.pc = "idle"
      /\ DOMAIN gate' = {"pc", "since", "pkt", "reply"} /\ gate'.pc = "asked" /\ gate'.since = now
      /\ gate'.pkt = wire.toGate
      /\ DOMAIN wire' = DOMAIN wire /\ wire'.toGate = None /\ wire'.toClient = wire.toClient
      /\ wire'.toWorker = wire.toWorker /\ wire'.toTransport = wire.toTransport
      /\ UNCHANGED <<now, setup, call, dispatch, req>>
      /\ Total' = Total /\ Probe' = Probe
  BY SetupKept DEF GateTakes, Setting, NoWire, Order, client, transport, worker
<1>2. Sent(call)' = Sent(call) /\ Sent(dispatch)' = Sent(dispatch)
  BY <1>1 DEF Sent
<1>3. dispatch.pc = "idle" /\ ~Sent(dispatch)
  BY <1>1 DEF Order, Sent
<1>4. Setting'
  BY <1>1 DEF Setting, Over, NoCall, NoWire, Worker!Idle, Worker!NoAnswer
<1>5. Order'
  BY <1>1, <1>2, <1>3 DEF Order
<1>6. ClientLeg'
  BY <1>1, <1>2 DEF ClientLeg, Setting
<1>7. DispatchLeg'
  BY <1>1, <1>2, <1>3 DEF DispatchLeg, Order
<1>8. WorkerLeg' /\ WorkerBack'
  BY <1>1 DEF WorkerLeg, WorkerBack, Ans
<1>9. ClientBack'
  BY <1>1, <1>2 DEF ClientBack, Said, Delivered, Ans, ReceiptIsGates
<1> QED BY <1>4, <1>5, <1>6, <1>7, <1>8, <1>9

\* A reply of Gate.
LEMMA GateRepliesOK ==
  ASSUME IInv, gate.pc \in {"asked", "busy"}, NEW r, GateReplies(r),
         UNCHANGED <<now, client, transport, req>>,
         r.kind \in {"status", "packet"},
         r.kind = "packet" =>
           /\ Shaped(r.pkt) /\ (r.pkt.sig # None => r.pkt.sig.key = setup.authority.key)
           /\ Said(r.pkt.hash)
  PROVE  IInv'
<1> USE DEF IInv
<1>1. /\ DOMAIN gate' = DOMAIN gate /\ gate'.pc = "done" /\ gate'.since = gate.since
      /\ gate'.pkt = gate.pkt
      /\ DOMAIN wire' = DOMAIN wire /\ wire'.toGate = wire.toGate
      /\ wire'.toClient \in {wire.toClient, r}
      /\ wire'.toWorker = wire.toWorker /\ wire'.toTransport = wire.toTransport
      /\ UNCHANGED <<now, setup, call, dispatch, req>>
      /\ Total' = Total /\ Probe' = Probe
  BY SetupKept DEF GateReplies, Setting, NoWire, client, transport
<1>2. Sent(call)' = Sent(call) /\ Sent(dispatch)' = Sent(dispatch)
  BY <1>1 DEF Sent
<1>3. Setting'
  BY <1>1 DEF Setting, Over, NoCall, NoWire, Worker!Idle, Worker!NoAnswer
<1>4. Order'
  BY <1>1, <1>2 DEF Order
<1>5. ClientLeg'
  BY <1>1, <1>2 DEF ClientLeg
<1>6. DispatchLeg'
  BY <1>1, <1>2 DEF DispatchLeg
<1>7. WorkerLeg' /\ WorkerBack'
  BY <1>1 DEF WorkerLeg, WorkerBack, Ans
<1>8. ClientBack'
  <2>1. ReceiptIsGates' = ReceiptIsGates
    BY <1>1 DEF ReceiptIsGates
  <2>2. \A core : Said(core)' = Said(core)
    BY <1>1, <1>2 DEF Said, Delivered, Ans
  <2>3. CASE wire'.toClient = wire.toClient
    BY <1>1, <1>2, <2>1, <2>3 DEF ClientBack, Said, Delivered, Ans
  <2>4. CASE wire'.toClient = r
    BY <1>1, <1>2, <2>1, <2>4 DEF ClientBack, Said, Delivered, Ans, Kinds
  <2> QED BY <1>1, <2>3, <2>4
<1> QED BY <1>3, <1>4, <1>5, <1>6, <1>7, <1>8

\* Gate refuses, or answers a probe.
LEMMA GateSpeaksOK == ASSUME IInv, GateRefuses \/ GateAdmits PROVE IInv'
<1> USE DEF IInv
<1>1. CASE GateRefuses
  <2>1. PICK code \in {400, 403, 503} : GateReplies(AsStatus(code))
    BY <1>1 DEF GateRefuses
  <2>2. AsStatus(code).kind = "status"
    BY DEF AsStatus
  <2> QED BY <1>1, <2>1, <2>2, GateRepliesOK DEF GateRefuses, worker
<1>2. CASE GateAdmits
  <2>1. PICK what \in {"receipt", "other"} :
          GateReplies(AsPacket(GateAnswer("response", [status |-> what, granted |-> setup.granted])))
    BY <1>2 DEF GateAdmits
  <2>2. PICK q : q = GateAnswer("response", [status |-> what, granted |-> setup.granted])
    OBVIOUS
  <2>3. Shaped(gate.pkt)
    BY <1>2 DEF GateAdmits, ClientLeg, Travels
  <2>4. /\ Shaped(q) /\ q.hash = q.core /\ (q.sig # None => q.sig.key = setup.authority.key)
        /\ q.core.payload = [status |-> what, granted |-> setup.granted]
    BY <2>2, <2>3, GateAnswerFields DEF Intact, TransportHash
  <2>5. Said(q.hash)
    BY <1>2, <2>4 DEF Said, GateAdmits
  <2>6. AsPacket(q).kind = "packet" /\ AsPacket(q).pkt = q
    BY DEF AsPacket
  <2> QED BY <1>2, <2>1, <2>2, <2>4, <2>5, <2>6, GateRepliesOK DEF GateAdmits, worker
<1> QED BY <1>1, <1>2

\* Gate answers with what its dispatch came to.
LEMMA GateAnswersOK == ASSUME IInv, GateAnswers PROVE IInv'
<1> USE DEF IInv
<1>1. /\ gate.pc = "busy" /\ Shaped(gate.pkt) /\ Sent(call) /\ ~Probe
      /\ UNCHANGED <<now, client, transport, req>>
  BY DEF GateAnswers, ClientLeg, Travels, Order, worker
<1>2. CASE dispatch.pc = "returned" /\
           GateReplies(AsPacket(GateAnswer(dispatch.result.core.type,
             [status |-> dispatch.result.core.payload.status, run |-> dispatch.result.core.id])))
  <2>1. PICK payload : payload = [status |-> dispatch.result.core.payload.status,
                                  run |-> dispatch.result.core.id]
    OBVIOUS
  <2>2. PICK q : q = GateAnswer(dispatch.result.core.type, payload)
    OBVIOUS
  <2>3. /\ Shaped(q) /\ q.hash = q.core /\ (q.sig # None => q.sig.key = setup.authority.key)
        /\ q.core.type = dispatch.result.core.type /\ q.core.payload = payload
    BY <1>1, <2>1, <2>2, GateAnswerFields DEF Intact, TransportHash
  <2>4. Said(q.hash)
    <3> SUFFICES ASSUME q.core.type = "response" PROVE Delivered(payload)
      BY <1>1, <2>3 DEF Said
    <3>1. /\ req[Work].pc = "done" /\ Ans.kind = "packet" /\ Ans.pkt.core.type = "response"
          /\ dispatch.result.core = Ans.pkt.core /\ Ans.pkt.core.cause = DispatchId
      BY <1>2, <2>3 DEF WorkerBack
    <3>2. req[Work].outcome = "returned" /\ Ans.pkt.core.payload.status = "completed"
      BY <3>1 DEF WorkerLeg
    <3> QED BY <1>1, <1>2, <2>1, <3>1, <3>2 DEF Delivered
  <2>5. AsPacket(q).kind = "packet" /\ AsPacket(q).pkt = q
    BY DEF AsPacket
  <2> QED BY <1>1, <1>2, <2>1, <2>2, <2>3, <2>4, <2>5, GateRepliesOK
<1>3. CASE GateReplies(AsStatus(502))
  <2>1. AsStatus(502).kind = "status"
    BY DEF AsStatus
  <2> QED BY <1>1, <1>3, <2>1, GateRepliesOK
<1>4. CASE GateReplies(AsPacket(GateAnswer("failure", [status |-> "failed", run |-> None])))
  <2>1. PICK q : q = GateAnswer("failure", [status |-> "failed", run |-> None])
    OBVIOUS
  <2>2. /\ Shaped(q) /\ q.hash = q.core /\ (q.sig # None => q.sig.key = setup.authority.key)
        /\ q.core.type = "failure"
    BY <1>1, <2>1, GateAnswerFields DEF Intact, TransportHash
  <2>3. Said(q.hash) /\ AsPacket(q).kind = "packet" /\ AsPacket(q).pkt = q
    BY <1>1, <2>2 DEF Said, AsPacket
  <2> QED BY <1>1, <1>4, <2>1, <2>2, <2>3, GateRepliesOK
<1> QED BY <1>2, <1>3, <1>4 DEF GateAnswers

-----------------------------------------------------------------------------
(* The dispatch transport's steps.                                          *)

LEMMA DispatchRefusedOK == ASSUME IInv, DispatchFails \/ DispatchOnClosed PROVE IInv'
<1> USE DEF IInv
<1>1. /\ gate.pc = "asked" /\ ~Probe
      /\ DOMAIN gate' = DOMAIN gate /\ gate'.pc = "busy" /\ gate'.since = gate.since
      /\ gate'.pkt = gate.pkt
      /\ UNCHANGED <<now, setup, call, wire, req>>
      /\ Total' = Total /\ Probe' = Probe
  BY SetupKept DEF DispatchFails, DispatchOnClosed, AtDispatch, Setting, client, worker
<1>2. dispatch.pc = "idle" /\ DOMAIN dispatch' = DOMAIN dispatch /\ dispatch'.pc = "refused"
  BY <1>1 DEF DispatchFails, DispatchOnClosed, Refused, Order, Setting, NoCall
<1>3. ~Sent(dispatch) /\ ~Sent(dispatch)' /\ Sent(call)' = Sent(call)
  BY <1>1, <1>2 DEF Sent
<1>4. Setting'
  BY <1>1, <1>2 DEF Setting, Over, NoCall, NoWire, Worker!Idle, Worker!NoAnswer
<1>5. Order'
  BY <1>1, <1>2, <1>3 DEF Order
<1>6. ClientLeg'
  BY <1>1, <1>3 DEF ClientLeg
<1>7. DispatchLeg'
  BY <1>1, <1>3 DEF DispatchLeg, Order
<1>8. WorkerLeg' /\ WorkerBack'
  BY <1>1, <1>2, <1>3 DEF WorkerLeg, WorkerBack, Ans, Order
<1>9. ClientBack'
  BY <1>1, <1>2, <1>3 DEF ClientBack, Said, Delivered, Ans, ReceiptIsGates
<1> QED BY <1>4, <1>5, <1>6, <1>7, <1>8, <1>9

LEMMA DispatchPostsOK == ASSUME IInv, DispatchPosts PROVE IInv'
<1> USE DEF IInv
<1>1. PICK p : p = MaybeSign(setup.authority, Derived)
  OBVIOUS
<1>2. /\ gate.pc = "asked" /\ ~Probe /\ Remaining > 0
      /\ DOMAIN gate' = DOMAIN gate /\ gate'.pc = "busy" /\ gate'.since = gate.since
      /\ gate'.pkt = gate.pkt
      /\ DOMAIN wire' = DOMAIN wire /\ wire'.toGate = wire.toGate
      /\ wire'.toClient = wire.toClient /\ wire'.toWorker = p
      /\ wire'.toTransport = wire.toTransport
      /\ UNCHANGED <<now, setup, call, req>>
      /\ Total' = Total /\ Probe' = Probe
  BY <1>1, SetupKept DEF DispatchPosts, AtDispatch, Setting, NoWire, client, worker
<1>3. /\ dispatch.pc = "idle" /\ DOMAIN dispatch' = DOMAIN dispatch
      /\ dispatch'.pc = "waiting" /\ dispatch'.pkt = p /\ dispatch'.since = now
  BY <1>1, <1>2 DEF DispatchPosts, Order, Setting, NoCall
<1>4. ~Sent(dispatch) /\ Sent(dispatch)' /\ Sent(call)' = Sent(call) /\ Sent(call)
  BY <1>2, <1>3 DEF Sent, Order
<1>5. Travels(gate.pkt, call.pkt) /\ gate.since \in Int /\ now \in Int /\ Total \in Int
  BY <1>2, TotalType DEF ClientLeg, Setting
<1>6. /\ Shaped(p) /\ Whole(p) /\ Intact(p) /\ p.core.id = DispatchId
      /\ p.core.root = CallId /\ p.core.type = "request"
      /\ p.core.timeout = Total - (now - gate.since) /\ p.core.timeout > 0
  BY <1>1, <1>2, <1>4, <1>5, DerivedFields DEF Travels, ClientLeg, Setting, Remaining
<1>7. Setting'
  BY <1>2, <1>3 DEF Setting, Over, NoCall, NoWire, Worker!Idle, Worker!NoAnswer
<1>8. Order'
  BY <1>2, <1>3, <1>4 DEF Order, Setting
<1>9. ClientLeg'
  BY <1>2, <1>4 DEF ClientLeg
<1>10. DispatchLeg'
  BY <1>2, <1>3, <1>4, <1>5, <1>6 DEF DispatchLeg, Travels
<1>11. WorkerLeg' /\ WorkerBack'
  BY <1>2, <1>3, <1>4 DEF WorkerLeg, WorkerBack, Ans, Order
<1>12. ClientBack'
  BY <1>2, <1>3, <1>4 DEF ClientBack, Said, Delivered, Ans, ReceiptIsGates
<1> QED BY <1>7, <1>8, <1>9, <1>10, <1>11, <1>12

\* The end of a dispatch whose request was made.
LEMMA DispatchEnds ==
  ASSUME IInv, dispatch.pc = "waiting",
         DOMAIN dispatch' = DOMAIN dispatch, dispatch'.pc \in {"failed", "returned"},
         dispatch'.pkt = dispatch.pkt, dispatch'.since = dispatch.since,
         DOMAIN wire' = DOMAIN wire, wire'.toWorker \in {wire.toWorker, None},
         wire'.toTransport = NoReply, wire'.toGate = wire.toGate,
         wire'.toClient = wire.toClient,
         UNCHANGED <<now, setup, call, gate, req>>,
         dispatch'.pc = "returned" =>
           /\ req[Work].pc = "done" /\ Ans.kind = "packet"
           /\ dispatch'.result.core = Ans.pkt.core /\ Ans.pkt.core.cause = DispatchId
  PROVE  IInv'
<1> USE DEF IInv
<1>1. Total' = Total /\ Probe' = Probe
  BY SetupKept
<1>2. Sent(dispatch) /\ Sent(dispatch)' /\ Sent(call)' = Sent(call)
  BY DEF Sent
<1>3. Setting'
  BY DEF Setting, Over, NoCall, NoWire, Worker!Idle, Worker!NoAnswer
<1>4. Order'
  BY <1>1, <1>2 DEF Order
<1>5. ClientLeg'
  BY <1>1, <1>2 DEF ClientLeg
<1>6. DispatchLeg'
  BY <1>1, <1>2 DEF DispatchLeg
<1>7. WorkerLeg'
  BY DEF WorkerLeg, Ans
<1>8. WorkerBack'
  BY DEF WorkerBack, Ans, NoReply, Kinds
<1>9. ClientBack'
  <2>1. \A x : ~Delivered(x) \/ dispatch.pc = "returned"
    BY DEF Delivered
  <2>2. \A core : Said(core) => Said(core)'
    BY <1>1, <2>1 DEF Said
  <2> QED BY <1>1, <1>2, <2>2 DEF ClientBack, ReceiptIsGates
<1> QED BY <1>3, <1>4, <1>5, <1>6, <1>7, <1>8, <1>9

LEMMA DispatchStopsOK == ASSUME IInv, DispatchTimesOut \/ DispatchDisconnects PROVE IInv'
<1> USE DEF IInv
<1>1. /\ dispatch.pc = "waiting" /\ DOMAIN dispatch' = DOMAIN dispatch
      /\ dispatch'.pc = "failed" /\ dispatch'.pkt = dispatch.pkt
      /\ dispatch'.since = dispatch.since
      /\ UNCHANGED <<now, setup, call, gate, req>>
  BY DEF DispatchTimesOut, DispatchDisconnects, Raised, Setting, NoCall, client, worker
<1>2. /\ DOMAIN wire' = DOMAIN wire /\ wire'.toWorker \in {wire.toWorker, None}
      /\ wire'.toTransport = NoReply /\ wire'.toGate = wire.toGate
      /\ wire'.toClient = wire.toClient
  BY DEF DispatchTimesOut, DispatchDisconnects, Setting, NoWire
<1> QED BY <1>1, <1>2, DispatchEnds

LEMMA DispatchReceivesOK == ASSUME IInv, DispatchReceives PROVE IInv'
<1> USE DEF IInv
<1>1. PICK r : r = wire.toTransport
  OBVIOUS
<1>2. PICK error : error = WorkerReplyError(setup.authority, dispatch.pkt, Node, r, now)
  OBVIOUS
<1>3. /\ dispatch.pc = "waiting" /\ r # NoReply /\ dispatch' = Judged(dispatch, r, error)
      /\ DOMAIN wire' = DOMAIN wire /\ wire'.toWorker = wire.toWorker
      /\ wire'.toTransport = NoReply /\ wire'.toGate = wire.toGate
      /\ wire'.toClient = wire.toClient
      /\ UNCHANGED <<now, setup, call, gate, req>>
  BY <1>1, <1>2 DEF DispatchReceives, Setting, NoWire, client, worker
<1>4. /\ DOMAIN dispatch' = DOMAIN dispatch /\ dispatch'.pc \in {"failed", "returned"}
      /\ dispatch'.pkt = dispatch.pkt /\ dispatch'.since = dispatch.since
      /\ dispatch'.pc = "returned" => error = None /\ dispatch'.result = r.pkt
  <2>1. CASE error = None
    BY <1>3, <2>1 DEF Judged, Setting, NoCall
  <2>2. CASE error # None
    BY <1>3, <2>2 DEF Judged, Raised, Setting, NoCall
  <2> QED BY <2>1, <2>2
<1>5. ASSUME dispatch'.pc = "returned"
      PROVE  /\ req[Work].pc = "done" /\ Ans.kind = "packet"
             /\ dispatch'.result.core = Ans.pkt.core /\ Ans.pkt.core.cause = DispatchId
  <2>1. error = None /\ dispatch'.result = r.pkt
    BY <1>4, <1>5
  <2>2. /\ r.kind \notin {"status", "page"} /\ Intact(r.pkt)
        /\ AnswersDispatch(r.pkt, dispatch.pkt, Node, setup.authority.gate)
    BY <1>2, <2>1, RailAssumption DEF WorkerReplyError, DispatchErrors
  <2>3. r.kind = "packet"
    BY <1>1, <1>3, <2>2 DEF WorkerBack, Kinds
  <2>4. /\ req[Work].pc = "done" /\ Ans.kind = "packet" /\ Travels(r.pkt, Ans.pkt)
    BY <1>1, <2>3 DEF WorkerBack
  <2>5. Ans.pkt.hash = Ans.pkt.core
    BY <2>4 DEF WorkerLeg, Answering, Intact, TransportHash
  <2>6. r.pkt.core = Ans.pkt.core
    BY <2>2, <2>4, <2>5 DEF Travels, Intact, TransportHash
  <2>7. r.pkt.core.cause = DispatchId
    BY <1>3, <2>2 DEF AnswersDispatch, DispatchLeg, Sent
  <2> QED BY <2>1, <2>4, <2>6, <2>7
<1> QED BY <1>3, <1>4, <1>5, DispatchEnds

\* The transport's pool, which no packet depends on; and no step.
LEMMA PoolOK ==
  ASSUME IInv, EnterPool \/ ClosePool \/ PoolClosed \/ UNCHANGED vars
  PROVE  IInv'
<1> USE DEF IInv
<1>1. UNCHANGED <<now, setup, call, gate, dispatch, wire, req>> /\ Total' = Total /\ Probe' = Probe
  BY SetupKept DEF EnterPool, ClosePool, PoolClosed, vars, client, transport, worker
<1>2. Sent(call)' = Sent(call) /\ Sent(dispatch)' = Sent(dispatch)
  BY <1>1 DEF Sent
<1>3. Setting' /\ Order' /\ ClientLeg' /\ DispatchLeg'
  BY <1>1, <1>2 DEF Setting, Order, ClientLeg, DispatchLeg
<1>4. WorkerLeg' /\ WorkerBack'
  BY <1>1 DEF WorkerLeg, WorkerBack, Ans
<1>5. ClientBack'
  BY <1>1, <1>2 DEF ClientBack, Said, Delivered, Ans, ReceiptIsGates
<1> QED BY <1>3, <1>4, <1>5

-----------------------------------------------------------------------------
(* The worker's steps.                                                      *)

\* A step of the worker that keeps the worker's part of the invariant.
LEMMA WorkerMoves ==
  ASSUME IInv, UNCHANGED <<now, setup, call, gate, dispatch>>, Sent(dispatch),
         DOMAIN wire' = DOMAIN wire, wire'.toGate = wire.toGate,
         wire'.toClient = wire.toClient, wire'.toWorker = None,
         wire'.toTransport # wire.toTransport =>
           req'[Work].pc = "done" /\ wire'.toTransport = AsReply(req'[Work].answer),
         req[Work].pc # "done", DOMAIN req' = {Work}, DOMAIN req'[Work] = DOMAIN req[Work],
         req'[Work].pc \in {"running", "done"}, WorkerLeg'
  PROVE  IInv'
<1> USE DEF IInv
<1>1. Total' = Total /\ Probe' = Probe
  BY SetupKept
<1>2. Sent(call)' = Sent(call) /\ Sent(dispatch)'
  BY DEF Sent
<1>3. Setting'
  BY DEF Setting, Over, NoCall, NoWire, Worker!Idle, Worker!NoAnswer
<1>4. Order'
  BY <1>1, <1>2 DEF Order
<1>5. ClientLeg' /\ DispatchLeg'
  BY <1>1, <1>2 DEF ClientLeg, DispatchLeg
<1>6. WorkerBack'
  <2>1. wire.toTransport.kind \notin {"page", "packet"} /\ dispatch.pc # "returned"
    BY DEF WorkerBack
  <2>2. CASE wire'.toTransport = wire.toTransport
    BY <2>1, <2>2 DEF WorkerBack
  <2>3. CASE wire'.toTransport # wire.toTransport
    <3>1. req'[Work].pc = "done" /\ wire'.toTransport = AsReply(Ans')
      BY <2>3 DEF Ans
    <3>2. CASE Ans'.kind = "packet"
      <4>1. wire'.toTransport.kind = "packet" /\ wire'.toTransport.pkt = Ans'.pkt
        BY <3>1, <3>2 DEF AsReply, AsPacket
      <4>2. Shaped(Ans'.pkt)
        BY <3>1, <3>2 DEF WorkerLeg, Answering
      <4> QED BY <2>1, <3>1, <3>2, <4>1, <4>2 DEF WorkerBack, Travels, Kinds
    <3>3. CASE Ans'.kind # "packet"
      <4>1. wire'.toTransport.kind = "status"
        BY <3>1, <3>3 DEF AsReply, AsStatus
      <4> QED BY <2>1, <4>1 DEF WorkerBack, Kinds
    <3> QED BY <3>2, <3>3
  <2> QED BY <2>2, <2>3
<1>7. ClientBack'
  <2>1. \A x : ~Delivered(x)
    BY DEF Delivered
  <2>2. \A core : Said(core) => Said(core)'
    BY <1>1, <2>1 DEF Said
  <2> QED BY <1>1, <1>2, <2>2 DEF ClientBack, ReceiptIsGates
<1> QED BY <1>3, <1>4, <1>5, <1>6, <1>7

\* The wire after a step of the worker.
LEMMA WorkerWire ==
  ASSUME Setting, NEW taken \in BOOLEAN,
         wire' = [wire EXCEPT
           !.toWorker = IF taken THEN None ELSE @,
           !.toTransport = IF Worker!Answered(Work)' /\ dispatch.pc = "waiting"
                             THEN AsReply(req'[Work].answer) ELSE @]
  PROVE  /\ DOMAIN wire' = DOMAIN wire /\ wire'.toGate = wire.toGate
         /\ wire'.toClient = wire.toClient
         /\ wire'.toWorker = IF taken THEN None ELSE wire.toWorker
         /\ wire'.toTransport # wire.toTransport =>
              req'[Work].pc = "done" /\ wire'.toTransport = AsReply(req'[Work].answer)
  BY DEF Setting, NoWire, Worker!Answered

\* The worker takes the dispatch and does not run it.
LEMMA WorkerTurnsOK ==
  ASSUME IInv, wire.toWorker # None, NEW a, Answering(a),
         a.kind = "packet" => a.pkt.core.type = "failure",
         WorkerActs(Worker!Turned(Work, wire.toWorker, "execute", a), TRUE)
  PROVE  IInv'
<1> USE DEF IInv
<1>1. /\ UNCHANGED <<now, setup, call, gate, dispatch>>
      /\ Sent(dispatch) /\ req[Work].pc = "idle"
  BY DEF WorkerActs, client, transport, Order
<1>2. PICK w : w = [Worker!Idle EXCEPT !.pc = "done", !.pkt = wire.toWorker, !.route = "execute",
                                       !.since = now + setup.drift, !.outcome = "refused",
                                       !.answer = a]
  OBVIOUS
<1>3. req' = [req EXCEPT ![Work] = w]
  BY <1>2 DEF WorkerActs, Worker!Turned
<1>4. /\ DOMAIN req' = {Work} /\ req'[Work] = w
      /\ DOMAIN w = DOMAIN req[Work] /\ w.pc = "done" /\ w.outcome = "refused" /\ w.answer = a
  BY <1>2, <1>3 DEF Setting, Worker!Idle
<1>5. WorkerLeg'
  BY <1>4 DEF WorkerLeg, Ans, Answering
<1>6. /\ DOMAIN wire' = DOMAIN wire /\ wire'.toGate = wire.toGate
      /\ wire'.toClient = wire.toClient /\ wire'.toWorker = None
      /\ wire'.toTransport # wire.toTransport =>
           req'[Work].pc = "done" /\ wire'.toTransport = AsReply(req'[Work].answer)
  BY WorkerWire DEF WorkerActs
<1> QED BY <1>1, <1>4, <1>5, <1>6, WorkerMoves

LEMMA WorkerTakesOK == ASSUME IInv, WorkerTakes PROVE IInv'
<1> USE DEF IInv
<1>1. wire.toWorker # None /\ Sent(dispatch) /\ req[Work].pc = "idle"
  BY DEF WorkerTakes, Order
<1>2. /\ Travels(wire.toWorker, dispatch.pkt) /\ Whole(wire.toWorker)
      /\ Whole(dispatch.pkt) /\ Intact(dispatch.pkt) /\ Shaped(wire.toWorker)
  BY <1>1 DEF DispatchLeg, Travels
<1>3. CASE WorkerActs(Worker!RejectBody(Work, wire.toWorker, "execute"), TRUE)
  <2>1. WorkerActs(Worker!Turned(Work, wire.toWorker, "execute", Worker!Http(400)), TRUE)
    BY <1>3 DEF WorkerActs, Worker!RejectBody
  <2>2. Worker!Http(400).kind = "http"
    BY DEF Worker!Http
  <2> QED BY <1>1, <2>1, <2>2, WorkerTurnsOK DEF Answering
<1>4. CASE WorkerActs(Worker!Refuse(Work, wire.toWorker, "execute"), TRUE)
  <2>1. PICK error : error = Worker!Refusal(wire.toWorker, "execute")
    OBVIOUS
  <2>2. PICK a : a = Worker!FailureAnswer(Work, wire.toWorker, error, FALSE)
    OBVIOUS
  <2>3. WorkerActs(Worker!Turned(Work, wire.toWorker, "execute", a), TRUE)
    BY <1>4, <2>1, <2>2 DEF WorkerActs, Worker!Refuse
  <2>4. Answering(a) /\ (a.kind = "packet" => a.pkt.core.type = "failure")
    BY <1>2, <2>2, FailureFields
  <2> QED BY <1>1, <2>3, <2>4, WorkerTurnsOK
<1>5. CASE WorkerActs(Worker!Start(Work, wire.toWorker, "execute"), TRUE)
  <2>1. UNCHANGED <<now, setup, call, gate, dispatch>>
    BY <1>5 DEF WorkerActs, client, transport
  <2>2. PICK w : w = [Worker!Idle EXCEPT !.pc = "running", !.pkt = wire.toWorker,
                        !.route = "execute",
                        !.handler = Worker!HandlerFor(wire.toWorker.core.action),
                        !.since = now + setup.drift]
    OBVIOUS
  <2>3. req' = [req EXCEPT ![Work] = w] /\ Worker!Decodable(wire.toWorker)
    BY <1>5, <2>2 DEF WorkerActs, Worker!Start
  <2>4. /\ DOMAIN req' = {Work} /\ req'[Work] = w
        /\ DOMAIN w = DOMAIN req[Work] /\ w.pc = "running" /\ w.pkt = wire.toWorker
        /\ w.since = now + setup.drift
    BY <2>2, <2>3 DEF Setting, Worker!Idle
  <2>5. Intact(wire.toWorker) /\ wire.toWorker.core = dispatch.pkt.core
    BY <1>2, <2>3, IntactTravels DEF Worker!Decodable, Worker!Intact, Worker!TransportHash,
       Intact, TransportHash
  <2>6. WorkerLeg'
    <3>1. dispatch.pkt.core.timeout > 0 /\ now \in Int /\ setup.drift \in Int
      BY <1>1, TotalType DEF DispatchLeg, Setting
    <3>2. dispatch.pkt.core.timeout \in Int
      BY <1>1, TotalType DEF DispatchLeg, Setting, ClientLeg, Order, Sent
    <3> QED BY <1>2, <2>1, <2>4, <2>5, <3>1, <3>2 DEF WorkerLeg, Ans
  <2>7. /\ DOMAIN wire' = DOMAIN wire /\ wire'.toGate = wire.toGate
        /\ wire'.toClient = wire.toClient /\ wire'.toWorker = None
        /\ wire'.toTransport # wire.toTransport =>
             req'[Work].pc = "done" /\ wire'.toTransport = AsReply(req'[Work].answer)
    BY <1>5, WorkerWire DEF WorkerActs
  <2> QED BY <1>1, <2>1, <2>4, <2>6, <2>7, WorkerMoves
<1> QED BY <1>3, <1>4, <1>5 DEF WorkerTakes

\* The worker answers the dispatch it runs.
LEMMA WorkerAnswersOK ==
  ASSUME IInv, req[Work].pc = "running", NEW outcome, NEW a, Answering(a),
         a.kind = "packet" /\ a.pkt.core.type = "response" =>
           \/ outcome = "returned" /\ a.pkt.core.payload.status = "completed"
           \/ outcome = "forwarded" /\ a.pkt.core.cause # DispatchId,
         WorkerActs(Worker!Answer(Work, outcome, a), FALSE)
  PROVE  IInv'
<1> USE DEF IInv
<1>1. /\ UNCHANGED <<now, setup, call, gate, dispatch>>
      /\ Sent(dispatch) /\ wire.toWorker = None /\ req[Work].pkt.core = dispatch.pkt.core
  BY DEF WorkerActs, client, transport, Order, WorkerLeg
<1>2. PICK w : w = [req[Work] EXCEPT !.pc = "done", !.outcome = outcome, !.answer = a]
  OBVIOUS
<1>3. req' = [req EXCEPT ![Work] = w]
  BY <1>2 DEF WorkerActs, Worker!Answer, Setting
<1>4. /\ DOMAIN req' = {Work} /\ req'[Work] = w
      /\ DOMAIN w = DOMAIN req[Work] /\ w.pc = "done" /\ w.outcome = outcome /\ w.answer = a
      /\ w.pkt = req[Work].pkt
  BY <1>2, <1>3 DEF Setting, Worker!Idle
<1>5. WorkerLeg'
  BY <1>1, <1>4 DEF WorkerLeg, Ans, Answering
<1>6. /\ DOMAIN wire' = DOMAIN wire /\ wire'.toGate = wire.toGate
      /\ wire'.toClient = wire.toClient /\ wire'.toWorker = None
      /\ wire'.toTransport # wire.toTransport =>
           req'[Work].pc = "done" /\ wire'.toTransport = AsReply(req'[Work].answer)
  BY <1>1, WorkerWire DEF WorkerActs
<1> QED BY <1>1, <1>4, <1>5, <1>6, WorkerMoves

\* wait_for cancels a handler that goes on with its cleanup.
LEMMA WorkerCancelsOK == ASSUME IInv, WorkerActs(Worker!Cancel(Work), FALSE) PROVE IInv'
<1> USE DEF IInv
<1>1. /\ UNCHANGED <<now, setup, call, gate, dispatch>>
      /\ req[Work].pc = "running" /\ Sent(dispatch) /\ wire.toWorker = None
  BY DEF WorkerActs, client, transport, Order, Worker!Cancel, Worker!Due, Worker!Cancellable,
     Worker!Running
<1>2. PICK w : w = [req[Work] EXCEPT !.cancelled = now + setup.drift]
  OBVIOUS
<1>3. req' = [req EXCEPT ![Work] = w]
  BY <1>2 DEF WorkerActs, Worker!Cancel, Setting
<1>4. /\ DOMAIN req' = {Work} /\ req'[Work] = w
      /\ DOMAIN w = DOMAIN req[Work] /\ w.pc = "running" /\ w.cancelled = now + setup.drift
      /\ w.pkt = req[Work].pkt /\ w.since = req[Work].since /\ w.handler = req[Work].handler
  BY <1>1, <1>2, <1>3 DEF Setting, Worker!Idle
<1>5. now + setup.drift <= req[Work].since + req[Work].pkt.core.timeout
  BY <1>1 DEF WorkerLeg, WorkerActs, Worker!Cancel, Worker!Due, Worker!Cancellable
<1>6. WorkerLeg'
  BY <1>1, <1>4, <1>5 DEF WorkerLeg
<1>7. /\ DOMAIN wire' = DOMAIN wire /\ wire'.toGate = wire.toGate
      /\ wire'.toClient = wire.toClient /\ wire'.toWorker = None
      /\ wire'.toTransport # wire.toTransport =>
           req'[Work].pc = "done" /\ wire'.toTransport = AsReply(req'[Work].answer)
  BY <1>1, WorkerWire DEF WorkerActs
<1> QED BY <1>1, <1>4, <1>6, <1>7, WorkerMoves

\* The steps by which a handler's request is answered.
LEMMA EndingCases ==
  ASSUME WorkerEnds \/ WorkerTimesOut
  PROVE  \/ \E payload \in Results : WorkerActs(Worker!ReturnDict(Work, payload), FALSE)
         \/ \E q \in Elsewhere : WorkerActs(Worker!ReturnPacket(Work, q), FALSE)
         \/ WorkerActs(Worker!ReturnRequest(Work), FALSE)
         \/ \E error \in {} \cup {"TypeError", "ValueError"}, blank \in BOOLEAN :
              WorkerActs(Worker!RaiseError(Work, error, blank), FALSE)
         \/ WorkerActs(Worker!EndCancelled(Work), FALSE)
         \/ WorkerActs(Worker!TimeOut(Work), FALSE)
         \/ WorkerActs(Worker!Cancel(Work), FALSE)
  BY DEF WorkerEnds, WorkerTimesOut, WorkerActs, Worker!HandlerEnds

\* A step of the worker's handler: it goes on, cancelled, or it is answered.
LEMMA WorkerGoesOn ==
  ASSUME IInv, WorkerEnds \/ WorkerTimesOut
  PROVE  /\ req[Work].pc = "running" /\ req'[Work].pkt = req[Work].pkt
         /\ \/ /\ req'[Work].pc = "running" /\ req'[Work].since = req[Work].since
               /\ req'[Work].outcome = req[Work].outcome
            \/ /\ req'[Work].pc = "done"
               /\ req'[Work].outcome \in {"returned", "forwarded", "raised", "blank", "timeout"}
<1>1. req[Work].pc = "running"
  BY EndingCases DEF WorkerActs, Worker!ReturnDict, Worker!ReturnPacket,
     Worker!ReturnRequest, Worker!RaiseError, Worker!TimeOut, Worker!Cancel,
     Worker!EndCancelled, Worker!OnLoop, Worker!Running, Worker!Due, Worker!Cancellable
<1>2. CASE WorkerActs(Worker!Cancel(Work), FALSE)
  <2>1. req' = [req EXCEPT ![Work].cancelled = now + setup.drift]
    BY <1>2 DEF WorkerActs, Worker!Cancel
  <2>2. /\ req'[Work].pc = req[Work].pc /\ req'[Work].pkt = req[Work].pkt
        /\ req'[Work].since = req[Work].since /\ req'[Work].outcome = req[Work].outcome
    BY <2>1 DEF IInv, Setting, Worker!Idle
  <2> QED BY <1>1, <2>2
<1>3. ASSUME NEW outcome \in {"returned", "forwarded", "raised", "blank", "timeout"}, NEW a,
             Worker!Answer(Work, outcome, a)
      PROVE  /\ req'[Work].pc = "done" /\ req'[Work].pkt = req[Work].pkt
             /\ req'[Work].outcome \in {"returned", "forwarded", "raised", "blank", "timeout"}
  BY <1>3 DEF Worker!Answer, IInv, Setting, Worker!Idle
<1>4. CASE ~WorkerActs(Worker!Cancel(Work), FALSE)
  <2>1. \E outcome \in {"returned", "forwarded", "raised", "blank", "timeout"} :
          \E a : Worker!Answer(Work, outcome, a)
    <3>1. CASE \E payload \in Results : WorkerActs(Worker!ReturnDict(Work, payload), FALSE)
      BY <3>1, Zenon DEF WorkerActs, Worker!ReturnDict
    <3>2. CASE \/ \E q \in Elsewhere : WorkerActs(Worker!ReturnPacket(Work, q), FALSE)
               \/ WorkerActs(Worker!ReturnRequest(Work), FALSE)
      BY <3>2, Zenon DEF WorkerActs, Worker!ReturnPacket, Worker!ReturnRequest
    <3>3. CASE \E error \in {} \cup {"TypeError", "ValueError"}, blank \in BOOLEAN :
                 WorkerActs(Worker!RaiseError(Work, error, blank), FALSE)
      <4>1. PICK error, blank : WorkerActs(Worker!RaiseError(Work, error, blank), FALSE)
        BY <3>3
      <4>2. PICK outcome : outcome = IF blank THEN "blank" ELSE "raised"
        OBVIOUS
      <4>3. Worker!Answer(Work, outcome, Worker!FailureAnswer(Work, req[Work].pkt, error, blank))
        BY <4>1, <4>2, Zenon DEF WorkerActs, Worker!RaiseError
      <4> QED BY <4>2, <4>3, Zenon
    <3>4. CASE WorkerActs(Worker!EndCancelled(Work), FALSE) \/ WorkerActs(Worker!TimeOut(Work), FALSE)
      BY <3>4, Zenon DEF WorkerActs, Worker!EndCancelled, Worker!TimeOut, Worker!TimeoutAnswer
    <3> QED BY <1>4, <3>1, <3>2, <3>3, <3>4, EndingCases
  <2> QED BY <1>1, <1>3, <2>1
<1> QED BY <1>2, <1>4

\* The handler ends, or is stopped.
LEMMA WorkerEndsOK == ASSUME IInv, WorkerEnds \/ WorkerTimesOut PROVE IInv'
<1> USE DEF IInv
<1>1. req[Work].pc = "running"
  BY WorkerGoesOn
<1>2. PICK p : p = req[Work].pkt
  OBVIOUS
<1>3. Shaped(p) /\ Intact(p) /\ p.core.type = "request"
  BY <1>1, <1>2 DEF WorkerLeg, DispatchLeg, Order
<1>4. ASSUME NEW outcome, NEW error, NEW blank,
             WorkerActs(Worker!Answer(Work, outcome,
                          Worker!FailureAnswer(Work, p, error, blank)), FALSE)
      PROVE  IInv'
  BY <1>1, <1>3, <1>4, FailureFields, WorkerAnswersOK
<1>5. CASE \E payload \in Results : WorkerActs(Worker!ReturnDict(Work, payload), FALSE)
  <2>1. PICK payload \in Results :
          /\ WorkerActs(Worker!ReturnDict(Work, payload), FALSE)
          /\ "status" \in DOMAIN payload /\ payload.status \in {"completed", "failed"}
    BY <1>5, RailAssumption
  <2>2. PICK core : core = Worker!AnswerCore(p, <<Work, 1>>, now + setup.drift, "response", Node,
                                             payload)
    OBVIOUS
  <2>3. PICK q : q = Worker!Unsigned(core, p.restricted)
    OBVIOUS
  <2>4. /\ Shaped(q) /\ Intact(q) /\ q.core.payload = payload
    BY <1>3, <2>1, <2>2, <2>3, WorkerCore
  <2>5. CASE Worker!HeaderOK(core)
    <3>1. WorkerActs(Worker!Answer(Work, "returned", Worker!Respond(Work, p, q)), FALSE)
      BY <1>2, <2>1, <2>2, <2>3, <2>5 DEF WorkerActs, Worker!ReturnDict
    <3>2. PICK a : a = Worker!Respond(Work, p, q)
      OBVIOUS
    <3>3. /\ Answering(a)
          /\ a.kind = "packet" =>
               \/ a.pkt.core.type = "failure"
               \/ a.pkt.core = q.core /\ q.core.payload.status # "failed"
      BY <1>3, <2>4, <3>2, RespondFields
    <3>4. a.kind = "packet" /\ a.pkt.core.type = "response" =>
            a.pkt.core.payload.status = "completed"
      BY <2>1, <2>4, <3>3
    <3> QED BY <1>1, <3>1, <3>2, <3>3, <3>4, WorkerAnswersOK
  <2>6. CASE ~Worker!HeaderOK(core)
    <3>1. WorkerActs(Worker!Answer(Work, "returned",
                       Worker!FailureAnswer(Work, p, "ValidationError", FALSE)), FALSE)
      BY <1>2, <2>1, <2>2, <2>6 DEF WorkerActs, Worker!ReturnDict
    <3> QED BY <1>4, <3>1
  <2> QED BY <2>5, <2>6
<1>6. CASE \E q \in Elsewhere : WorkerActs(Worker!ReturnPacket(Work, q), FALSE)
  <2>1. PICK q \in Elsewhere : WorkerActs(Worker!ReturnPacket(Work, q), FALSE)
    BY <1>6
  <2>2. Shaped(q) /\ Intact(q) /\ q.core.cause # DispatchId
    BY RailAssumption DEF Shaped, DispatchId
  <2>3. PICK a : a = Worker!Respond(Work, p, q)
    OBVIOUS
  <2>4. WorkerActs(Worker!Answer(Work, "forwarded", a), FALSE)
    BY <1>2, <2>1, <2>3 DEF WorkerActs, Worker!ReturnPacket
  <2>5. /\ Answering(a)
        /\ a.kind = "packet" => a.pkt.core.type = "failure" \/ a.pkt.core = q.core
    BY <1>3, <2>2, <2>3, RespondFields
  <2> QED BY <1>1, <2>2, <2>4, <2>5, WorkerAnswersOK
<1>7. CASE WorkerActs(Worker!ReturnRequest(Work), FALSE)
  <2>1. PICK q : q = Worker!Processing(p, req[Work].since)
    OBVIOUS
  <2>2. Shaped(q) /\ Intact(q) /\ q.core = p.core
    BY <1>3, <2>1 DEF Worker!Processing, Worker!WithHop, Shaped, Intact, TransportHash
  <2>3. PICK a : a = Worker!Respond(Work, p, q)
    OBVIOUS
  <2>4. WorkerActs(Worker!Answer(Work, "forwarded", a), FALSE)
    BY <1>2, <1>7, <2>1, <2>3 DEF WorkerActs, Worker!ReturnRequest
  <2>5. /\ Answering(a)
        /\ a.kind = "packet" => a.pkt.core.type \in {"failure", "request"}
    BY <1>3, <2>2, <2>3, RespondFields
  <2> QED BY <1>1, <2>4, <2>5, WorkerAnswersOK
<1>8. CASE \E error \in {} \cup {"TypeError", "ValueError"}, blank \in BOOLEAN :
             WorkerActs(Worker!RaiseError(Work, error, blank), FALSE)
  <2>1. PICK error, blank : WorkerActs(Worker!RaiseError(Work, error, blank), FALSE)
    BY <1>8
  <2>2. PICK outcome : outcome = IF blank THEN "blank" ELSE "raised"
    OBVIOUS
  <2>3. WorkerActs(Worker!Answer(Work, outcome, Worker!FailureAnswer(Work, p, error, blank)), FALSE)
    BY <1>2, <2>1, <2>2 DEF WorkerActs, Worker!RaiseError
  <2> QED BY <1>4, <2>3
<1>9. CASE WorkerActs(Worker!EndCancelled(Work), FALSE) \/ WorkerActs(Worker!TimeOut(Work), FALSE)
  <2>1. WorkerActs(Worker!Answer(Work, "timeout",
                     Worker!FailureAnswer(Work, p, "TimeoutError", FALSE)), FALSE)
    BY <1>2, <1>9 DEF WorkerActs, Worker!EndCancelled, Worker!TimeOut, Worker!TimeoutAnswer
  <2> QED BY <1>4, <2>1
<1> QED BY <1>5, <1>6, <1>7, <1>8, <1>9, EndingCases, WorkerCancelsOK

-----------------------------------------------------------------------------
(* The network and the clock.                                               *)

\* What damage makes of a reply with x, a packet p on its way.
LEMMA DamagedReply ==
  ASSUME NEW p, NEW x, Travels(x, p), NEW r,
         r \in DamagedReplies(x)
  PROVE  /\ r.kind \in {"status", "page", "packet"}
         /\ r.kind # "status" => Travels(r.pkt, p)
  BY SpoiledTravels, RelabelledTravels DEF DamagedReplies, AsStatus, AsPacket

LEMMA DamageOK == ASSUME IInv, Damage PROVE IInv'
<1> USE DEF IInv
<1>1. /\ UNCHANGED <<now, setup, call, gate, dispatch, req>>
      /\ Total' = Total /\ Probe' = Probe
  BY SetupKept DEF Damage, client, transport, worker
<1>2. Sent(call)' = Sent(call) /\ Sent(dispatch)' = Sent(dispatch)
  BY <1>1 DEF Sent
<1>3. \A core : Said(core)' = Said(core)
  BY <1>1, <1>2 DEF Said, Delivered, Ans
<1>4. CASE /\ wire.toGate # None
           /\ \E p \in {Spoiled(wire.toGate), Relabelled(wire.toGate)} :
                wire' = [wire EXCEPT !.toGate = p]
  <2>1. /\ DOMAIN wire' = DOMAIN wire
        /\ wire'.toGate \in {Spoiled(wire.toGate), Relabelled(wire.toGate)}
        /\ wire'.toClient = wire.toClient /\ wire'.toWorker = wire.toWorker
        /\ wire'.toTransport = wire.toTransport
    BY <1>4 DEF Setting, NoWire
  <2>2. Travels(wire'.toGate, call.pkt)
    BY <1>4, <2>1, SpoiledTravels, RelabelledTravels DEF ClientLeg
  <2> QED BY <1>1, <1>2, <1>3, <1>4, <2>1, <2>2 DEF Setting, Order, ClientLeg, DispatchLeg,
            WorkerLeg, WorkerBack, ClientBack, Ans, ReceiptIsGates
<1>5. CASE /\ wire.toWorker # None
           /\ \E p \in {Spoiled(wire.toWorker), Relabelled(wire.toWorker)} :
                wire' = [wire EXCEPT !.toWorker = p]
  <2>1. /\ DOMAIN wire' = DOMAIN wire
        /\ wire'.toWorker \in {Spoiled(wire.toWorker), Relabelled(wire.toWorker)}
        /\ wire'.toClient = wire.toClient /\ wire'.toGate = wire.toGate
        /\ wire'.toTransport = wire.toTransport
    BY <1>5 DEF Setting, NoWire
  <2>2. Travels(wire'.toWorker, dispatch.pkt) /\ Whole(wire'.toWorker)
    BY <1>5, <2>1, SpoiledTravels, RelabelledTravels DEF DispatchLeg
  <2> QED BY <1>1, <1>2, <1>3, <1>5, <2>1, <2>2 DEF Setting, Order, ClientLeg, DispatchLeg,
            WorkerLeg, WorkerBack, ClientBack, Ans, ReceiptIsGates
<1>6. CASE \E r \in DamagedReplies(wire.toClient.pkt) :
             wire.toClient.kind = "packet" /\ wire' = [wire EXCEPT !.toClient = r]
  <2>1. PICK r \in DamagedReplies(wire.toClient.pkt) :
               wire.toClient.kind = "packet" /\ wire' = [wire EXCEPT !.toClient = r]
    BY <1>6
  <2>2. /\ DOMAIN wire' = DOMAIN wire /\ wire'.toClient = r /\ wire'.toGate = wire.toGate
        /\ wire'.toWorker = wire.toWorker /\ wire'.toTransport = wire.toTransport
    BY <2>1 DEF Setting, NoWire
  <2>3. PICK p : p = wire.toClient.pkt
    OBVIOUS
  <2>4. Travels(p, p) /\ (p.sig # None => p.sig.key = setup.authority.key) /\ Said(p.hash)
    BY <2>1, <2>3 DEF ClientBack, Travels
  <2>5. /\ r.kind \in {"status", "page", "packet"}
        /\ r.kind # "status" => Travels(r.pkt, p)
    BY <2>1, <2>3, <2>4, DamagedReply
  <2>6. ClientBack'
    BY <1>1, <1>3, <2>2, <2>4, <2>5 DEF ClientBack, Travels, Kinds, ReceiptIsGates
  <2> QED BY <1>1, <1>2, <2>2, <2>6 DEF Setting, Order, ClientLeg, DispatchLeg,
            WorkerLeg, WorkerBack, Ans
<1>7. CASE \E r \in DamagedReplies(wire.toTransport.pkt) :
             wire.toTransport.kind = "packet" /\ wire' = [wire EXCEPT !.toTransport = r]
  <2>1. PICK r \in DamagedReplies(wire.toTransport.pkt) :
               wire.toTransport.kind = "packet" /\ wire' = [wire EXCEPT !.toTransport = r]
    BY <1>7
  <2>2. /\ DOMAIN wire' = DOMAIN wire /\ wire'.toTransport = r /\ wire'.toGate = wire.toGate
        /\ wire'.toWorker = wire.toWorker /\ wire'.toClient = wire.toClient
    BY <2>1 DEF Setting, NoWire
  <2>3. /\ req[Work].pc = "done" /\ Ans.kind = "packet"
        /\ Travels(wire.toTransport.pkt, Ans.pkt)
    BY <2>1 DEF WorkerBack
  <2>4. /\ r.kind \in {"status", "page", "packet"}
        /\ r.kind # "status" => Travels(r.pkt, Ans.pkt)
    BY <2>1, <2>3, DamagedReply
  <2>5. WorkerBack'
    BY <1>1, <2>2, <2>3, <2>4 DEF WorkerBack, Ans, Kinds
  <2> QED BY <1>1, <1>2, <1>3, <2>2, <2>5 DEF Setting, Order, ClientLeg, DispatchLeg,
            WorkerLeg, ClientBack, Ans, ReceiptIsGates
<1> QED BY <1>4, <1>5, <1>6, <1>7 DEF Damage

\* Time passes, but not for a suspended handler whose budget is spent.
LEMMA TickOK == ASSUME IInv, Tick PROVE IInv'
<1> USE DEF IInv
<1>1. /\ UNCHANGED <<setup, call, gate, dispatch, wire, req>> /\ now' = now + 1
      /\ Total' = Total /\ Probe' = Probe
  BY SetupKept DEF Tick, client, transport, worker
<1>2. Sent(call)' = Sent(call) /\ Sent(dispatch)' = Sent(dispatch)
  BY <1>1 DEF Sent
<1>3. Setting' /\ Order' /\ ClientLeg' /\ DispatchLeg'
  BY <1>1, <1>2 DEF Setting, Order, ClientLeg, DispatchLeg
<1>4. WorkerLeg'
  <2>1. ASSUME req[Work].pc = "running", req[Work].handler # "sync",
               req[Work].cancelled = None
        PROVE  now + 1 + setup.drift <= req[Work].since + req[Work].pkt.core.timeout
    <3>1. ~Worker!Blocked
      BY <2>1 DEF Worker!Blocked
    <3>2. ~(now + setup.drift >= req[Work].since + req[Work].pkt.core.timeout)
      BY <2>1, <3>1 DEF Tick, Worker!Due, Worker!Cancellable, Worker!Running, Worker!Deadline
    <3>3. /\ now \in Int /\ setup.drift \in Int /\ req[Work].since \in Int
          /\ req[Work].pkt.core.timeout \in Int
      BY <2>1, TotalType DEF Setting, WorkerLeg, DispatchLeg, ClientLeg, Order, Sent
    <3> QED BY <3>2, <3>3
  <2> QED BY <1>1, <2>1 DEF WorkerLeg, Ans
<1>5. WorkerBack'
  BY <1>1 DEF WorkerBack, Ans
<1>6. ClientBack'
  BY <1>1, <1>2 DEF ClientBack, Said, Delivered, Ans, ReceiptIsGates
<1> QED BY <1>3, <1>4, <1>5, <1>6

LEMMA StepOK == ASSUME IInv, [Next]_vars PROVE IInv'
  BY CallFailsOK, CallPostsOK, CallStopsOK, CallReceivesOK, GateTakesOK, GateSpeaksOK,
     GateAnswersOK, DispatchRefusedOK, DispatchPostsOK, DispatchStopsOK, DispatchReceivesOK,
     PoolOK, WorkerTakesOK, WorkerEndsOK, DamageOK, TickOK DEF Next

LEMMA Inductive == Spec => []IInv
  BY InitOK, StepOK, PTL DEF Spec

-----------------------------------------------------------------------------
(* Types, beyond what the invariant needs.                                  *)

\* The end of a call and what it ended with belong together.
Ended(c, errors) ==
  /\ c.error # None <=> c.pc \in {"refused", "failed"}
  /\ c.result # None <=> c.pc = "returned"
  /\ c.error \in errors \cup {None}

LEMMA EndedSo ==
  ASSUME NEW c, DOMAIN c = DOMAIN NoCall, NEW errors, None \notin errors, Ended(c, errors),
         c.pc \in {"idle", "waiting"}
  PROVE  /\ \A e \in errors : Ended(Refused(c, e), errors) /\ Ended(Raised(c, e), errors)
         /\ \A r : \A e \in errors \cup {None} :
              (e = None => r.pkt # None) => Ended(Judged(c, r, e), errors)
<1>1. c.result = None /\ c.error = None
  BY DEF Ended
<1>2. \A e \in errors : Ended(Refused(c, e), errors) /\ Ended(Raised(c, e), errors)
  BY <1>1 DEF Ended, Refused, Raised, NoCall
<1>3. ASSUME NEW r, NEW e \in errors \cup {None}, e = None => r.pkt # None
      PROVE  Ended(Judged(c, r, e), errors)
  <2>1. CASE e = None
    <3>1. PICK d : d = [c EXCEPT !.pc = "returned", !.result = r.pkt]
      OBVIOUS
    <3>2. d.pc = "returned" /\ d.result = r.pkt /\ d.error = c.error
      BY <3>1 DEF NoCall
    <3>3. Ended(d, errors)
      BY <1>1, <1>3, <2>1, <3>2 DEF Ended
    <3> QED BY <2>1, <3>1, <3>3 DEF Judged
  <2>2. CASE e # None
    BY <1>2, <2>2 DEF Judged
  <2> QED BY <2>1, <2>2
<1> QED BY <1>2, <1>3

\* The worker's handlers are set before it serves.
LEMMA HandlersStay ==
  ASSUME WorkerTakes \/ WorkerEnds \/ WorkerTimesOut
  PROVE  handlers' = handlers
<1>1. CASE WorkerTakes
  BY <1>1 DEF WorkerTakes, WorkerActs, Worker!RejectBody, Worker!Refuse, Worker!Start,
     Worker!Turned
<1>2. CASE WorkerEnds \/ WorkerTimesOut
  BY <1>2, EndingCases DEF WorkerActs, Worker!ReturnDict, Worker!ReturnPacket,
     Worker!ReturnRequest, Worker!RaiseError, Worker!TimeOut, Worker!Cancel,
     Worker!EndCancelled, Worker!TimeoutAnswer, Worker!Answer
<1> QED BY <1>1, <1>2

\* None is no packet.
NoneIsNoPacket == DOMAIN None # {"core", "restricted", "hash", "sig", "hops"}

Types ==
  /\ now \in Nat
  /\ Ended(call, GateErrors \cup Untyped) /\ Ended(dispatch, DispatchErrors \cup Untyped)
  /\ pool \in {"none", "given", "open", "closing"}
  /\ faults \subseteq {"broken", "damaged"}
  /\ handlers \in [Actions \cup {AnyAction} -> {"async", "cleanup", "sync", None}]

LEMMA TypesInit == Init => Types
<1> SUFFICES ASSUME Init PROVE Types
  OBVIOUS
<1>1. setup \in Setups /\ call = NoCall /\ dispatch = NoCall
  BY DEF Init
<1>2. \A errors : Ended(NoCall, errors)
  BY DEF Ended, NoCall
<1>3. /\ setup.pool \in {"none", "given"}
      /\ setup.handlers \in [Actions \cup {AnyAction} -> {"async", "cleanup", "sync", None}]
  BY <1>1, RailAssumption
<1>4. Ended(call, GateErrors \cup Untyped) /\ Ended(dispatch, DispatchErrors \cup Untyped)
  BY <1>1, <1>2
<1>5. /\ handlers \in [Actions \cup {AnyAction} -> {"async", "cleanup", "sync", None}]
      /\ now \in Nat /\ faults = {} /\ pool \in {"none", "given"}
  BY <1>3 DEF Init
<1> QED BY <1>4, <1>5 DEF Types

\* What a reply is that raises no error.
LEMMA NoErrorIsPacket ==
  ASSUME NEW r, NEW at, NoneIsNoPacket, r.kind \in Kinds, r.kind # "none",
         r.kind \in {"page", "packet"} => Shaped(r.pkt)
  PROVE  /\ \A c : ReplyError(c, r, at) = None => r.pkt # None
         /\ \A g, p : WorkerReplyError(g, p, Node, r, at) = None => r.pkt # None
<1>1. None \notin GateErrors \cup DispatchErrors
  BY RailAssumption
<1>2. \A c : ReplyError(c, r, at) = None => r.kind = "packet"
  BY <1>1 DEF ReplyError, GateErrors, Kinds
<1>3. \A g, p : WorkerReplyError(g, p, Node, r, at) = None => r.kind = "packet"
  BY <1>1 DEF WorkerReplyError, DispatchErrors, Kinds
<1> QED BY <1>2, <1>3 DEF Shaped, NoneIsNoPacket

\* An error of a call is of its rail, or one that leaks out of it.
CallErrors == GateErrors \cup Untyped
SendErrors == DispatchErrors \cup Untyped

LEMMA ErrorTypes ==
  ASSUME setup \in Setups
  PROVE  /\ CallError \in CallErrors \cup {None}
         /\ Dispatchable \in SendErrors \cup {None}
         /\ \A c, r, at : ReplyError(c, r, at) \in CallErrors \cup {None}
         /\ \A c, ask, r, at : ReceiptError(c, ask, r, at) \in CallErrors \cup {None}
         /\ \A g, p, t, r, at : WorkerReplyError(g, p, t, r, at) \in SendErrors \cup {None}
<1>1. \A c, r, at : ReplyError(c, r, at) \in CallErrors \cup {None}
  BY DEF ReplyError, CallErrors, GateErrors
<1>2. \A c, ask, r, at : ReceiptError(c, ask, r, at) \in CallErrors \cup {None}
  BY <1>1 DEF ReceiptError, CallErrors, GateErrors
<1>3. \A g, p, t, r, at : WorkerReplyError(g, p, t, r, at) \in SendErrors \cup {None}
  BY DEF WorkerReplyError, SendErrors, DispatchErrors
<1>4. {setup.client.unloadable, setup.authority.unloadable}
        \subseteq {None, "TransportAuthenticationError", "ValueError"}
  BY RailAssumption
<1>5. ASSUME NEW c, c.unloadable = setup.client.unloadable, NEW p, NEW at
      PROVE  SendError(c, p, at) \in CallErrors \cup {None}
  BY <1>4, <1>5 DEF SendError, SigningError, CallErrors, GateErrors, Untyped
<1>6. CallError \in CallErrors \cup {None}
  <2>1. PICK v : v = Verifying(setup.client)
    OBVIOUS
  <2>2. v.unloadable = setup.client.unloadable
    BY <2>1 DEF Verifying
  <2>3. /\ SendError(v, Root, now) \in CallErrors \cup {None}
        /\ SendError(setup.client, Root, now) \in CallErrors \cup {None}
    BY <1>5, <2>2
  <2> QED BY <2>1, <2>3 DEF CallError, ExecuteError, ActivateError, CallErrors, GateErrors, Untyped
<1>7. Dispatchable \in SendErrors \cup {None}
  BY <1>4 DEF Dispatchable, DispatchError, SigningError, SendErrors, DispatchErrors, Untyped
<1> QED BY <1>1, <1>2, <1>3, <1>6, <1>7

\* A call ends with an error of its kind, or with a packet.
LEMMA CallTypesStep ==
  ASSUME IInv, NoneIsNoPacket, [Next]_vars, Ended(call, CallErrors)
  PROVE  Ended(call', CallErrors)
<1>1. /\ DOMAIN call = DOMAIN NoCall /\ Ended(call, CallErrors) /\ None \notin CallErrors
  BY RailAssumption DEF IInv, Setting, CallErrors
<1>2. CASE call' = call
  BY <1>1, <1>2
<1>3. CASE CallFails
  <2>1. CallError \in CallErrors
    BY <1>3, ErrorTypes DEF CallFails, IInv, Setting
  <2>2. Ended(Refused(call, CallError), CallErrors)
    BY <1>1, <1>3, <2>1, EndedSo DEF CallFails
  <2> QED BY <1>3, <2>2 DEF CallFails
<1>4. CASE CallPosts
  <2>1. /\ call'.pc = "waiting" /\ call'.error = call.error /\ call'.result = call.result
        /\ call.pc = "idle"
    BY <1>1, <1>4 DEF CallPosts, NoCall
  <2> QED BY <1>1, <2>1 DEF Ended
<1>5. CASE CallTimesOut \/ CallDisconnects
  <2>1. PICK e \in CallErrors : call.pc = "waiting" /\ call' = Raised(call, e)
    BY <1>5 DEF CallTimesOut, CallDisconnects, CallErrors, GateErrors
  <2>2. Ended(Raised(call, e), CallErrors)
    BY <1>1, <2>1, EndedSo
  <2> QED BY <2>1, <2>2
<1>6. CASE CallReceives
  <2>1. PICK r : r = wire.toClient
    OBVIOUS
  <2>2. PICK e : e = IF Probe THEN ReceiptError(setup.client, setup.ask, r, now)
                              ELSE ReplyError(setup.client, r, now)
    OBVIOUS
  <2>3. call.pc = "waiting" /\ r # NoReply /\ call' = Judged(call, r, e)
    BY <1>6, <2>1, <2>2 DEF CallReceives
  <2>4. e \in CallErrors \cup {None}
    BY <2>2, ErrorTypes DEF IInv, Setting
  <2>5. r.kind \in Kinds /\ r.kind # "none" /\ (r.kind \in {"page", "packet"} => Shaped(r.pkt))
    BY <2>1, <2>3 DEF IInv, ClientBack
  <2>6. e = None => r.pkt # None
    <3>1. \A c : ReplyError(c, r, now) = None => r.pkt # None
      BY <2>5, NoErrorIsPacket
    <3> QED BY <2>2, <3>1 DEF ReceiptError
  <2>7. Ended(Judged(call, r, e), CallErrors)
    BY <1>1, <2>3, <2>4, <2>6, EndedSo
  <2> QED BY <2>3, <2>7
<1>7. \/ CallFails \/ CallPosts \/ CallTimesOut \/ CallDisconnects \/ CallReceives
      \/ call' = call
  BY DEF Next, vars, client, GateTakes, GateRefuses, GateAdmits, GateAnswers, DispatchFails,
     DispatchOnClosed, DispatchPosts, DispatchTimesOut, DispatchDisconnects, DispatchReceives,
     EnterPool, ClosePool, PoolClosed, WorkerTakes, WorkerEnds, WorkerTimesOut, WorkerActs,
     Damage, Tick
<1> QED BY <1>2, <1>3, <1>4, <1>5, <1>6, <1>7

LEMMA DispatchTypesStep ==
  ASSUME IInv, NoneIsNoPacket, [Next]_vars,
         NEW errors, errors = SendErrors, Ended(dispatch, errors)
  PROVE  Ended(dispatch', errors)
<1>1. /\ DOMAIN dispatch = DOMAIN NoCall /\ Ended(dispatch, errors) /\ None \notin errors
  BY RailAssumption DEF IInv, Setting, SendErrors
<1>2. "WorkerTimeoutError" \in errors /\ "WorkerConnectionError" \in errors
      /\ "RuntimeError" \in errors
  BY DEF SendErrors, DispatchErrors, Untyped
<1>3. CASE dispatch' = dispatch
  BY <1>1, <1>3
<1>4. CASE DispatchFails \/ DispatchOnClosed
  <2>1. PICK e \in errors : dispatch' = Refused(dispatch, e)
    BY <1>1, <1>2, <1>4, ErrorTypes DEF DispatchFails, DispatchOnClosed, IInv, Setting
  <2>2. dispatch.pc = "idle"
    BY <1>4 DEF DispatchFails, DispatchOnClosed, AtDispatch, IInv, Setting, Order
  <2>3. Ended(Refused(dispatch, e), errors)
    BY <1>1, <2>2, EndedSo
  <2> QED BY <2>1, <2>3
<1>5. CASE DispatchPosts
  <2>1. dispatch.pc = "idle"
    BY <1>5 DEF DispatchPosts, AtDispatch, IInv, Setting, Order
  <2>2. PICK d : d = dispatch'
    OBVIOUS
  <2>3. d.pc = "waiting" /\ d.error = dispatch.error /\ d.result = dispatch.result
    BY <1>1, <1>5, <2>2 DEF DispatchPosts, NoCall
  <2>4. Ended(d, errors)
    BY <1>1, <2>1, <2>3 DEF Ended
  <2> QED BY <2>2, <2>4
<1>6. CASE DispatchTimesOut \/ DispatchDisconnects
  <2>1. PICK e \in errors : dispatch.pc = "waiting" /\ dispatch' = Raised(dispatch, e)
    BY <1>2, <1>6 DEF DispatchTimesOut, DispatchDisconnects
  <2>2. Ended(Raised(dispatch, e), errors)
    BY <1>1, <2>1, EndedSo
  <2> QED BY <2>1, <2>2
<1>7. CASE DispatchReceives
  <2>1. PICK r : r = wire.toTransport
    OBVIOUS
  <2>2. PICK e : e = WorkerReplyError(setup.authority, dispatch.pkt, Node, r, now)
    OBVIOUS
  <2>3. dispatch.pc = "waiting" /\ r # NoReply /\ dispatch' = Judged(dispatch, r, e)
    BY <1>7, <2>1, <2>2 DEF DispatchReceives
  <2>4. e \in errors \cup {None}
    BY <1>1, <2>2, ErrorTypes DEF IInv, Setting
  <2>5. r.kind \in Kinds /\ r.kind # "none" /\ (r.kind \in {"page", "packet"} => Shaped(r.pkt))
    BY <2>1, <2>3 DEF IInv, WorkerBack, Travels
  <2>6. e = None => r.pkt # None
    BY <2>2, <2>5, NoErrorIsPacket
  <2>7. Ended(Judged(dispatch, r, e), errors)
    BY <1>1, <2>3, <2>4, <2>6, EndedSo
  <2> QED BY <2>3, <2>7
<1>8. \/ DispatchFails \/ DispatchOnClosed \/ DispatchPosts
      \/ DispatchTimesOut \/ DispatchDisconnects \/ DispatchReceives \/ dispatch' = dispatch
  BY DEF Next, vars, transport, CallFails, CallPosts, CallTimesOut, CallDisconnects,
     CallReceives, GateTakes, GateRefuses, GateAdmits, GateAnswers, EnterPool, ClosePool,
     PoolClosed, WorkerTakes, WorkerEnds, WorkerTimesOut, WorkerActs, Damage, Tick
<1> QED BY <1>3, <1>4, <1>5, <1>6, <1>7, <1>8

LEMMA TypesStep ==
  ASSUME IInv, Types, NoneIsNoPacket, [Next]_vars
  PROVE  Types'
<1> DEFINE Rest ==
      /\ now' \in Nat
      /\ pool' \in {"none", "given", "open", "closing"}
      /\ faults' \subseteq {"broken", "damaged"}
      /\ handlers' \in [Actions \cup {AnyAction} -> {"async", "cleanup", "sync", None}]
<1>1. ASSUME WorkerTakes \/ WorkerEnds \/ WorkerTimesOut
      PROVE  Rest
  <2>1. UNCHANGED <<now, pool, faults>>
    BY <1>1 DEF WorkerTakes, WorkerEnds, WorkerTimesOut, WorkerActs, transport
  <2> QED BY <1>1, <2>1, HandlersStay DEF Types
<1>2. ASSUME CallFails \/ CallPosts \/ CallTimesOut \/ CallDisconnects \/ CallReceives
      PROVE  Rest
  BY <1>2 DEF Types, CallFails, CallPosts, CallTimesOut, CallDisconnects, CallReceives,
     worker, transport
<1>3. ASSUME GateTakes \/ GateRefuses \/ GateAdmits \/ GateAnswers
      PROVE  Rest
  BY <1>3 DEF Types, GateTakes, GateRefuses, GateAdmits, GateAnswers, worker, transport
<1>4. ASSUME \/ DispatchFails \/ DispatchOnClosed \/ DispatchPosts
             \/ DispatchTimesOut \/ DispatchDisconnects \/ DispatchReceives
      PROVE  Rest
  BY <1>4 DEF Types, DispatchFails, DispatchOnClosed, DispatchPosts, DispatchTimesOut,
     DispatchDisconnects, DispatchReceives, worker
<1>5. ASSUME EnterPool \/ ClosePool \/ PoolClosed
      PROVE  Rest
  BY <1>5 DEF Types, EnterPool, ClosePool, PoolClosed, worker
<1>6. ASSUME Damage \/ Tick \/ UNCHANGED vars
      PROVE  Rest
  <2>1. UNCHANGED <<pool, handlers>> /\ faults' \subseteq faults \cup {"damaged"}
        /\ now' \in {now, now + 1}
    BY <1>6 DEF Damage, Tick, vars, worker, transport
  <2> QED BY <2>1 DEF Types
<1>7. Rest
  BY <1>1, <1>2, <1>3, <1>4, <1>5, <1>6 DEF Next
<1>8. Ended(call', CallErrors)
  BY CallTypesStep DEF Types, CallErrors
<1>9. Ended(dispatch', SendErrors)
  BY DispatchTypesStep DEF Types, SendErrors
<1> QED BY <1>7, <1>8, <1>9 DEF Types, Ended, CallErrors, SendErrors, GateErrors, DispatchErrors,
          Untyped

-----------------------------------------------------------------------------
(* The theorems.                                                            *)

\* Every variable of the composition has its type: a call has an error if and only
\* if it was refused or failed, and a result if and only if it returned, provided
\* that None is no packet.
THEOREM TypeCorrect ==
  ASSUME DOMAIN None # {"core", "restricted", "hash", "sig", "hops"}
  PROVE  Spec => []TypeOK
<1>1. NoneIsNoPacket
  BY DEF NoneIsNoPacket
<1>2. IInv /\ Types => TypeOK
  BY DEF IInv, Setting, Types, Ended, TypeOK
<1>3. IInv /\ Types /\ [Next]_vars => Types'
  BY <1>1, TypesStep
<1> QED BY <1>2, <1>3, TypesInit, Inductive, PTL DEF Spec

\* What execute returns as a response is what the worker's handler returned for the
\* dispatch of this very call (_assert_response_answers_dispatch, and the checks of
\* integrity on both rails): whatever the setup, the clocks and the network.
THEOREM ResultsAreDelivered == Spec => []ResultIsTheWorkers
<1>1. IInv => ResultIsTheWorkers
  <2> SUFFICES ASSUME IInv, ~Probe, call.pc = "returned", call.result.core.type = "response"
               PROVE  /\ req[Work].outcome = "returned"
                      /\ req[Work].pkt.core = dispatch.pkt.core
                      /\ dispatch.pkt.core.root = call.pkt.core.id
                      /\ call.result.core.payload =
                           [status |-> "completed", run |-> req[Work].answer.pkt.core.id]
    BY DEF ResultIsTheWorkers
  <2>1. Delivered(call.result.core.payload)
    BY DEF IInv, ClientBack, Said
  <2>2. Sent(call) /\ Sent(dispatch)
    BY <2>1 DEF Delivered, Sent
  <2>3. req[Work].pkt.core = dispatch.pkt.core
    BY <2>1 DEF IInv, WorkerLeg, Delivered
  <2>4. dispatch.pkt.core.root = call.pkt.core.id
    BY <2>2 DEF IInv, ClientLeg, DispatchLeg
  <2> QED BY <2>1, <2>3, <2>4 DEF Delivered, Ans
<1> QED BY <1>1, Inductive, PTL

\* A receipt activate returns is signed by a key of Gate's that is not the
\* consumer's own, and says what Gate said (activate's signer check).
THEOREM ReceiptsAreGates == Spec => []ReceiptIsGates
<1>1. IInv => ReceiptIsGates
  BY DEF IInv, ClientBack, ReceiptIsGates
<1> QED BY <1>1, Inductive, PTL

\* A suspended handler is stopped by the end of the call's budget, but for the time
\* the call was on the wire (_network_timeout_seconds on both rails, and wait_for).
THEOREM WorkIsBounded == Spec => []WorkEndsWithTheCall
<1>1. IInv => WorkEndsWithTheCall
  <2> SUFFICES ASSUME IInv, req[Work].pc = "running", req[Work].handler # "sync",
                      req[Work].cancelled = None
               PROVE  now <= call.deadline + setup.client.margin
                        + (gate.since - call.since)
                        + (req[Work].since - setup.drift - dispatch.since)
    BY DEF WorkEndsWithTheCall, Worker!Running
  <2> USE DEF IInv
  <2>1. Sent(dispatch) /\ gate.pc # "idle" /\ Sent(call)
    BY DEF Order, Sent
  <2>2. /\ call.deadline + setup.client.margin = call.since + Total
        /\ call.since \in Int /\ gate.since \in Int /\ Total \in Int
        /\ setup.drift \in Int /\ now \in Int
    BY <2>1, TotalType DEF ClientLeg, Setting
  <2>3. /\ req[Work].pkt.core = dispatch.pkt.core /\ req[Work].since \in Int
        /\ now + setup.drift <= req[Work].since + req[Work].pkt.core.timeout
    BY DEF WorkerLeg
  <2>4. /\ dispatch.since \in Int
        /\ dispatch.pkt.core.timeout = Total - (dispatch.since - gate.since)
    BY <2>1 DEF DispatchLeg
  <2>5. now <= call.since + Total + (gate.since - call.since)
                 + (req[Work].since - setup.drift - dispatch.since)
    BY <2>2, <2>3, <2>4
  <2> QED BY <2>2, <2>5
<1> QED BY <1>1, Inductive, PTL

LEMMA ContractInit == Init => Contract!Init
<1> SUFFICES ASSUME Init PROVE Contract!Init
  OBVIOUS
<1>1. ~Sent(call) /\ ~Sent(dispatch) /\ Outcome = "open" /\ Probe \in BOOLEAN
  BY DEF Init, NoCall, Sent, Outcome, Probe
<1>2. ~Worker!Executed(Work)
  BY DEF Init, Worker!Executed, Worker!Running, Worker!Answered, Worker!Idle
<1>3. Sent(call) = FALSE /\ Sent(dispatch) = FALSE /\ Worker!Executed(Work) = FALSE
  BY <1>1, <1>2 DEF Worker!Executed, Worker!Running, Worker!Answered, Sent
<1> QED BY <1>1, <1>3 DEF Contract!Init

\* A step of the client ends the call as the contract allows, or makes its request.
LEMMA ContractCall ==
  ASSUME IInv, IInv', CallFails \/ CallPosts \/ CallTimesOut \/ CallDisconnects \/ CallReceives
  PROVE  Contract!Next
<1> USE DEF IInv
<1>1. /\ call.pc \in {"idle", "waiting"} /\ Outcome = "open"
      /\ Probe' = Probe /\ Sent(dispatch)' = Sent(dispatch)
      /\ Worker!Executed(Work)' = Worker!Executed(Work)
  <2>1. UNCHANGED <<setup, dispatch, req>> /\ call.pc \in {"idle", "waiting"}
    BY DEF CallFails, CallPosts, CallTimesOut, CallDisconnects, CallReceives, transport, worker
  <2> QED BY <2>1, SetupKept
        DEF Outcome, Sent, Worker!Executed, Worker!Running, Worker!Answered
<1>2. CASE CallFails
  <2>1. call.pc = "idle" /\ call'.pc = "refused"
    BY <1>2 DEF CallFails, Refused, Setting, NoCall
  <2>2. ~Sent(call) /\ Sent(call)' = Sent(call) /\ Outcome' = "refused"
    BY <2>1 DEF Sent, Outcome
  <2>3. Contract!End("refused")
    BY <1>1, <2>2 DEF Contract!End
  <2> QED BY <2>2, <2>3 DEF Contract!Next
<1>3. CASE CallPosts
  <2>1. call.pc = "idle" /\ call'.pc = "waiting"
    BY <1>3 DEF CallPosts, Setting, NoCall
  <2>2. ~Sent(call) /\ Sent(call)' = TRUE /\ Outcome' = "open"
    BY <2>1 DEF Sent, Outcome
  <2>3. Contract!Post
    BY <1>1, <2>2 DEF Contract!Post
  <2> QED BY <2>3 DEF Contract!Next
<1>4. CASE CallTimesOut \/ CallDisconnects \/ CallReceives
  <2>1. call.pc = "waiting" /\ call'.pc \in {"failed", "returned"}
    BY <1>4 DEF CallTimesOut, CallDisconnects, CallReceives, Judged, Raised, Setting, NoCall
  <2>2. Sent(call) /\ Sent(call)' = Sent(call)
    BY <2>1 DEF Sent
  <2>3. Outcome' = "failed" \/ call'.pc = "returned"
    BY <2>1 DEF Outcome
  <2>4. \A how : Outcome' = how => Contract!End(how)
    BY <1>1, <2>2 DEF Contract!End
  <2>5. CASE call'.pc = "returned" /\ Probe
    <3>1. Outcome' = "receipt"
      BY <1>1, <2>5 DEF Outcome
    <3> QED BY <2>2, <2>4, <2>5, <3>1 DEF Contract!Next
  <2>6. CASE call'.pc = "returned" /\ ~Probe
    <3>1. Outcome' \in {"result", "failure"}
      BY <1>1, <2>6 DEF Outcome
    <3>2. ASSUME Outcome' = "result"
          PROVE  Worker!Executed(Work)
      <4>1. call'.result.core.type = "response"
        BY <1>1, <2>6, <3>2 DEF Outcome
      <4>2. Delivered(call.result.core.payload)'
        BY <1>1, <2>6, <4>1 DEF ClientBack, Said
      <4>3. Worker!Executed(Work)'
        BY <4>2 DEF Delivered, Worker!Executed, Worker!Answered
      <4> QED BY <1>1, <4>3
    <3> QED BY <2>2, <2>4, <2>6, <3>1, <3>2 DEF Contract!Next
  <2> QED BY <2>2, <2>3, <2>4, <2>5, <2>6 DEF Contract!Next
<1> QED BY <1>2, <1>3, <1>4

\* The other steps change nothing the application sees, but for the two that make
\* the dispatch and run it.
LEMMA ContractRest ==
  ASSUME IInv, IInv',
         \/ GateTakes \/ GateRefuses \/ GateAdmits \/ GateAnswers
         \/ DispatchFails \/ DispatchOnClosed \/ DispatchPosts
         \/ DispatchTimesOut \/ DispatchDisconnects \/ DispatchReceives
         \/ EnterPool \/ ClosePool \/ PoolClosed
         \/ WorkerTakes \/ WorkerEnds \/ WorkerTimesOut
         \/ Damage \/ Tick \/ UNCHANGED vars
  PROVE  Contract!Next \/ UNCHANGED Contract!vars
<1> USE DEF IInv
<1>1. UNCHANGED <<setup, call>>
  BY DEF GateTakes, GateRefuses, GateAdmits, GateAnswers, DispatchFails, DispatchOnClosed,
     DispatchPosts, DispatchTimesOut, DispatchDisconnects, DispatchReceives, EnterPool,
     ClosePool, PoolClosed, WorkerTakes, WorkerEnds, WorkerTimesOut, WorkerActs, Damage, Tick,
     vars, client
<1>2. Probe' = Probe /\ Sent(call)' = Sent(call) /\ Outcome' = Outcome
  BY <1>1, SetupKept DEF Sent, Outcome
<1>3. CASE DispatchPosts
  <2>1. dispatch.pc = "idle" /\ dispatch'.pc = "waiting" /\ UNCHANGED req /\ ~Probe /\ Sent(call)
    BY <1>3 DEF DispatchPosts, AtDispatch, Order, Setting, NoCall, worker
  <2>2. ~Sent(dispatch) /\ Sent(dispatch)' = TRUE
    BY <2>1 DEF Sent
  <2>3. Worker!Executed(Work)' = Worker!Executed(Work)
    BY <2>1 DEF Worker!Executed, Worker!Running, Worker!Answered
  <2>4. Contract!Dispatch
    BY <1>2, <2>1, <2>2, <2>3 DEF Contract!Dispatch
  <2> QED BY <2>4 DEF Contract!Next
<1>4. CASE WorkerTakes
  <2>1. /\ Sent(dispatch) /\ req[Work].pc = "idle" /\ Sent(dispatch)' = Sent(dispatch)
    BY <1>4 DEF WorkerTakes, WorkerActs, Order, transport, Sent
  <2>2. ~Worker!Executed(Work)
    BY <2>1 DEF Worker!Executed, Worker!Running, Worker!Answered
  <2>3. CASE Worker!Executed(Work)'
    <3>1. Worker!Executed(Work)' = TRUE
      BY <2>3 DEF Worker!Executed, Worker!Running, Worker!Answered
    <3>2. Contract!Run
      BY <1>2, <2>1, <2>2, <3>1 DEF Contract!Run
    <3> QED BY <3>2 DEF Contract!Next
  <2>4. CASE ~Worker!Executed(Work)'
    <3>1. Worker!Executed(Work)' = Worker!Executed(Work)
      BY <2>2, <2>4 DEF Worker!Executed, Worker!Running, Worker!Answered
    <3> QED BY <1>2, <2>1, <3>1 DEF Contract!vars
  <2> QED BY <2>3, <2>4
<1>5. CASE WorkerEnds \/ WorkerTimesOut
  <2>1. UNCHANGED dispatch
    BY <1>5 DEF WorkerEnds, WorkerTimesOut, WorkerActs, transport
  <2>2. /\ req[Work].pc = "running"
        /\ \/ req'[Work].pc = "done" /\ req'[Work].outcome # "refused"
           \/ req'[Work].pc = "running"
    BY <1>5, WorkerGoesOn
  <2>3. Sent(dispatch)' = Sent(dispatch) /\ Worker!Executed(Work)' = Worker!Executed(Work)
    BY <2>1, <2>2 DEF Sent, Worker!Executed, Worker!Running, Worker!Answered
  <2> QED BY <1>2, <2>3 DEF Contract!vars
<1>6. CASE DispatchFails \/ DispatchOnClosed \/ DispatchTimesOut \/ DispatchDisconnects
             \/ DispatchReceives
  <2>1. UNCHANGED req
    BY <1>6 DEF DispatchFails, DispatchOnClosed, DispatchTimesOut, DispatchDisconnects,
       DispatchReceives, worker
  <2>2. \/ dispatch.pc = "idle" /\ dispatch'.pc = "refused"
        \/ dispatch.pc = "waiting" /\ dispatch'.pc \in {"failed", "returned"}
    BY <1>6 DEF DispatchFails, DispatchOnClosed, DispatchTimesOut, DispatchDisconnects,
       DispatchReceives, AtDispatch, Order, Setting, Refused, Judged, Raised, NoCall
  <2>3. Sent(dispatch)' = Sent(dispatch) /\ Worker!Executed(Work)' = Worker!Executed(Work)
    BY <2>1, <2>2 DEF Sent, Worker!Executed, Worker!Running, Worker!Answered
  <2> QED BY <1>2, <2>3 DEF Contract!vars
<1>7. CASE \/ GateTakes \/ GateRefuses \/ GateAdmits \/ GateAnswers
           \/ EnterPool \/ ClosePool \/ PoolClosed \/ Damage \/ Tick \/ UNCHANGED vars
  <2>1. UNCHANGED <<dispatch, req>>
    BY <1>7 DEF GateTakes, GateRefuses, GateAdmits, GateAnswers, EnterPool, ClosePool,
       PoolClosed, Damage, Tick, vars, transport, worker
  <2>2. Sent(dispatch)' = Sent(dispatch) /\ Worker!Executed(Work)' = Worker!Executed(Work)
    BY <2>1 DEF Sent, Worker!Executed, Worker!Running, Worker!Answered
  <2> QED BY <1>2, <2>2 DEF Contract!vars
<1> QED BY <1>3, <1>4, <1>5, <1>6, <1>7

\* The two rails and the worker keep CallContract: one call is posted once,
\* dispatched at most once and run at most once, a result is that of a run, and an
\* outcome is final.
THEOREM ContractKept == Spec => KeepsContract
<1>1. IInv /\ IInv' /\ [Next]_vars => [Contract!Next]_(Contract!vars)
  BY ContractCall, ContractRest DEF Next
<1> QED BY <1>1, Inductive, ContractInit, PTL DEF Spec, KeepsContract, Contract!Spec

\* What CallContract promises of an outcome: a result, that a worker ran the call,
\* which Gate had dispatched and the application posted; a receipt, that nothing
\* was dispatched and nothing ran; a refusal, that nothing was posted and, as
\* nothing is dispatched without a POST, that nothing ran or ever will.
OutcomesMean ==
  /\ Outcome = "result" => Worker!Executed(Work) /\ Sent(dispatch) /\ Sent(call) /\ ~Probe
  /\ Outcome = "receipt" => Probe /\ Sent(call) /\ ~Sent(dispatch) /\ ~Worker!Executed(Work)
  /\ Outcome = "refused" => ~Sent(call) /\ ~Sent(dispatch) /\ ~Worker!Executed(Work)

\* The contract's own reason: a run needs a dispatch, and a dispatch a POST that is
\* no probe; and nothing takes them back.
InTurn ==
  /\ Worker!Executed(Work) => Sent(dispatch)
  /\ Sent(dispatch) => Sent(call) /\ ~Probe

\* What the application is told is true when it is told and stays true: a call that
\* was refused never runs later, and what ran or was dispatched cannot be undone.
\* It follows from the contract alone.
THEOREM OutcomesAreTrue == Spec => []OutcomesMean
<1> DEFINE J == OutcomesMean /\ InTurn
<1>1. Contract!Init => J
  BY DEF Contract!Init, OutcomesMean, InTurn
<1>2. J /\ [Contract!Next]_(Contract!vars) => J'
  <2> SUFFICES ASSUME J, [Contract!Next]_(Contract!vars) PROVE J'
    OBVIOUS
  <2>1. CASE Contract!Post
    BY <2>1 DEF Contract!Post, OutcomesMean, InTurn
  <2>2. CASE Contract!Dispatch
    BY <2>2 DEF Contract!Dispatch, OutcomesMean, InTurn
  <2>3. CASE Contract!Run
    BY <2>3 DEF Contract!Run, OutcomesMean, InTurn
  <2>4. CASE ~Sent(call) /\ Contract!End("refused")
    BY <2>4 DEF Contract!End, OutcomesMean, InTurn
  <2>5. CASE Sent(call) /\ (Contract!End("failed") \/ (~Probe /\ Contract!End("failure")))
    <3>1. Outcome' \in {"failed", "failure"}
      BY <2>5 DEF Contract!End
    <3>2. UNCHANGED <<Probe, Sent(call), Sent(dispatch), Worker!Executed(Work)>>
      BY <2>5 DEF Contract!End
    <3>3. InTurn'
      BY <3>2 DEF InTurn
    <3> QED BY <3>1, <3>3 DEF OutcomesMean
  <2>6. CASE Worker!Executed(Work) /\ Contract!End("result")
    BY <2>6 DEF Contract!End, OutcomesMean, InTurn
  <2>7. CASE Sent(call) /\ Probe /\ Contract!End("receipt")
    BY <2>7 DEF Contract!End, OutcomesMean, InTurn
  <2>8. CASE UNCHANGED Contract!vars
    BY <2>8 DEF Contract!vars, OutcomesMean, InTurn
  <2> QED
    BY <2>1, <2>2, <2>3, <2>4, <2>5, <2>6, <2>7, <2>8 DEF Contract!Next
<1>3. Contract!Spec => []J
  BY <1>1, <1>2, PTL DEF Contract!Spec
<1>4. J => OutcomesMean
  OBVIOUS
<1> QED BY <1>3, <1>4, ContractKept, PTL DEF KeepsContract
=============================================================================

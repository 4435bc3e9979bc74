---------------------------- MODULE RailCauseProofs ----------------------------
(***************************************************************************)
(* Why the rails refuse or lose a call, proved for every setup: a worker   *)
(* refuses an undamaged dispatch only if it does not agree with Gate, and  *)
(* a call or a dispatch fails only for cause.  The invariant says what     *)
(* each party makes of the call's packet, field by field as far as the     *)
(* next party's checks look (Ordinary, and the clauses of CInv).           *)
(***************************************************************************)
EXTENDS RailProofs, PacketProofs

Header == {"id", "type", "action", "created", "expires", "notBefore", "timeout", "idem", "corr",
           "cause", "replay", "src", "dst", "replyTo", "tenant", "payload", "resolved", "route",
           "origin", "asked", "original", "parent", "root", "gen", "audited", "links", "until",
           "attached", "defects"}

\* The core of a packet of this call, as each party passes it on.
Ordinary(c) ==
  /\ Header \subseteq DOMAIN c
  /\ c.defects = {} /\ c.notBefore = None /\ c.expires = None /\ c.replay = FALSE
  /\ c.action = setup.action /\ c.idem = setup.ask.idem
  /\ c.tenant = setup.ask.tenant /\ c.corr = CallId /\ c.payload = setup.ask.payload
  /\ c.attached = None

\* p was signed by a party with key, if it has one.
Signed(p, key) ==
  /\ key = None => p.sig = None
  /\ key # None => p.sig # None /\ p.sig.key = key /\ p.sig.over = p.hash

\* The journal of p is the one hop of its maker.
OneHop(p) ==
  /\ Len(p.hops) = 1 /\ DOMAIN p.hops = {1}
  /\ p.hops[1].body.pid = p.core.id /\ p.hops[1].body.prev = None
  /\ p.hops[1].hash = HopHash(p.hash, p.hops[1].body)

\* No signature is None.
SignatureIsOne == \A key, over : None # [key |-> key, over |-> over]

-----------------------------------------------------------------------------
(* What no step changes.                                                    *)

LEMMA WorkerFrame ==
  ASSUME NEW step, NEW taken, WorkerActs(step, taken)
  PROVE  /\ UNCHANGED <<now, setup, call, gate, dispatch, pool, faults>>
         /\ wire' = [wire EXCEPT
              !.toWorker = IF taken THEN None ELSE @,
              !.toTransport = IF Worker!Answered(Work)' /\ dispatch.pc = "waiting"
                                THEN AsReply(req'[Work].answer) ELSE @]
BY DEF WorkerActs, client, transport

LEMMA Frame ==
  ASSUME [Next]_vars
  PROVE  /\ setup' = setup /\ handlers' = handlers /\ now' \in {now, now + 1}
         /\ faults \subseteq faults' /\ (Damage => "damaged" \in faults')
<1>1. CASE WorkerTakes \/ WorkerEnds \/ WorkerTimesOut
  <2>1. UNCHANGED <<now, setup, faults>> /\ (Damage => "damaged" \in faults')
    BY <1>1 DEF WorkerTakes, WorkerEnds, WorkerTimesOut, WorkerActs, client, Damage
  <2> QED BY <1>1, <2>1, HandlersStay
<1>2. CASE CallFails \/ CallPosts \/ CallTimesOut \/ CallDisconnects \/ CallReceives
  BY <1>2 DEF CallFails, CallPosts, CallTimesOut, CallDisconnects, CallReceives, worker, Damage
<1>3. CASE GateTakes \/ GateRefuses \/ GateAdmits \/ GateAnswers
  BY <1>3 DEF GateTakes, GateRefuses, GateAdmits, GateAnswers, client, worker, Damage
<1>4. CASE \/ DispatchFails \/ DispatchOnClosed \/ DispatchPosts
           \/ DispatchTimesOut \/ DispatchDisconnects \/ DispatchReceives
  BY <1>4 DEF DispatchFails, DispatchOnClosed, DispatchPosts, DispatchTimesOut,
     DispatchDisconnects, DispatchReceives, client, worker, Damage
<1>5. CASE EnterPool \/ ClosePool \/ PoolClosed \/ Damage \/ Tick \/ UNCHANGED vars
  BY <1>5 DEF EnterPool, ClosePool, PoolClosed, Damage, Tick, vars, client, worker
<1> QED BY <1>1, <1>2, <1>3, <1>4, <1>5 DEF Next

\* What stays of a call that ends.
LEMMA EndKeeps ==
  ASSUME NEW c, DOMAIN c = DOMAIN NoCall
  PROVE  /\ \A e : LET d == Raised(c, e) IN
           /\ d.pc = "failed" /\ d.error = e
           /\ d.pkt = c.pkt /\ d.since = c.since /\ d.deadline = c.deadline
         /\ \A r, e : LET d == Judged(c, r, e) IN
           /\ d.pc = IF e # None THEN "failed" ELSE "returned"
           /\ d.pkt = c.pkt /\ d.since = c.since /\ d.deadline = c.deadline
  BY DEF Raised, Judged, NoCall

\* Who changes the call, and what stays of it.
LEMMA CallKept ==
  ASSUME IInv, [Next]_vars, ~CallPosts
  PROVE  /\ Sent(call)' => Sent(call)
         /\ Sent(call) => Sent(call)' /\ call'.pkt = call.pkt /\ call'.deadline = call.deadline
         /\ call' # call => \/ CallFails
                            \/ CallTimesOut \/ CallDisconnects \/ CallReceives
<1>1. CASE CallFails
  <2>1. ~Sent(call) /\ call'.pc = "refused"
    BY <1>1 DEF CallFails, Refused, Sent, IInv, Setting, NoCall
  <2> QED BY <1>1, <2>1 DEF Sent
<1>2. CASE CallTimesOut \/ CallDisconnects \/ CallReceives
  <2>1. (\E e : call' = Raised(call, e)) \/ (\E r, e : call' = Judged(call, r, e))
    BY <1>2, Zenon DEF CallTimesOut, CallDisconnects, CallReceives
  <2>2. Sent(call) /\ DOMAIN call = DOMAIN NoCall
    BY <1>2 DEF CallTimesOut, CallDisconnects, CallReceives, Sent, IInv, Setting
  <2>3. call'.pc \in {"failed", "returned"} /\ call'.pkt = call.pkt /\ call'.deadline = call.deadline
    BY <2>1, <2>2, EndKeeps
  <2> QED BY <1>2, <2>2, <2>3 DEF Sent
<1>3. CASE WorkerTakes \/ WorkerEnds \/ WorkerTimesOut
  <2>1. call' = call
    BY <1>3 DEF WorkerTakes, WorkerEnds, WorkerTimesOut, WorkerActs, client
  <2> QED BY <2>1 DEF Sent
<1>4. CASE GateTakes \/ GateRefuses \/ GateAdmits \/ GateAnswers
  BY <1>4 DEF GateTakes, GateRefuses, GateAdmits, GateAnswers, client, Sent
<1>5. CASE \/ DispatchFails \/ DispatchOnClosed \/ DispatchPosts
           \/ DispatchTimesOut \/ DispatchDisconnects \/ DispatchReceives
  BY <1>5 DEF DispatchFails, DispatchOnClosed, DispatchPosts, DispatchTimesOut,
     DispatchDisconnects, DispatchReceives, client, Sent
<1>6. CASE EnterPool \/ ClosePool \/ PoolClosed \/ Damage \/ Tick \/ UNCHANGED vars
  BY <1>6 DEF EnterPool, ClosePool, PoolClosed, Damage, Tick, vars, client, Sent
<1> QED BY <1>1, <1>2, <1>3, <1>4, <1>5, <1>6 DEF Next

\* Who changes the dispatch, and what stays of it.
LEMMA DispatchKept ==
  ASSUME IInv, [Next]_vars, ~DispatchPosts
  PROVE  /\ Sent(dispatch)' => Sent(dispatch)
         /\ Sent(dispatch) => /\ Sent(dispatch)' /\ dispatch'.pkt = dispatch.pkt
                              /\ dispatch'.since = dispatch.since
                              /\ dispatch'.deadline = dispatch.deadline
         /\ dispatch' # dispatch =>
              \/ DispatchFails \/ DispatchOnClosed
              \/ DispatchTimesOut \/ DispatchDisconnects \/ DispatchReceives
<1>1. CASE DispatchFails \/ DispatchOnClosed
  <2>1. ~Sent(dispatch) /\ dispatch'.pc = "refused"
    BY <1>1 DEF DispatchFails, DispatchOnClosed, AtDispatch, Refused, Sent, IInv, Setting, Order,
       NoCall
  <2> QED BY <1>1, <2>1 DEF Sent
<1>2. CASE DispatchTimesOut \/ DispatchDisconnects \/ DispatchReceives
  <2>1. (\E e : dispatch' = Raised(dispatch, e)) \/ (\E r, e : dispatch' = Judged(dispatch, r, e))
    BY <1>2, Zenon DEF DispatchTimesOut, DispatchDisconnects, DispatchReceives
  <2>2. Sent(dispatch) /\ DOMAIN dispatch = DOMAIN NoCall
    BY <1>2 DEF DispatchTimesOut, DispatchDisconnects, DispatchReceives, Sent, IInv, Setting
  <2>3. /\ dispatch'.pc \in {"failed", "returned"} /\ dispatch'.pkt = dispatch.pkt
        /\ dispatch'.since = dispatch.since /\ dispatch'.deadline = dispatch.deadline
    BY <2>1, <2>2, EndKeeps
  <2> QED BY <1>2, <2>2, <2>3 DEF Sent
<1>3. CASE WorkerTakes \/ WorkerEnds \/ WorkerTimesOut
  <2>1. dispatch' = dispatch
    BY <1>3 DEF WorkerTakes, WorkerEnds, WorkerTimesOut, WorkerActs, transport
  <2> QED BY <2>1 DEF Sent
<1>4. CASE GateTakes \/ GateRefuses \/ GateAdmits \/ GateAnswers
  BY <1>4 DEF GateTakes, GateRefuses, GateAdmits, GateAnswers, transport, Sent
<1>5. CASE CallFails \/ CallPosts \/ CallTimesOut \/ CallDisconnects \/ CallReceives
  BY <1>5 DEF CallFails, CallPosts, CallTimesOut, CallDisconnects, CallReceives, transport, Sent
<1>6. CASE EnterPool \/ ClosePool \/ PoolClosed \/ Damage \/ Tick \/ UNCHANGED vars
  BY <1>6 DEF EnterPool, ClosePool, PoolClosed, Damage, Tick, vars, transport, Sent
<1> QED BY <1>1, <1>2, <1>3, <1>4, <1>5, <1>6 DEF Next

\* Only the worker touches its request, and an answered one stays; only Gate
\* touches its own, and what it has said stays.
LEMMA WorkKept ==
  ASSUME IInv, [Next]_vars
  PROVE  /\ req[Work].pc = "done" => req' = req
         /\ \/ req' = req \/ WorkerTakes
            \/ /\ WorkerEnds \/ WorkerTimesOut
               /\ req[Work].pc = "running" /\ req'[Work].pkt = req[Work].pkt
               /\ \/ /\ req'[Work].pc = "running" /\ req'[Work].since = req[Work].since
                     /\ req'[Work].outcome = req[Work].outcome
                  \/ /\ req'[Work].pc = "done"
                     /\ req'[Work].outcome \in {"returned", "forwarded", "raised", "blank", "timeout"}
<1>1. WorkerTakes \/ WorkerEnds \/ WorkerTimesOut \/ req' = req
  BY DEF Next, vars, worker, CallFails, CallPosts, CallTimesOut, CallDisconnects, CallReceives,
     GateTakes, GateRefuses, GateAdmits, GateAnswers, DispatchFails, DispatchOnClosed,
     DispatchPosts, DispatchTimesOut, DispatchDisconnects, DispatchReceives, EnterPool, ClosePool,
     PoolClosed, Damage, Tick
<1>2. WorkerTakes => req[Work].pc # "done"
  BY DEF WorkerTakes, WorkerActs, Worker!RejectBody, Worker!Refuse, Worker!Start, Worker!Arrives
<1>3. CASE WorkerEnds \/ WorkerTimesOut
  BY <1>3, WorkerGoesOn
<1> QED BY <1>1, <1>2, <1>3

LEMMA GateKept ==
  ASSUME IInv, [Next]_vars
  PROVE  /\ GateTakes => gate.pc = "idle" /\ gate'.pc = "asked" /\ gate'.pkt = wire.toGate
         /\ ~GateTakes => gate'.pkt = gate.pkt /\ (gate'.pc = "idle" <=> gate.pc = "idle")
         /\ gate.pc = "done" => gate' = gate
         /\ gate'.pc = "busy" /\ gate.pc # "busy" => Intact(gate.pkt)
<1>1. DOMAIN gate = {"pc", "since", "pkt", "reply"}
  BY DEF IInv, Setting
<1>2. CASE gate' = gate /\ ~GateTakes
  BY <1>2
<1>3. CASE GateTakes
  BY <1>3 DEF GateTakes, IInv, Order
<1>4. CASE (GateRefuses \/ GateAdmits \/ GateAnswers) /\ ~GateTakes
  <2>1. \A r : GateReplies(r) => gate'.pc = "done" /\ gate'.pkt = gate.pkt
    BY <1>1 DEF GateReplies
  <2> QED BY <1>4, <2>1 DEF GateRefuses, GateAdmits, GateAnswers
<1>5. CASE (DispatchFails \/ DispatchOnClosed \/ DispatchPosts) /\ ~GateTakes
  BY <1>1, <1>5 DEF DispatchFails, DispatchOnClosed, DispatchPosts, AtDispatch
<1>6. \/ gate' = gate \/ GateTakes \/ GateRefuses \/ GateAdmits \/ GateAnswers
      \/ DispatchFails \/ DispatchOnClosed \/ DispatchPosts
  BY DEF Next, vars, client, CallFails, CallPosts, CallTimesOut, CallDisconnects, CallReceives,
     DispatchTimesOut, DispatchDisconnects, DispatchReceives, EnterPool, ClosePool, PoolClosed,
     WorkerTakes, WorkerEnds, WorkerTimesOut, WorkerActs, Damage, Tick
<1> QED BY <1>2, <1>3, <1>4, <1>5, <1>6

\* A leg towards the worker is filled once, by the POST on it.
LEMMA WireKept ==
  ASSUME IInv, [Next]_vars, ~Damage
  PROVE  /\ ~CallPosts => wire'.toGate \in {wire.toGate, None}
         /\ ~DispatchPosts => wire'.toWorker \in {wire.toWorker, None}
<1>1. DOMAIN wire = DOMAIN NoWire
  BY DEF IInv, Setting
<1>2. CASE WorkerTakes \/ WorkerEnds \/ WorkerTimesOut
  BY <1>1, <1>2 DEF WorkerTakes, WorkerEnds, WorkerTimesOut, WorkerActs, NoWire
<1>3. CASE CallFails \/ CallPosts \/ CallTimesOut \/ CallDisconnects \/ CallReceives
  BY <1>1, <1>3 DEF CallFails, CallPosts, CallTimesOut, CallDisconnects, CallReceives, NoWire
<1>4. CASE GateTakes \/ GateRefuses \/ GateAdmits \/ GateAnswers
  <2>1. \A r : GateReplies(r) => wire'.toWorker = wire.toWorker /\ wire'.toGate = wire.toGate
    BY <1>1 DEF GateReplies, NoWire
  <2> QED BY <1>1, <1>4, <2>1 DEF GateTakes, GateRefuses, GateAdmits, GateAnswers, NoWire
<1>5. CASE \/ DispatchFails \/ DispatchOnClosed \/ DispatchPosts
           \/ DispatchTimesOut \/ DispatchDisconnects \/ DispatchReceives
  BY <1>1, <1>5 DEF DispatchFails, DispatchOnClosed, DispatchPosts, DispatchTimesOut,
     DispatchDisconnects, DispatchReceives, NoWire
<1>6. CASE EnterPool \/ ClosePool \/ PoolClosed \/ Tick \/ UNCHANGED vars
  BY <1>6 DEF EnterPool, ClosePool, PoolClosed, Tick, vars
<1> QED BY <1>2, <1>3, <1>4, <1>5, <1>6 DEF Next
-----------------------------------------------------------------------------
(* What the parties make.                                                   *)

LEMMA SignedParts ==
  ASSUME SignatureIsOne, NEW c, NEW q, NEW core, NEW label, NEW hops,
         q = [core |-> core, restricted |-> label, hash |-> core, sig |-> None, hops |-> hops]
  PROVE  LET p == MaybeSign(c, q) IN
         /\ p.core = core /\ p.restricted = label /\ p.hash = core /\ p.hops = hops
         /\ Signed(p, c.key)
<1>1. CASE c.key = None
  BY <1>1 DEF MaybeSign, Signed
<1>2. CASE c.key # None
  <2>1. PICK p : p = MaybeSign(c, q)
    OBVIOUS
  <2>2. p = [q EXCEPT !.hash = core, !.sig = [key |-> c.key, over |-> core]]
    BY <1>2, <2>1 DEF MaybeSign, SignedBy, TransportHash
  <2>3. /\ p.core = core /\ p.restricted = label /\ p.hash = core /\ p.hops = hops
        /\ p.sig = [key |-> c.key, over |-> core]
    BY <2>2
  <2>4. p.sig # None /\ p.sig.key = c.key /\ p.sig.over = core
    BY <2>3 DEF SignatureIsOne
  <2> QED BY <1>2, <2>1, <2>3, <2>4 DEF Signed
<1> QED BY <1>1, <1>2

\* The packet a call sends, which the client's own check has let pass.
LEMMA RootOrdinary ==
  ASSUME SignatureIsOne, setup \in Setups, CallError = None
  PROVE  LET p == MaybeSign(setup.client, Root) IN
         /\ Ordinary(p.core)
         /\ ~p.core.audited /\ p.core.links = 0 /\ p.core.until = None
         /\ ~Probe => ~(p.restricted /\ ~p.core.audited)
<1>1. PICK core : core = RootCore(setup.client, setup.ask, setup.action, <<"call", 0>>, now)
  OBVIOUS
<1>2. Ordinary(core) /\ ~core.audited /\ core.links = 0 /\ core.until = None
  BY <1>1 DEF RootCore, Ordinary, Header, CallId
<1>3. PICK p : p = MaybeSign(setup.client, Root)
  OBVIOUS
<1>4. p.core = core
  <2>1. Root = [core |-> core, restricted |-> setup.ask.restricted, hash |-> core, sig |-> None,
                hops |-> <<>>]
    BY <1>1 DEF Root, Unsigned, TransportHash
  <2> QED BY <1>3, <2>1, SignedParts
<1>5. ASSUME ~Probe PROVE ~(p.restricted /\ ~p.core.audited)
  <2>1. SendError(setup.client, Root, now) = None
    BY <1>5, RailAssumption DEF CallError, ExecuteError, GateErrors, Untyped
  <2>2. Valid(p, ClientCheck(setup.client, setup.client.requireSig), now)
    BY <1>3, <2>1, RailAssumption DEF SendError, GateErrors
  <2> QED BY <2>2, ValidExactly
<1> QED BY <1>2, <1>3, <1>4, <1>5

LEMMA DerivedParts ==
  ASSUME setup \in Setups, Ordinary(gate.pkt.core), gate.pkt.core.until = None, SignatureIsOne
  PROVE  LET p == MaybeSign(setup.authority, Derived) IN
         /\ p.core.until \in Int \cup {None}
         /\ p.core = Derived.core /\ Ordinary(p.core) /\ p.restricted = gate.pkt.restricted
         /\ p.core.created = now /\ p.core.cause = gate.pkt.core.id
         /\ OneHop(p) /\ p.hops[1].body.status = "delegated"
         /\ Intact(p) /\ Signed(p, setup.authority.key)
<1>1. PICK core : core = [Child(gate.pkt, <<"dispatch", 0>>, now) EXCEPT
                 !.src = Gate, !.dst = Node, !.replyTo = Gate, !.timeout = Remaining,
                 !.resolved = TRUE, !.route = "external_ingress", !.origin = "gate"]
  OBVIOUS
<1>2. /\ Header \subseteq DOMAIN gate.pkt.core
      /\ Ordinary(gate.pkt.core)
  BY DEF Ordinary
<1>3. /\ DOMAIN core = DOMAIN gate.pkt.core /\ core.created = now
      /\ core.cause = gate.pkt.core.id
      /\ \A f \in {"defects", "notBefore", "expires", "replay", "action", "idem", "tenant",
                   "attached", "corr", "payload", "until"} : core[f] = gate.pkt.core[f]
  <2>1. PICK k : k = Child(gate.pkt, <<"dispatch", 0>>, now)
    OBVIOUS
  <2>2. /\ DOMAIN k = DOMAIN gate.pkt.core /\ k.created = now /\ k.cause = gate.pkt.core.id
        /\ \A f \in {"defects", "notBefore", "expires", "replay", "action", "idem", "tenant",
                     "attached", "corr", "payload", "until"} : k[f] = gate.pkt.core[f]
    BY <1>2, <2>1 DEF Child, Header
  <2>3. core = [k EXCEPT !.src = Gate, !.dst = Node, !.replyTo = Gate, !.timeout = Remaining,
                         !.resolved = TRUE, !.route = "external_ingress", !.origin = "gate"]
    BY <1>1, <2>1
  <2>4. /\ DOMAIN core = DOMAIN k
        /\ \A f \in DOMAIN k \ {"src", "dst", "replyTo", "timeout", "resolved", "route", "origin"} :
             core[f] = k[f]
    BY <2>3
  <2> QED BY <1>2, <2>2, <2>4 DEF Header
<1>4. Ordinary(core)
  BY <1>2, <1>3 DEF Ordinary
<1>5. PICK made : made = [f \in DOMAIN core |->
                            IF f \in DOMAIN setup.slip THEN setup.slip[f] ELSE core[f]]
  OBVIOUS
<1>6. /\ DOMAIN made = DOMAIN core /\ made.created = now /\ made.cause = gate.pkt.core.id
      /\ Ordinary(made) /\ made.until \in Int \cup {None}
  <2>1. \A f \in {"created", "cause", "defects", "notBefore", "expires", "replay", "action",
                  "idem", "tenant", "corr", "payload", "attached"} : f \notin DOMAIN setup.slip
    BY RailAssumption DEF SlipFields
  <2>2. \A f \in {"created", "cause", "defects", "notBefore", "expires", "replay", "action",
                  "idem", "tenant", "corr", "payload", "attached"} : f \in DOMAIN core
    BY <1>4 DEF Ordinary, Header
  <2>3. \A f \in {"created", "cause", "defects", "notBefore", "expires", "replay", "action",
                  "idem", "tenant", "corr", "payload", "attached"} : made[f] = core[f]
    BY <1>5, <2>1, <2>2
  <2>4. /\ made.created = core.created /\ made.cause = core.cause
        /\ made.defects = core.defects /\ made.notBefore = core.notBefore
        /\ made.expires = core.expires /\ made.replay = core.replay
        /\ made.action = core.action /\ made.idem = core.idem
        /\ made.tenant = core.tenant /\ made.attached = core.attached
        /\ made.corr = core.corr /\ made.payload = core.payload
    BY <2>3
  <2>5. made.until \in Int \cup {None}
    <3>1. "until" \in DOMAIN core
      BY <1>4 DEF Ordinary, Header
    <3> QED BY <1>3, <1>5, <3>1, RailAssumption
  <2> QED BY <1>3, <1>4, <1>5, <2>4, <2>5 DEF Ordinary
<1>7. PICK hop : hop = MakeHop(Unsigned(made, gate.pkt.restricted), Gate, "dispatch", "delegated",
                               None, now)
  OBVIOUS
<1>8. /\ hop.body.pid = made.id /\ hop.body.prev = None /\ hop.hash = HopHash(made, hop.body)
      /\ hop.body.status = "delegated"
  BY <1>7 DEF MakeHop, Unsigned, TransportHash, LastHopHash
<1>9. Derived = [core |-> made, restricted |-> gate.pkt.restricted, hash |-> made, sig |-> None,
                 hops |-> <<hop>>]
  <2>1. Derived = WithHop(Unsigned(made, gate.pkt.restricted), hop)
    BY <1>1, <1>5, <1>7 DEF Derived
  <2>2. Unsigned(made, gate.pkt.restricted) =
          [core |-> made, restricted |-> gate.pkt.restricted, hash |-> made, sig |-> None,
           hops |-> <<>>]
    BY DEF Unsigned, TransportHash
  <2> QED BY <2>1, <2>2 DEF WithHop
<1>10. PICK p : p = MaybeSign(setup.authority, Derived)
  OBVIOUS
<1>11. /\ p.core = made /\ p.restricted = gate.pkt.restricted /\ p.hash = made /\ p.hops = <<hop>>
       /\ Signed(p, setup.authority.key)
  BY <1>9, <1>10, SignedParts
<1>12. Derived.core = made
  BY <1>9
<1>13. Len(<<hop>>) = 1 /\ DOMAIN <<hop>> = {1} /\ <<hop>>[1] = hop
  OBVIOUS
<1>14. OneHop(p) /\ p.hops[1].body.status = "delegated"
  BY <1>8, <1>11, <1>13 DEF OneHop
<1> QED BY <1>6, <1>10, <1>11, <1>12, <1>14 DEF Intact, TransportHash

\* The worker's validator is the same one.
LEMMA SameValidator ==
  ASSUME NEW p, NEW v, NEW at
  PROVE  Worker!Valid(p, v, at) <=> Valid(p, v, at)
<1>1. Worker!ValidHopTrace(p) <=> ValidHopTrace(p)
  BY DEF Worker!ValidHopTrace, ValidHopTrace, Worker!BadHops, BadHops, Worker!HopVerdict,
     HopVerdict, Worker!HopHash, HopHash
<1>2. Worker!HopTraceError(p) = HopTraceError(p)
  BY DEF Worker!HopTraceError, HopTraceError, Worker!ValidHopTrace, ValidHopTrace,
     Worker!BadHops, BadHops, Worker!HopVerdict, HopVerdict, Worker!HopHash, HopHash
<1>3. Worker!Checks(p, v, at) = Checks(p, v, at)
  BY <1>1, <1>2 DEF Worker!Checks, Checks, Worker!SignatureVerifies, SignatureVerifies,
     Worker!DelegationOK, DelegationOK
<1> QED BY <1>3 DEF Worker!Valid, Valid, Worker!Failing, Failing

\* One hop of the packet's own maker is a journal in order.
LEMMA OneHopIsValid == ASSUME NEW p, OneHop(p) PROVE ValidHopTrace(p)
  BY DEF OneHop, ValidHopTrace, BadHops, HopVerdict

-----------------------------------------------------------------------------
(* The way down: what Gate sends is what its worker takes.                  *)

\* The call as it was posted: create_transport_packet audits and delegates nothing.
CallMade ==
  Sent(call) =>
    LET p == call.pkt IN
    /\ Ordinary(p.core) /\ ~p.core.audited /\ p.core.links = 0 /\ p.core.until = None
    /\ ~Probe => ~(p.restricted /\ ~p.core.audited)
    /\ call.deadline \in Int

\* The dispatch as it was posted: what derive, the authority check, the hop and
\* the signature make of it.
DispatchMade ==
  Sent(dispatch) =>
    LET p == dispatch.pkt IN
    /\ Ordinary(p.core) /\ p.core.created = dispatch.since /\ dispatch.since <= now
    /\ p.core.cause = CallId
    /\ p.core.src = setup.authority.gate /\ p.core.replyTo = setup.authority.gate
    /\ p.core.dst = Node /\ p.core.resolved /\ p.core.route = "external_ingress"
    /\ OneHop(p) /\ p.hops[1].body.status = "delegated"
    /\ Signed(p, setup.authority.key)
    /\ 1 <= MaxHops /\ ~(p.core.links > MaxLinks) /\ ~(p.restricted /\ ~p.core.audited)
    /\ p.core.until \in Int \cup {None}
    /\ dispatch.deadline \in Int

\* What the parties have of each other's packets, unless the network damages things.
Undamaged ==
  "damaged" \notin faults =>
    /\ wire.toGate # None => wire.toGate = call.pkt
    /\ gate.pc # "idle" => gate.pkt = call.pkt
    /\ wire.toWorker # None => wire.toWorker = dispatch.pkt
    /\ req[Work].pc = "running" => req[Work].pkt = dispatch.pkt

LEMMA CallMadeStep ==
  ASSUME IInv, CallMade, SignatureIsOne, [Next]_vars
  PROVE  CallMade'
<1>1. setup' = setup /\ Probe' = Probe
  BY Frame DEF Probe
<1>2. CASE CallPosts
  <2>1. PICK p : p = MaybeSign(setup.client, Root)
    OBVIOUS
  <2>2. call'.pkt = p /\ call'.deadline = now + Budget(setup.client, p) /\ CallError = None
    BY <1>2, <2>1 DEF CallPosts, IInv, Setting, NoCall
  <2>3. call'.deadline \in Int
    BY <2>1, <2>2, RootFields, TotalType DEF Budget, IInv, Setting
  <2>4. /\ Ordinary(p.core) /\ ~p.core.audited /\ p.core.links = 0 /\ p.core.until = None
        /\ ~Probe => ~(p.restricted /\ ~p.core.audited)
    BY <2>1, <2>2, RootOrdinary DEF IInv, Setting
  <2> QED BY <1>1, <2>2, <2>3, <2>4 DEF CallMade, Ordinary
<1>3. CASE ~CallPosts
  BY <1>1, <1>3, CallKept DEF CallMade, Ordinary
<1> QED BY <1>2, <1>3

\* What Gate has, if it is intact, is the call.
LEMMA GateHasCall ==
  ASSUME IInv, gate.pc # "idle", Intact(gate.pkt)
  PROVE  gate.pkt.core = call.pkt.core /\ Sent(call)
<1>1. Sent(call) /\ Travels(gate.pkt, call.pkt) /\ Intact(call.pkt)
  BY DEF IInv, Order, ClientLeg
<1> QED BY <1>1 DEF Travels, Intact, TransportHash

LEMMA DispatchMadeStep ==
  ASSUME IInv, IInv', CallMade, DispatchMade, [Next]_vars, SignatureIsOne
  PROVE  DispatchMade'
<1>1. setup' = setup /\ now' \in {now, now + 1} /\ now \in Int
  BY Frame DEF IInv, Setting
<1>2. CASE DispatchPosts
  <2>1. PICK p : p = MaybeSign(setup.authority, Derived)
    OBVIOUS
  <2>2. /\ gate.pc = "asked" /\ Intact(gate.pkt) /\ Dispatchable = None /\ now' = now
        /\ dispatch'.pkt = p /\ dispatch'.since = now /\ dispatch'.deadline = now + p.core.timeout
    BY <1>2, <2>1 DEF DispatchPosts, AtDispatch, IInv, Setting, NoCall
  <2>3. gate.pkt.core = call.pkt.core /\ Ordinary(gate.pkt.core) /\ setup \in Setups
        /\ gate.pkt.core.id = CallId /\ gate.pkt.core.until = None
    BY <2>2, GateHasCall DEF CallMade, IInv, Setting, ClientLeg
  <2>4. /\ p.core = Derived.core /\ Ordinary(p.core)
        /\ p.core.created = now /\ p.core.cause = CallId
        /\ OneHop(p) /\ p.hops[1].body.status = "delegated"
        /\ Signed(p, setup.authority.key) /\ p.core.until \in Int \cup {None}
    BY <2>1, <2>3, DerivedParts
  <2>5. /\ GateAuthored(setup.authority, Derived, Node)
        /\ Valid(p, ClientCheck(setup.authority, setup.authority.requireSig), now)
    BY <2>1, <2>2, RailAssumption DEF Dispatchable, DispatchError, DispatchErrors
  <2>6. /\ p.core.src = setup.authority.gate /\ p.core.replyTo = setup.authority.gate
        /\ p.core.dst = Node /\ p.core.resolved /\ p.core.route = "external_ingress"
    BY <2>4, <2>5 DEF GateAuthored
  <2>7. ~(Len(p.hops) > MaxHops) /\ ~(p.core.links > MaxLinks) /\ ~(p.restricted /\ ~p.core.audited)
    <3>1. PICK v : v = ClientCheck(setup.authority, setup.authority.requireSig)
      OBVIOUS
    <3>2. v.maxHops = MaxHops /\ v.maxLinks = MaxLinks
      BY <3>1 DEF ClientCheck
    <3>3. Valid(p, v, now)
      BY <2>5, <3>1
    <3>4. /\ ~(Len(p.hops) > v.maxHops) /\ ~(p.core.links > v.maxLinks)
          /\ ~(p.restricted /\ ~p.core.audited)
      BY ONLY <3>3, ValidExactly
    <3> QED BY <3>2, <3>4
  <2>8. 1 <= MaxHops
    BY DefaultsAssumption
  <2>9. p.core.timeout \in Int
    <3>1. Sent(dispatch)'
      BY <1>2 DEF DispatchPosts, Sent, IInv, Setting, NoCall
    <3>2. p.core.timeout = Total' - (now - gate'.since) /\ gate'.since \in Int /\ Total' \in Int
      <4>1. gate'.pc # "idle"
        BY <3>1 DEF IInv, Order, Sent
      <4> QED BY <2>2, <3>1, <4>1, <1>1, TotalType, SetupKept DEF IInv, DispatchLeg, ClientLeg, Setting
    <3> QED BY <1>1, <3>2
  <2> QED BY <1>1, <2>2, <2>4, <2>6, <2>7, <2>8, <2>9 DEF DispatchMade, Ordinary
<1>3. CASE ~DispatchPosts
  <2>1. /\ Sent(dispatch)' => Sent(dispatch)
        /\ Sent(dispatch) => /\ dispatch'.pkt = dispatch.pkt /\ dispatch'.since = dispatch.since
                              /\ dispatch'.deadline = dispatch.deadline
    BY <1>3, DispatchKept
  <2>2. Sent(dispatch) => dispatch.since \in Int
    BY DEF IInv, DispatchLeg
  <2> QED BY <1>1, <2>1, <2>2 DEF DispatchMade, Ordinary
<1> QED BY <1>2, <1>3

\* What is on the way to the worker changes only so.
LEMMA UndamagedStep ==
  ASSUME IInv, Undamaged, [Next]_vars
  PROVE  Undamaged'
<1>1. faults \subseteq faults' /\ (Damage => "damaged" \in faults')
  BY Frame
<1>2. DOMAIN wire = DOMAIN NoWire
  BY DEF IInv, Setting
<1>3. SUFFICES ASSUME "damaged" \notin faults', "damaged" \notin faults, ~Damage
               PROVE  Undamaged'
  BY <1>1 DEF Undamaged
<1>4. wire'.toGate # None => wire'.toGate = call'.pkt
  <2>1. CASE CallPosts
    BY <1>2, <2>1 DEF CallPosts, NoWire, IInv, Setting, NoCall
  <2>2. CASE ~CallPosts
    BY <1>3, <2>2, WireKept, CallKept DEF Undamaged, IInv, Order
  <2> QED BY <2>1, <2>2
<1>5. gate'.pc # "idle" => gate'.pkt = call'.pkt
  <2>1. CASE CallPosts
    BY <2>1 DEF CallPosts, IInv, Order, Sent
  <2>2. CASE ~CallPosts
    <3>1. gate.pc # "idle" \/ wire.toGate # None => call'.pkt = call.pkt
      BY <2>2, CallKept DEF IInv, Order
    <3>2. GateTakes => wire.toGate # None
      BY DEF GateTakes
    <3> QED BY <1>3, <3>1, <3>2, GateKept DEF Undamaged
  <2> QED BY <2>1, <2>2
<1>6. wire'.toWorker # None => wire'.toWorker = dispatch'.pkt
  <2>1. CASE DispatchPosts
    BY <1>2, <2>1 DEF DispatchPosts, NoWire, IInv, Setting, NoCall
  <2>2. CASE ~DispatchPosts
    BY <1>3, <2>2, WireKept, DispatchKept DEF Undamaged, IInv, Order
  <2> QED BY <2>1, <2>2
<1>7. req'[Work].pc = "running" => req'[Work].pkt = dispatch'.pkt
  <2>1. CASE WorkerTakes
    <3>1. dispatch' = dispatch /\ wire.toWorker = dispatch.pkt
      BY <1>3, <2>1 DEF WorkerTakes, WorkerActs, transport, Undamaged
    <3>2. \/ WorkerActs(Worker!Start(Work, wire.toWorker, "execute"), TRUE)
          \/ \E a : Worker!Turned(Work, wire.toWorker, "execute", a)
      BY <2>1 DEF WorkerTakes, WorkerActs, Worker!RejectBody, Worker!Refuse
    <3>3. CASE \E a : Worker!Turned(Work, wire.toWorker, "execute", a)
      BY <3>3 DEF Worker!Turned, Worker!Idle, IInv, Setting
    <3>4. CASE WorkerActs(Worker!Start(Work, wire.toWorker, "execute"), TRUE)
      BY <3>1, <3>4 DEF WorkerActs, Worker!Start, Worker!Idle, IInv, Setting
    <3> QED BY <3>2, <3>3, <3>4
  <2>2. CASE ~WorkerTakes
    <3>1. req'[Work].pc = "running" =>
            req[Work].pc = "running" /\ req'[Work].pkt = req[Work].pkt
      BY <2>2, WorkKept
    <3>2. req[Work].pc = "running" => Sent(dispatch) /\ ~DispatchPosts
      BY DEF IInv, Order, DispatchPosts, AtDispatch, Sent
    <3> QED BY <1>3, <3>1, <3>2, DispatchKept DEF Undamaged
  <2> QED BY <2>1, <2>2
<1> QED BY <1>4, <1>5, <1>6, <1>7 DEF Undamaged

\* Whether Gate and the worker agree on a packet is settled from the start.
LEMMA CompatibleKept ==
  ASSUME [Next]_vars, NEW p
  PROVE  Compatible(p)' <=> Compatible(p)
  BY Frame DEF Compatible, Worker!AllowedActions, Worker!AllowedTypes, Worker!RequireSignature,
     Worker!VerifyingKeys

\* A dispatch as it was posted passes every check of a worker that agrees with it.
LEMMA AgreedIsTaken ==
  ASSUME IInv, DispatchMade, Sent(dispatch), Agreed,
         dispatch.pkt.core.until # None => now + setup.drift <= dispatch.pkt.core.until
  PROVE  Worker!Decodable(dispatch.pkt) /\ Worker!Admits(dispatch.pkt, "execute")
<1> DEFINE p == dispatch.pkt
           w == setup.worker
           v == Worker!RouteCheck(w, "execute")
           at == now + setup.drift
<1>1. /\ Ordinary(p.core) /\ p.core.created = dispatch.since /\ dispatch.since <= now
      /\ p.core.src = setup.authority.gate
      /\ p.core.dst = Node /\ p.core.resolved /\ p.core.route = "external_ingress"
      /\ OneHop(p) /\ p.hops[1].body.status = "delegated"
      /\ Signed(p, setup.authority.key) /\ ~(p.restricted /\ ~p.core.audited)
      /\ p.core.type = "request" /\ Intact(p)
  BY DEF DispatchMade, IInv, DispatchLeg
<1>2. /\ setup.drift \in Int /\ now \in Int /\ dispatch.since \in Int
      /\ w.skew \in Nat /\ w.maxHops \in Nat /\ None # "external_ingress"
  BY RailAssumption DEF IInv, Setting, DispatchLeg
<1>3. /\ w.enforce => setup.authority.gate = Gate
      /\ handlers[setup.action] # None \/ handlers[AnyAction] # None
      /\ Worker!AllowedActions(w, "execute") # None =>
           setup.action \in Worker!AllowedActions(w, "execute")
      /\ Worker!AllowedTypes(w, "execute") # None => "request" \in Worker!AllowedTypes(w, "execute")
      /\ setup.action \in w.idem => setup.ask.idem # None
      /\ w.maxHops > 0 /\ ~(Size(p) > w.maxBytes) /\ ~(p.core.links > w.maxLinks)
      /\ w.skew + setup.drift >= 0
  BY DEF Agreed, Compatible
<1>4. IF setup.authority.key = None
        THEN w.dev \/ ~(Worker!RequireSignature(w, "execute") \/ p.restricted)
        ELSE \/ setup.authority.key \in Worker!VerifyingKeys(w)
             \/ (w.dev /\ Worker!VerifyingKeys(w) = {})
  BY DEF Agreed, Compatible
<1>5. /\ v.types = Worker!AllowedTypes(w, "execute")
      /\ v.actions = Worker!AllowedActions(w, "execute") /\ v.node = Node
      /\ v.skew = w.skew /\ v.maxHops = w.maxHops /\ v.idem = w.idem /\ v.dev = w.dev
      /\ v.maxBytes = w.maxBytes /\ v.maxLinks = w.maxLinks
      /\ v.requireSig = Worker!RequireSignature(w, "execute")
      /\ v.keys = Worker!VerifyingKeys(w)
  BY DEF Worker!RouteCheck
<1>6. p.core.until # None => at <= p.core.until
  OBVIOUS
<1> HIDE DEF p, w, v
<1>7. Worker!Decodable(p)
  <2>1. Worker!HeaderOK(p.core)
    BY <1>1 DEF Ordinary, Worker!HeaderOK
  <2>2. Worker!Intact(p)
    BY <1>1 DEF Intact, TransportHash, Worker!Intact, Worker!TransportHash
  <2>3. \A i \in DOMAIN p.hops : Worker!HopOK(p.hops[i])
    BY <1>1 DEF OneHop, Worker!HopOK
  <2> QED BY <2>1, <2>2, <2>3 DEF Worker!Decodable
<1>8. w.enforce => Worker!IngressOK(w, p, "execute")
  BY <1>1, <1>2, <1>3 DEF Worker!IngressOK, Worker!GateMediated, Worker!RouteKind
<1>9. Valid(p, v, at)
  <2>1. ~(IF p.sig = None THEN (v.requireSig \/ p.restricted) /\ ~v.dev
            ELSE ~(v.dev /\ v.keys = {}) /\ ~SignatureVerifies(p, v.keys))
    BY <1>1, <1>4, <1>5 DEF Signed, SignatureVerifies
  <2>2. ~(v.types # None /\ p.core.type \notin v.types)
    BY <1>1, <1>3, <1>5
  <2>3. ~(v.actions # None /\ p.core.action \notin v.actions)
    BY <1>1, <1>3, <1>5 DEF Ordinary
  <2>4. ~(v.node # None /\ p.core.dst # v.node)
    BY <1>1, <1>5
  <2>5. /\ ~(p.core.created > at + v.skew) /\ ~(Len(p.hops) > v.maxHops)
        /\ ~(Size(p) > v.maxBytes) /\ ~(p.core.links > v.maxLinks)
    BY <1>1, <1>2, <1>3, <1>5 DEF OneHop
  <2>6. /\ ~(p.core.notBefore # None /\ at < p.core.notBefore)
        /\ ~(p.core.expires # None /\ at > p.core.expires)
        /\ ~(p.core.attached # None /\ p.core.attached \notin v.attachable)
        /\ p.core.type # "replay_request" /\ ~p.core.replay /\ p.core.defects = {}
    BY <1>1 DEF Ordinary
  <2>7. ~(p.core.action \in v.idem /\ p.core.idem = None)
    BY <1>1, <1>3, <1>5 DEF Ordinary
  <2>8. ValidHopTrace(p) /\ ~(p.restricted /\ ~p.core.audited)
    BY <1>1, OneHopIsValid
  <2>9. DelegationOK(p.core, at)
    BY <1>1, <1>6, <2>6 DEF DelegationOK
  <2> QED BY <2>1, <2>2, <2>3, <2>4, <2>5, <2>6, <2>7, <2>8, <2>9, ChecksPass
<1>10. Worker!HandlerFor(p.core.action) # None
  BY <1>1, <1>3 DEF Worker!HandlerFor, Ordinary
<1> QED BY <1>7, <1>8, <1>9, <1>10, SameValidator DEF Worker!Admits, p, w, v

\* And a worker that takes it, relabelled or not, agrees with it, but for the clocks.
LEMMA TakenIsAgreed ==
  ASSUME IInv, DispatchMade, Sent(dispatch),
         NEW p, Travels(p, dispatch.pkt), p.core = dispatch.pkt.core,
         Worker!Admits(p, "execute")
  PROVE  Compatible(p)
<1> DEFINE w == setup.worker
           v == Worker!RouteCheck(w, "execute")
           at == now + setup.drift
<1>1. /\ Ordinary(p.core) /\ p.core.src = setup.authority.gate /\ OneHop(p)
      /\ Signed(p, setup.authority.key) /\ p.core.type = "request"
  BY DEF DispatchMade, IInv, DispatchLeg, Travels, OneHop, Signed
<1>2. /\ w.enforce => Worker!IngressOK(w, p, "execute")
      /\ Valid(p, v, at)
      /\ Worker!HandlerFor(p.core.action) # None
  BY SameValidator DEF Worker!Admits
<1>3. /\ v.types = Worker!AllowedTypes(w, "execute")
      /\ v.actions = Worker!AllowedActions(w, "execute")
      /\ v.maxHops = w.maxHops /\ v.idem = w.idem /\ v.dev = w.dev
      /\ v.maxBytes = w.maxBytes /\ v.maxLinks = w.maxLinks /\ v.attachable = w.attachable
      /\ v.requireSig = Worker!RequireSignature(w, "execute")
      /\ v.keys = Worker!VerifyingKeys(w)
      /\ w.maxHops \in Nat
  BY RailAssumption DEF Worker!RouteCheck, IInv, Setting
<1> HIDE DEF w, v, at
<1>4. /\ v.types # None => p.core.type \in v.types
      /\ v.actions # None => p.core.action \in v.actions
      /\ ~(Len(p.hops) > v.maxHops)
      /\ ~(Size(p) > v.maxBytes) /\ ~(p.core.links > v.maxLinks)
      /\ p.core.attached # None => p.core.attached \in v.attachable
      /\ p.core.action \in v.idem => p.core.idem # None
      /\ ~(IF p.sig = None THEN (v.requireSig \/ p.restricted) /\ ~v.dev
             ELSE ~(v.dev /\ v.keys = {}) /\ ~SignatureVerifies(p, v.keys))
  BY <1>2, ValidExactly
<1>5. w.enforce => setup.authority.gate = Gate
  BY <1>1, <1>2 DEF Worker!IngressOK, Worker!GateMediated
<1>6. handlers[setup.action] # None \/ handlers[AnyAction] # None
  BY <1>1, <1>2 DEF Worker!HandlerFor, Ordinary
<1>7. /\ w.maxHops > 0 /\ ~(Size(p) > w.maxBytes) /\ ~(p.core.links > w.maxLinks)
      /\ p.core.attached # None => p.core.attached \in w.attachable
  BY <1>1, <1>3, <1>4 DEF OneHop
<1>8. IF setup.authority.key = None
        THEN w.dev \/ ~(Worker!RequireSignature(w, "execute") \/ p.restricted)
        ELSE \/ setup.authority.key \in Worker!VerifyingKeys(w)
             \/ (w.dev /\ Worker!VerifyingKeys(w) = {})
  BY <1>1, <1>3, <1>4 DEF Signed, SignatureVerifies
<1>9. /\ Worker!AllowedActions(w, "execute") # None =>
           setup.action \in Worker!AllowedActions(w, "execute")
      /\ Worker!AllowedTypes(w, "execute") # None => "request" \in Worker!AllowedTypes(w, "execute")
      /\ setup.action \in w.idem => setup.ask.idem # None
  BY <1>1, <1>3, <1>4 DEF Ordinary
<1> QED BY <1>5, <1>6, <1>7, <1>8, <1>9 DEF Compatible, w

\* A refusal is an answer.
RefusedIsDone == req[Work].outcome = "refused" => req[Work].pc = "done"

LEMMA RefusedIsDoneStep ==
  ASSUME IInv, RefusedIsDone, [Next]_vars
  PROVE  RefusedIsDone'
<1>1. CASE WorkerTakes
  <2>1. \A x, route, a : Worker!Turned(Work, x, route, a) => req'[Work].pc = "done"
    BY DEF Worker!Turned, Worker!Idle, IInv, Setting
  <2>2. \A x : Worker!Start(Work, x, "execute") => req'[Work].outcome = "none"
    BY DEF Worker!Start, Worker!Idle, IInv, Setting
  <2> QED BY <1>1, <2>1, <2>2 DEF WorkerTakes, WorkerActs, Worker!RejectBody, Worker!Refuse,
     RefusedIsDone
<1>2. CASE ~WorkerTakes
  BY <1>2, WorkKept DEF RefusedIsDone
<1> QED BY <1>1, <1>2

\* docs/gate-authority-transport.md 35: what leaves Gate's transport undamaged is
\* refused only by a worker that does not agree with it, and run by one that does.
LEMMA RefusalStep ==
  ASSUME IInv, IInv', DispatchMade, Undamaged, RefusedIsDone, AgreedDispatchRuns, [Next]_vars
  PROVE  AgreedDispatchRuns'
<1>1. setup' = setup /\ handlers' = handlers /\ faults \subseteq faults'
  BY Frame
<1>2. Sent(dispatch) => dispatch'.pkt = dispatch.pkt
  <2>1. Sent(dispatch) => ~DispatchPosts
    BY DEF DispatchPosts, AtDispatch, IInv, Order, Sent
  <2> QED BY <2>1, DispatchKept
<1>3. Sent(dispatch) => (Agreed' <=> Agreed)
  <2>1. PICK p : p = dispatch.pkt
    OBVIOUS
  <2>2. Compatible(p)' <=> Compatible(p)
    BY CompatibleKept
  <2> QED BY <1>1, <1>2, <2>1, <2>2 DEF Agreed
<1>4. ASSUME NEW p, p = req[Work].pkt, req'[Work].pkt = p,
             req'[Work].outcome = "refused" =>
               req[Work].outcome = "refused" /\ req'[Work].since = req[Work].since,
             Worker!Executed(Work)' => Worker!Executed(Work),
             req[Work].outcome = "refused" => Sent(dispatch)
      PROVE  AgreedDispatchRuns'
  <2>1. Compatible(p)' <=> Compatible(p)
    BY CompatibleKept
  <2> QED BY <1>1, <1>2, <1>3, <1>4, <2>1 DEF AgreedDispatchRuns
<1>5. req[Work].outcome = "refused" => Sent(dispatch)
  BY DEF IInv, Order, RefusedIsDone
<1>6. CASE req' = req
  BY <1>4, <1>5, <1>6 DEF Worker!Executed, Worker!Running, Worker!Answered
<1>7. CASE WorkerTakes
  <2>1. wire.toWorker # None /\ Sent(dispatch) /\ faults' = faults /\ dispatch' = dispatch
    BY <1>7 DEF WorkerTakes, WorkerActs, IInv, Order, transport
  <2>2. PICK p : p = wire.toWorker
    OBVIOUS
  <2>3. Compatible(p)' <=> Compatible(p)
    BY CompatibleKept
  <2>4. CASE WorkerActs(Worker!Start(Work, wire.toWorker, "execute"), TRUE)
    <3>1. req'[Work].outcome = "none" /\ req'[Work].pc = "running" /\ req'[Work].pkt = p
      BY <2>2, <2>4 DEF WorkerActs, Worker!Start, Worker!Idle, IInv, Setting
    <3>2. Travels(p, dispatch.pkt) /\ p.core = dispatch.pkt.core
      BY <2>1, <2>2, <3>1 DEF IInv, WorkerLeg, DispatchLeg
    <3>3. Worker!Admits(p, "execute")
      BY <2>2, <2>4, Zenon DEF WorkerActs, Worker!Start
    <3>4. Compatible(p)'
      BY <2>1, <2>3, <3>2, <3>3, TakenIsAgreed
    <3> QED BY <3>1, <3>4 DEF AgreedDispatchRuns
  <2>5. CASE \/ WorkerActs(Worker!RejectBody(Work, wire.toWorker, "execute"), TRUE)
             \/ WorkerActs(Worker!Refuse(Work, wire.toWorker, "execute"), TRUE)
    <3>1. ~(Worker!Decodable(p) /\ Worker!Admits(p, "execute"))
      BY <2>2, <2>5, Zenon DEF WorkerActs, Worker!RejectBody, Worker!Refuse
    <3>2. req'[Work].outcome = "refused" /\ req'[Work].pc = "done"
          /\ req'[Work].since = now + setup.drift
      <4>1. \A x, route, a : Worker!Turned(Work, x, route, a) =>
              /\ req'[Work].outcome = "refused" /\ req'[Work].pc = "done"
              /\ req'[Work].since = now + setup.drift
        BY DEF Worker!Turned, Worker!Idle, IInv, Setting
      <4> QED BY <2>5, <4>1 DEF WorkerActs, Worker!RejectBody, Worker!Refuse
    <3>3. ASSUME Agreed', "damaged" \notin faults', dispatch'.pkt.core.until # None =>
                   now + setup.drift <= dispatch'.pkt.core.until
          PROVE  FALSE
      BY <1>3, <2>1, <2>2, <3>1, <3>3, AgreedIsTaken DEF Undamaged
    <3>4. now \in Int /\ setup.drift \in Int /\ dispatch'.pkt.core.until \in Int \cup {None}
      BY <2>1, RailAssumption DEF IInv, Setting, DispatchMade
    <3> QED BY <3>2, <3>3, <3>4 DEF AgreedDispatchRuns, Worker!Executed, Worker!Running,
       Worker!Answered
  <2> QED BY <1>7, <2>4, <2>5 DEF WorkerTakes
<1>8. CASE ~WorkerTakes /\ req' # req
  <2>1. /\ req[Work].pc = "running" /\ req'[Work].pkt = req[Work].pkt
        /\ req'[Work].outcome = "refused" =>
             req[Work].outcome = "refused" /\ req'[Work].since = req[Work].since
    BY <1>8, WorkKept
  <2> QED BY <1>4, <1>5, <2>1 DEF Worker!Executed, Worker!Running
<1> QED BY <1>6, <1>7, <1>8

WayDown == CallMade /\ DispatchMade /\ Undamaged /\ RefusedIsDone /\ AgreedDispatchRuns

LEMMA WayDownInit == Init => WayDown
<1> SUFFICES ASSUME Init PROVE WayDown
  OBVIOUS
<1>1. /\ ~Sent(call) /\ ~Sent(dispatch) /\ wire.toWorker = None
      /\ wire.toGate = None /\ gate.pc = "idle"
      /\ req[Work].outcome = "none" /\ req[Work].pc = "idle"
  BY DEF Init, NoCall, Sent, NoWire, Worker!Idle
<1> QED BY <1>1 DEF WayDown, CallMade, DispatchMade, Undamaged, RefusedIsDone, AgreedDispatchRuns,
   Worker!Executed, Worker!Running, Worker!Answered

LEMMA WayDownHolds ==
  ASSUME SignatureIsOne
  PROVE  Spec => []WayDown
<1>1. IInv /\ IInv' /\ WayDown /\ [Next]_vars => WayDown'
  BY CallMadeStep, DispatchMadeStep, UndamagedStep, RefusedIsDoneStep, RefusalStep DEF WayDown
<1> QED BY <1>1, WayDownInit, Inductive, PTL DEF Spec

\* Gate cannot send a packet its worker would reject: a dispatch that leaves the
\* transport is refused only by a worker that does not agree with it, damaged, or
\* when its delegation has run out on the way, and run only by a worker that agrees
\* with it as it arrived (_assert_gate_authored, execute_transport_packet), for every
\* setup and every limit of the worker, provided that no signature is None.
THEOREM AgreedDispatchesRun ==
  ASSUME \A key, over : None # [key |-> key, over |-> over]
  PROVE  Spec => []AgreedDispatchRuns
<1>1. SignatureIsOne
  BY DEF SignatureIsOne
<1>2. Spec => []WayDown
  BY <1>1, WayDownHolds
<1>3. WayDown => AgreedDispatchRuns
  BY DEF WayDown
<1> QED BY <1>2, <1>3, PTL

\* What a worker's handler is called with is what the application asked for, for
\* every setup, but for its classification: derive, the hop, the signature, the wire
\* and the worker's decoding keep it (GateDispatchTransport, model_validate), or the
\* worker refuses.
THEOREM TheCallIsExecuted ==
  ASSUME \A key, over : None # [key |-> key, over |-> over]
  PROVE  Spec => []ExecutesTheCall
<1>1. SignatureIsOne
  BY DEF SignatureIsOne
<1>2. Spec => []WayDown
  BY <1>1, WayDownHolds
<1>3. IInv /\ WayDown => ExecutesTheCall
  <2>1. SUFFICES ASSUME IInv, WayDown, Worker!Executed(Work)
                 PROVE  ExecutesTheCall
    BY DEF ExecutesTheCall
  <2>2. req[Work].pkt.core = dispatch.pkt.core /\ Sent(dispatch) /\ Sent(call) /\ ~Probe
    BY <2>1 DEF Worker!Executed, Worker!Running, Worker!Answered, IInv, Order, WorkerLeg, Setting,
       Sent
  <2>3. call.pkt.core.id = CallId /\ dispatch.pkt.core.root = CallId
    BY <2>1, <2>2 DEF IInv, ClientLeg, DispatchLeg
  <2>4. Ordinary(call.pkt.core)
    BY <2>1, <2>2 DEF WayDown, CallMade
  <2>5. Ordinary(dispatch.pkt.core) /\ dispatch.pkt.core.cause = CallId /\ dispatch.pkt.core.resolved
    BY <2>1, <2>2 DEF WayDown, DispatchMade
  <2> QED BY <2>2, <2>3, <2>4, <2>5 DEF ExecutesTheCall, Ordinary
<1> QED BY <1>2, <1>3, Inductive, PTL
-----------------------------------------------------------------------------
(* The way back: what the worker answers is what Gate's transport takes.    *)

\* q is an answer the SDK makes for the dispatch.
Replied(q) ==
  /\ q.core.defects = {} /\ q.core.notBefore = None /\ q.core.expires = None
  /\ q.core.replay = FALSE /\ q.core.type \in {"response", "failure"}
  /\ q.core.created \in Int /\ q.core.created <= now + setup.drift
  /\ q.core.attached = None /\ ~(q.core.links > MaxLinks) /\ ~(q.restricted /\ ~q.core.audited)
  /\ q.core.until = dispatch.pkt.core.until
  /\ AnswersDispatch(q, dispatch.pkt, Node, setup.authority.gate)
  /\ OneHop(q) /\ Intact(q) /\ Signed(q, setup.worker.key)

LEMMA SameAnswerCore ==
  ASSUME NEW p, NEW id, NEW at, NEW type, NEW node, NEW payload
  PROVE  Worker!AnswerCore(p, id, at, type, node, payload)
           = AnswerCore(p, id, at, type, node, payload)
BY DEF Worker!AnswerCore, AnswerCore, Worker!Child, Child

\* A packet the worker makes from a core.
MadeByWorker(core, label, status, error) ==
  LET q == Worker!Unsigned(core, label)
  IN  Worker!Sign(Worker!WithHop(q, Worker!MakeHop(q, Node, "response", status, error,
                                                   now + setup.drift)))

LEMMA WorkerMade ==
  ASSUME SignatureIsOne, NEW core, NEW label, NEW status, NEW error
  PROVE  LET q == MadeByWorker(core, label, status, error) IN
         /\ q.core = core /\ q.restricted = label
         /\ Intact(q) /\ OneHop(q) /\ Signed(q, setup.worker.key)
<1> DEFINE u == Worker!Unsigned(core, label)
<1>1. u = [core |-> core, restricted |-> label, hash |-> core, sig |-> None, hops |-> <<>>]
  BY DEF Worker!Unsigned, Worker!TransportHash
<1>2. PICK hop : hop = Worker!MakeHop(u, Node, "response", status, error, now + setup.drift)
  OBVIOUS
<1>3. hop.body.pid = core.id /\ hop.body.prev = None /\ hop.hash = HopHash(core, hop.body)
  BY <1>1, <1>2 DEF Worker!MakeHop, Worker!LastHopHash, Worker!HopHash, HopHash
<1>4. PICK h : h = Worker!WithHop(u, hop)
  OBVIOUS
<1>5. h = [core |-> core, restricted |-> label, hash |-> core, sig |-> None, hops |-> <<hop>>]
  BY <1>1, <1>4 DEF Worker!WithHop
<1>6. PICK q : q = Worker!Sign(h)
  OBVIOUS
<1>7. q = MadeByWorker(core, label, status, error)
  BY <1>2, <1>4, <1>6 DEF MadeByWorker
<1> HIDE DEF u
<1>8. /\ q.core = core /\ q.restricted = label /\ q.hash = core /\ q.hops = <<hop>>
      /\ Signed(q, setup.worker.key)
  <2>1. CASE setup.worker.key = None
    BY <1>5, <1>6, <2>1 DEF Worker!Sign, Signed
  <2>2. CASE setup.worker.key # None
    <3>1. q = [h EXCEPT !.hash = core, !.sig = [key |-> setup.worker.key, over |-> core]]
      BY <1>5, <1>6, <2>2 DEF Worker!Sign, Worker!SignedBy, Worker!TransportHash
    <3>2. /\ q.core = core /\ q.restricted = label /\ q.hash = core /\ q.hops = <<hop>>
          /\ q.sig = [key |-> setup.worker.key, over |-> core]
      BY <1>5, <3>1
    <3>3. q.sig # None /\ q.sig.key = setup.worker.key /\ q.sig.over = core
      BY <3>2 DEF SignatureIsOne
    <3> QED BY <2>2, <3>2, <3>3 DEF Signed
  <2> QED BY <2>1, <2>2
<1>9. Len(<<hop>>) = 1 /\ DOMAIN <<hop>> = {1} /\ <<hop>>[1] = hop
  OBVIOUS
<1>10. OneHop(q)
  BY <1>3, <1>8, <1>9 DEF OneHop
<1> QED BY <1>7, <1>8, <1>10 DEF Intact, TransportHash

\* What the worker makes from a child of the dispatch answers it.
LEMMA MadeReplies ==
  ASSUME IInv, DispatchMade, Sent(dispatch), SignatureIsOne,
         NEW id, NEW type \in {"response", "failure"}, NEW payload, NEW status, NEW error
  PROVE  Replied(MadeByWorker(Worker!AnswerCore(dispatch.pkt, id, now + setup.drift, type, Node,
                                                payload), dispatch.pkt.restricted, status, error))
<1> DEFINE at == now + setup.drift
<1>1. PICK core : core = Worker!AnswerCore(dispatch.pkt, id, at, type, Node, payload)
  OBVIOUS
<1>2. /\ Ordinary(dispatch.pkt.core) /\ dispatch.pkt.core.replyTo = setup.authority.gate
      /\ ~(dispatch.pkt.core.links > MaxLinks)
      /\ ~(dispatch.pkt.restricted /\ ~dispatch.pkt.core.audited)
  BY DEF DispatchMade
<1>3. /\ core.created = at /\ core.cause = dispatch.pkt.core.id /\ core.type = type
      /\ core.src = Node /\ core.dst = dispatch.pkt.core.replyTo
      /\ core.action = dispatch.pkt.core.action /\ core.root = dispatch.pkt.core.root
      /\ core.tenant = dispatch.pkt.core.tenant /\ core.corr = dispatch.pkt.core.corr
      /\ core.idem = dispatch.pkt.core.idem /\ core.links = dispatch.pkt.core.links
      /\ core.until = dispatch.pkt.core.until /\ core.audited = dispatch.pkt.core.audited
      /\ core.attached = None
      /\ core.defects = {} /\ core.notBefore = None /\ core.expires = None
      /\ core.replay = FALSE
  <2>1. PICK t : t = at
    OBVIOUS
  <2>2. PICK p : p = dispatch.pkt
    OBVIOUS
  <2>3. core = AnswerCore(p, id, t, type, Node, payload) /\ Ordinary(p.core)
    BY <1>1, <1>2, <2>1, <2>2, SameAnswerCore
  <2> HIDE DEF at
  <2>4. /\ core.created = t /\ core.cause = p.core.id /\ core.type = type
        /\ core.src = Node /\ core.dst = p.core.replyTo
        /\ core.action = p.core.action /\ core.root = p.core.root
        /\ core.tenant = p.core.tenant /\ core.corr = p.core.corr
        /\ core.idem = p.core.idem
        /\ core.links = p.core.links /\ core.until = p.core.until
        /\ core.audited = p.core.audited /\ core.attached = None
        /\ core.defects = {} /\ core.notBefore = None /\ core.expires = None
        /\ core.replay = FALSE
    <3>1. /\ Header \subseteq DOMAIN p.core
          /\ p.core.defects = {} /\ p.core.notBefore = None /\ p.core.expires = None
          /\ p.core.replay = FALSE /\ p.core.attached = None
      BY <2>3 DEF Ordinary
    <3> QED BY ONLY <2>3, <3>1, SMTT(30) DEF AnswerCore, Child, Header
  <2> QED BY <2>1, <2>2, <2>4, Zenon
<1>4. PICK q : q = MadeByWorker(core, dispatch.pkt.restricted, status, error)
  OBVIOUS
<1>5. /\ q.core = core /\ q.restricted = dispatch.pkt.restricted
      /\ Intact(q) /\ OneHop(q) /\ Signed(q, setup.worker.key)
  BY <1>4, WorkerMade
<1>6. at \in Int
  BY RailAssumption DEF IInv, Setting
<1>7. AnswersDispatch(q, dispatch.pkt, Node, setup.authority.gate)
  BY <1>2, <1>3, <1>5 DEF AnswersDispatch
<1>8. q.core.created \in Int /\ q.core.created <= now + setup.drift
  BY <1>3, <1>5, <1>6
<1>9. Replied(q)
  BY <1>2, <1>3, <1>5, <1>7, <1>8 DEF Replied
<1> QED BY <1>1, <1>4, <1>9

LEMMA FailureReplies ==
  ASSUME IInv, DispatchMade, Sent(dispatch), SignatureIsOne, NEW error, NEW blank
  PROVE  LET a == Worker!FailureAnswer(Work, dispatch.pkt, error, blank) IN
         a.kind \in {"http", "packet"} /\ (a.kind = "packet" => Replied(a.pkt))
<1> DEFINE core == Worker!AnswerCore(dispatch.pkt, <<Work, 2>>, now + setup.drift, "failure", Node,
                                     Worker!Payload("failed", error))
           m == MadeByWorker(core, dispatch.pkt.restricted, "failed", error)
<1>1. Worker!FailureAnswer(Work, dispatch.pkt, error, blank) \in
        {Worker!Http(Worker!StatusOf(error)), Worker!Http(500), Worker!Packet(m)}
  BY Zenon DEF Worker!FailureAnswer, MadeByWorker
<1>2. Replied(m)
  BY MadeReplies
<1> HIDE DEF m
<1>3. /\ \A c : Worker!Http(c).kind = "http"
      /\ Worker!Packet(m).kind = "packet" /\ Worker!Packet(m).pkt = m
  BY DEF Worker!Http, Worker!Packet
<1>4. PICK a : a = Worker!FailureAnswer(Work, dispatch.pkt, error, blank)
  OBVIOUS
<1> QED BY <1>1, <1>2, <1>3, <1>4

\* What Respond makes of a packet q: a failure, or q with the node's hop.
LEMMA RespondCases ==
  ASSUME NEW p, NEW q
  PROVE  \/ \E error, blank : Worker!Respond(Work, p, q) = Worker!FailureAnswer(Work, p, error, blank)
         \/ Worker!Respond(Work, p, q) =
              Worker!Packet(Worker!Sign(Worker!WithHop(q,
                Worker!MakeHop(q, Node, "response", q.core.payload.status, None,
                               now + setup.drift))))
<1> DEFINE hop == Worker!MakeHop(q, Node, "response", q.core.payload.status, None, now + setup.drift)
<1>1. CASE ~Worker!HopOK(hop)
  <2>1. Worker!Respond(Work, p, q) = Worker!FailureAnswer(Work, p, "ValidationError", FALSE)
    BY <1>1, Zenon DEF Worker!Respond
  <2> QED BY <2>1, Zenon
<1>2. CASE Worker!HopOK(hop) /\ Worker!SignError(setup.worker) # None
  <2>1. Worker!Respond(Work, p, q) =
          Worker!FailureAnswer(Work, p, Worker!SignError(setup.worker), FALSE)
    BY <1>2, Zenon DEF Worker!Respond
  <2> QED BY <2>1, Zenon
<1>3. CASE Worker!HopOK(hop) /\ Worker!SignError(setup.worker) = None
  BY <1>3, Zenon DEF Worker!Respond
<1> QED BY <1>1, <1>2, <1>3

\* What the worker answers when its handler returns a dict.
LEMMA ResultReplies ==
  ASSUME IInv, DispatchMade, Sent(dispatch), SignatureIsOne, NEW payload
  PROVE  LET core == Worker!AnswerCore(dispatch.pkt, <<Work, 1>>, now + setup.drift, "response",
                                       Node, payload)
             a == Worker!Respond(Work, dispatch.pkt,
                                 Worker!Unsigned(core, dispatch.pkt.restricted))
         IN  a.kind \in {"http", "packet"} /\ (a.kind = "packet" => Replied(a.pkt))
<1>1. PICK core : core = Worker!AnswerCore(dispatch.pkt, <<Work, 1>>, now + setup.drift, "response",
                                           Node, payload)
  OBVIOUS
<1>2. PICK q : q = Worker!Unsigned(core, dispatch.pkt.restricted)
  OBVIOUS
<1>3. PICK m : m = MadeByWorker(core, dispatch.pkt.restricted, q.core.payload.status, None)
  OBVIOUS
<1>4. Replied(m)
  BY <1>1, <1>3, MadeReplies
<1>5. PICK a : a = Worker!Respond(Work, dispatch.pkt, q)
  OBVIOUS
<1>6. \/ \E error, blank : a = Worker!FailureAnswer(Work, dispatch.pkt, error, blank)
      \/ a = Worker!Packet(m)
  BY <1>2, <1>3, <1>5, RespondCases, Zenon DEF MadeByWorker
<1>7. Worker!Packet(m).kind = "packet" /\ Worker!Packet(m).pkt = m
  BY DEF Worker!Packet
<1> QED BY <1>1, <1>2, <1>4, <1>5, <1>6, <1>7, FailureReplies

\* What the worker answers when its handler returns a packet q.
LEMMA ForwardReplies ==
  ASSUME IInv, DispatchMade, Sent(dispatch), SignatureIsOne, NEW q, Shaped(q), Intact(q),
         q.core.cause # DispatchId
  PROVE  LET a == Worker!Respond(Work, dispatch.pkt, q) IN
         /\ a.kind \in {"http", "packet"}
         /\ a.kind = "packet" =>
              a.pkt.core.type \in {"response", "failure"} \/ a.pkt.core.cause # DispatchId
<1>1. PICK a : a = Worker!Respond(Work, dispatch.pkt, q)
  OBVIOUS
<1>2. PICK hop : hop = Worker!MakeHop(q, Node, "response", q.core.payload.status, None,
                                      now + setup.drift)
  OBVIOUS
<1>3. PICK m : m = Worker!Sign(Worker!WithHop(q, hop))
  OBVIOUS
<1>4. \/ \E error, blank : a = Worker!FailureAnswer(Work, dispatch.pkt, error, blank)
      \/ a = Worker!Packet(m)
  BY <1>1, <1>2, <1>3, RespondCases, Zenon
<1>5. m.core = q.core
  BY <1>3, WorkerSigns
<1>6. Worker!Packet(m).kind = "packet" /\ Worker!Packet(m).pkt = m
  BY DEF Worker!Packet
<1> QED BY <1>1, <1>4, <1>5, <1>6, FailureReplies DEF Replied

\* Whatever the worker answers with, it is an error or a packet.
LEMMA AnswerKinds ==
  ASSUME NEW p
  PROVE  /\ \A error, blank : Worker!FailureAnswer(Work, p, error, blank).kind \in {"http", "packet"}
         /\ \A q : Worker!Respond(Work, p, q).kind \in {"http", "packet"}
<1>1. \A c, q : Worker!Http(c).kind = "http" /\ Worker!Packet(q).kind = "packet"
  BY DEF Worker!Http, Worker!Packet
<1>2. ASSUME NEW error, NEW blank
      PROVE  Worker!FailureAnswer(Work, p, error, blank).kind \in {"http", "packet"}
  <2>1. PICK a : a = Worker!FailureAnswer(Work, p, error, blank)
    OBVIOUS
  <2>2. (\E c : a = Worker!Http(c)) \/ (\E q : a = Worker!Packet(q))
    BY <2>1, Zenon DEF Worker!FailureAnswer
  <2> QED BY <1>1, <2>1, <2>2
<1>3. ASSUME NEW q PROVE Worker!Respond(Work, p, q).kind \in {"http", "packet"}
  <2>1. PICK a : a = Worker!Respond(Work, p, q)
    OBVIOUS
  <2>2. \/ \E error, blank : a = Worker!FailureAnswer(Work, p, error, blank)
        \/ \E m : a = Worker!Packet(m)
    BY <2>1, RespondCases, Zenon
  <2> QED BY <1>1, <1>2, <2>1, <2>2
<1> QED BY <1>2, <1>3
-----------------------------------------------------------------------------
(* The way back, step by step.                                              *)

\* A dispatch that was posted stays as it was.
LEMMA SentStays ==
  ASSUME IInv, [Next]_vars, Sent(dispatch)
  PROVE  Sent(dispatch)' /\ dispatch'.pkt = dispatch.pkt /\ dispatch'.deadline = dispatch.deadline
<1>1. ~DispatchPosts
  BY DEF DispatchPosts, AtDispatch, IInv, Order, Sent
<1> QED BY <1>1, DispatchKept

LEMMA RepliedStays ==
  ASSUME IInv, [Next]_vars, Sent(dispatch), NEW q, Replied(q)
  PROVE  Replied(q)'
<1>1. /\ setup' = setup /\ now' \in {now, now + 1} /\ now \in Int /\ setup.drift \in Int
      /\ dispatch'.pkt = dispatch.pkt
  BY Frame, SentStays, RailAssumption DEF IInv, Setting
<1>2. q.core.created <= now' + setup'.drift
  BY <1>1 DEF Replied
<1> QED BY <1>1, <1>2 DEF Replied, AnswersDispatch, OneHop, Intact, TransportHash, Signed, HopHash

\* What an answered request says, in terms of what it was answered with.
Answers(outcome, a) ==
  /\ a.kind \in {"http", "packet"}
  /\ a.kind = "packet" /\ "damaged" \notin faults =>
       /\ outcome # "forwarded" => Replied(a.pkt)
       /\ a.pkt.core.type \in {"response", "failure"} \/ a.pkt.core.cause # DispatchId

WorkerSaid == req[Work].pc = "done" => Answers(req[Work].outcome, Ans)

LEMMA AnswersStays ==
  ASSUME IInv, [Next]_vars, Sent(dispatch), NEW outcome, NEW a, Answers(outcome, a)
  PROVE  Answers(outcome, a)'
<1>1. faults \subseteq faults'
  BY Frame
<1>2. a.kind = "packet" /\ Replied(a.pkt) => Replied(a.pkt)'
  BY RepliedStays
<1> QED BY <1>1, <1>2 DEF Answers

\* The answer a step of the worker makes, but for a cancellation, which makes none.
LEMMA WorkerEndsSaid ==
  ASSUME IInv, DispatchMade, Undamaged, SignatureIsOne, WorkerEnds \/ WorkerTimesOut,
         req[Work].pc = "running"
  PROVE  \/ WorkerActs(Worker!Cancel(Work), FALSE)
         \/ \E outcome, a : Worker!Answer(Work, outcome, a) /\ Answers(outcome, a)
<1>1. PICK p : p = req[Work].pkt
  OBVIOUS
<1>2. Sent(dispatch) /\ Shaped(p) /\ Intact(p) /\ p.core.cause = CallId
  BY <1>1 DEF IInv, Order, WorkerLeg, DispatchMade
<1>3. "damaged" \notin faults => p = dispatch.pkt
  BY <1>1 DEF Undamaged
<1>4. ASSUME NEW outcome, NEW a, a.kind \in {"http", "packet"},
             "damaged" \notin faults /\ a.kind = "packet" => Replied(a.pkt)
      PROVE  Answers(outcome, a)
  BY <1>4 DEF Answers, Replied
<1>5. ASSUME NEW outcome, NEW error, NEW blank
      PROVE  Answers(outcome, Worker!FailureAnswer(Work, p, error, blank))
  <2>1. PICK a : a = Worker!FailureAnswer(Work, p, error, blank)
    OBVIOUS
  <2>2. a.kind \in {"http", "packet"}
    BY <2>1, AnswerKinds
  <2>3. "damaged" \notin faults /\ a.kind = "packet" => Replied(a.pkt)
    BY <1>2, <1>3, <2>1, FailureReplies
  <2> QED BY <1>4, <2>1, <2>2, <2>3
<1>6. ASSUME NEW payload, WorkerActs(Worker!ReturnDict(Work, payload), FALSE)
      PROVE  \E outcome, a : Worker!Answer(Work, outcome, a) /\ Answers(outcome, a)
  <2>1. PICK core : core = Worker!AnswerCore(p, <<Work, 1>>, now + setup.drift, "response", Node,
                                             payload)
    OBVIOUS
  <2>2. PICK a : a = Worker!Respond(Work, p, Worker!Unsigned(core, p.restricted))
    OBVIOUS
  <2>3. \/ Worker!Answer(Work, "returned", a)
        \/ Worker!Answer(Work, "returned", Worker!FailureAnswer(Work, p, "ValidationError", FALSE))
    BY <1>1, <1>6, <2>1, <2>2, Zenon DEF WorkerActs, Worker!ReturnDict
  <2>4. a.kind \in {"http", "packet"}
    BY <2>2, AnswerKinds
  <2>5. "damaged" \notin faults /\ a.kind = "packet" => Replied(a.pkt)
    BY <1>2, <1>3, <2>1, <2>2, ResultReplies
  <2>6. Answers("returned", a)
    BY <1>4, <2>4, <2>5
  <2> QED BY <1>5, <2>3, <2>6, Zenon
<1>7. ASSUME NEW q, Shaped(q), Intact(q), q.core.cause # DispatchId
      PROVE  Answers("forwarded", Worker!Respond(Work, p, q))
  <2>1. PICK a : a = Worker!Respond(Work, p, q)
    OBVIOUS
  <2>2. a.kind \in {"http", "packet"}
    BY <2>1, AnswerKinds
  <2>3. "damaged" \notin faults /\ a.kind = "packet" =>
          a.pkt.core.type \in {"response", "failure"} \/ a.pkt.core.cause # DispatchId
    BY <1>2, <1>3, <1>7, <2>1, ForwardReplies
  <2> QED BY <2>1, <2>2, <2>3 DEF Answers
<1>8. ASSUME NEW q \in Elsewhere, WorkerActs(Worker!ReturnPacket(Work, q), FALSE)
      PROVE  \E outcome, a : Worker!Answer(Work, outcome, a) /\ Answers(outcome, a)
  <2>1. Shaped(q) /\ Intact(q) /\ q.core.cause # DispatchId
    BY RailAssumption DEF Shaped, DispatchId
  <2>2. Worker!Answer(Work, "forwarded", Worker!Respond(Work, p, q))
    BY <1>1, <1>8, Zenon DEF WorkerActs, Worker!ReturnPacket
  <2> QED BY <1>7, <2>1, <2>2
<1>9. ASSUME WorkerActs(Worker!ReturnRequest(Work), FALSE)
      PROVE  \E outcome, a : Worker!Answer(Work, outcome, a) /\ Answers(outcome, a)
  <2>1. PICK q : q = Worker!Processing(p, req[Work].since)
    OBVIOUS
  <2>2. Shaped(q) /\ q.core = p.core /\ q.hash = p.hash
    BY <1>2, <2>1 DEF Worker!Processing, Worker!WithHop, Shaped
  <2>3. Intact(q) /\ q.core.cause # DispatchId
    BY <1>2, <2>2 DEF Intact, TransportHash, CallId, DispatchId
  <2>4. Worker!Answer(Work, "forwarded", Worker!Respond(Work, p, q))
    BY <1>1, <1>9, <2>1, Zenon DEF WorkerActs, Worker!ReturnRequest
  <2> QED BY <1>7, <2>2, <2>3, <2>4
<1>10. ASSUME \/ \E error, blank : WorkerActs(Worker!RaiseError(Work, error, blank), FALSE)
              \/ WorkerActs(Worker!EndCancelled(Work), FALSE)
              \/ WorkerActs(Worker!TimeOut(Work), FALSE)
       PROVE  \E outcome, a : Worker!Answer(Work, outcome, a) /\ Answers(outcome, a)
  <2>1. \E outcome, error, blank :
          Worker!Answer(Work, outcome, Worker!FailureAnswer(Work, p, error, blank))
    <3>1. CASE \E error, blank : WorkerActs(Worker!RaiseError(Work, error, blank), FALSE)
      BY <1>1, <3>1, Zenon DEF WorkerActs, Worker!RaiseError
    <3>2. CASE \/ WorkerActs(Worker!EndCancelled(Work), FALSE)
               \/ WorkerActs(Worker!TimeOut(Work), FALSE)
      BY <1>1, <3>2, Zenon DEF WorkerActs, Worker!EndCancelled, Worker!TimeOut,
         Worker!TimeoutAnswer
    <3> QED BY <1>10, <3>1, <3>2
  <2> QED BY <1>5, <2>1, Zenon
<1> QED BY <1>6, <1>8, <1>9, <1>10, EndingCases

LEMMA WorkerSaidStep ==
  ASSUME IInv, DispatchMade, Undamaged, WorkerSaid, SignatureIsOne, [Next]_vars
  PROVE  WorkerSaid'
<1>1. CASE req' = req
  <2>1. CASE req[Work].pc = "done"
    <3>1. PICK outcome, a : outcome = req[Work].outcome /\ a = Ans
      OBVIOUS
    <3>2. Answers(outcome, a)' /\ req'[Work].outcome = outcome /\ Ans' = a
      BY <1>1, <2>1, <3>1, AnswersStays DEF WorkerSaid, IInv, Order, Ans
    <3> QED BY <3>2 DEF WorkerSaid
  <2>2. CASE req[Work].pc # "done"
    BY <1>1, <2>2 DEF WorkerSaid
  <2> QED BY <2>1, <2>2
<1>2. CASE WorkerTakes
  <2>1. wire.toWorker # None /\ Sent(dispatch)
    BY <1>2 DEF WorkerTakes, IInv, Order
  <2>2. ASSUME NEW a, Worker!Turned(Work, wire.toWorker, "execute", a),
               Answers("refused", a)
        PROVE  WorkerSaid'
    <3>1. req'[Work].outcome = "refused" /\ Ans' = a
      BY <2>2 DEF Worker!Turned, Worker!Idle, IInv, Setting, Ans
    <3>2. Answers("refused", a)'
      BY <2>1, <2>2, AnswersStays
    <3> QED BY <3>1, <3>2 DEF WorkerSaid
  <2>3. CASE WorkerActs(Worker!RejectBody(Work, wire.toWorker, "execute"), TRUE)
    <3>1. Worker!Turned(Work, wire.toWorker, "execute", Worker!Http(400))
      BY <2>3 DEF WorkerActs, Worker!RejectBody
    <3>2. Answers("refused", Worker!Http(400))
      BY DEF Answers, Worker!Http
    <3> QED BY <2>2, <3>1, <3>2
  <2>4. CASE WorkerActs(Worker!Refuse(Work, wire.toWorker, "execute"), TRUE)
    <3>1. PICK p, error, blank, a :
            /\ p = wire.toWorker /\ a = Worker!FailureAnswer(Work, p, error, blank)
            /\ Worker!Turned(Work, p, "execute", a)
      BY <2>4, Zenon DEF WorkerActs, Worker!Refuse
    <3>2. a.kind \in {"http", "packet"}
      BY <3>1, AnswerKinds
    <3>3. "damaged" \notin faults => p = dispatch.pkt
      BY <2>1, <3>1 DEF Undamaged
    <3>4. "damaged" \notin faults /\ a.kind = "packet" => Replied(a.pkt)
      BY <2>1, <3>1, <3>3, FailureReplies
    <3>5. Answers("refused", a)
      BY <3>2, <3>4 DEF Answers, Replied
    <3> QED BY <2>2, <3>1, <3>5
  <2>5. CASE WorkerActs(Worker!Start(Work, wire.toWorker, "execute"), TRUE)
    <3>1. req'[Work].pc = "running"
      BY <2>5 DEF WorkerActs, Worker!Start, Worker!Idle, IInv, Setting
    <3> QED BY <3>1 DEF WorkerSaid
  <2> QED BY <1>2, <2>3, <2>4, <2>5 DEF WorkerTakes
<1>3. CASE req' # req /\ ~WorkerTakes
  <2>1. (WorkerEnds \/ WorkerTimesOut) /\ req[Work].pc = "running" /\ Sent(dispatch)
    BY <1>3, WorkKept DEF IInv, Order
  <2>2. CASE WorkerActs(Worker!Cancel(Work), FALSE)
    <3>1. req' = [req EXCEPT ![Work].cancelled = now + setup.drift]
      BY <2>2 DEF WorkerActs, Worker!Cancel
    <3>2. req'[Work].pc = "running"
      BY <2>1, <3>1 DEF IInv, Setting, Worker!Idle
    <3> QED BY <3>2 DEF WorkerSaid
  <2>3. CASE ~WorkerActs(Worker!Cancel(Work), FALSE)
    <3>1. PICK outcome, a : Worker!Answer(Work, outcome, a) /\ Answers(outcome, a)
      BY <2>1, <2>3, WorkerEndsSaid
    <3>2. req'[Work].outcome = outcome /\ Ans' = a
      BY <3>1 DEF Worker!Answer, Worker!Idle, IInv, Setting, Ans
    <3> QED BY <2>1, <3>1, <3>2, AnswersStays DEF WorkerSaid
  <2> QED BY <2>2, <2>3, Zenon
<1> QED BY <1>1, <1>2, <1>3

\* What the worker's answer is on its way back, unless the network damages things.
Untouched ==
  "damaged" \notin faults =>
    \/ wire.toTransport = NoReply
    \/ req[Work].pc = "done" /\ wire.toTransport = AsReply(Ans)

LEMMA UntouchedStep ==
  ASSUME IInv, Untouched, [Next]_vars
  PROVE  Untouched'
<1>1. faults \subseteq faults' /\ (Damage => "damaged" \in faults')
  BY Frame
<1>2. DOMAIN wire = DOMAIN NoWire
  BY DEF IInv, Setting
<1>3. CASE Damage
  BY <1>1, <1>3 DEF Untouched
<1>4. CASE WorkerTakes \/ WorkerEnds \/ WorkerTimesOut
  <2>1. req[Work].pc = "done" => req' = req
    BY WorkKept
  <2>2. PICK w : w = IF Worker!Answered(Work)' /\ dispatch.pc = "waiting"
                       THEN AsReply(req'[Work].answer) ELSE wire.toTransport
    OBVIOUS
  <2>3. wire'.toTransport = w
    BY <1>2, <1>4, <2>2 DEF WorkerTakes, WorkerEnds, WorkerTimesOut, WorkerActs, NoWire
  <2>4. w = wire.toTransport \/ (req'[Work].pc = "done" /\ w = AsReply(req'[Work].answer))
    BY <2>2 DEF Worker!Answered
  <2> QED BY <1>1, <2>1, <2>3, <2>4 DEF Untouched, Ans, AsReply, AsPacket, AsStatus
<1>5. CASE ~Damage /\ ~(WorkerTakes \/ WorkerEnds \/ WorkerTimesOut)
  <2>1. req' = req
    BY <1>5, WorkKept
  <2>2. wire'.toTransport \in {wire.toTransport, NoReply}
    <3>2. CASE CallFails \/ CallPosts \/ CallTimesOut \/ CallDisconnects \/ CallReceives
      BY <1>2, <3>2 DEF CallFails, CallPosts, CallTimesOut, CallDisconnects, CallReceives, NoWire
    <3>3. CASE GateTakes \/ GateRefuses \/ GateAdmits \/ GateAnswers
      <4>1. \A r : GateReplies(r) => wire'.toTransport = wire.toTransport
        BY <1>2 DEF GateReplies, NoWire
      <4> QED BY <1>2, <3>3, <4>1 DEF GateTakes, GateRefuses, GateAdmits, GateAnswers, NoWire
    <3>4. CASE \/ DispatchFails \/ DispatchOnClosed \/ DispatchPosts
               \/ DispatchTimesOut \/ DispatchDisconnects \/ DispatchReceives
      BY <1>2, <3>4 DEF DispatchFails, DispatchOnClosed, DispatchPosts, DispatchTimesOut,
         DispatchDisconnects, DispatchReceives, NoWire
    <3>5. CASE EnterPool \/ ClosePool \/ PoolClosed \/ Tick \/ UNCHANGED vars
      BY <3>5 DEF EnterPool, ClosePool, PoolClosed, Tick, vars
    <3> QED BY <1>5, <3>2, <3>3, <3>4, <3>5 DEF Next
  <2> QED BY <1>1, <2>1, <2>2 DEF Untouched, Ans, AsReply, AsPacket, AsStatus
<1> QED BY <1>3, <1>4, <1>5

\* What the checks of a rail make of a packet that was signed with key.
LEMMA TrustedSignature ==
  ASSUME NEW c, NEW key, Trusts(c, key), NEW q, Signed(q, key)
  PROVE  LET v == ClientCheck(c, c.verifyResp) IN
         ~(IF q.sig = None THEN (v.requireSig \/ q.restricted) /\ ~v.dev
             ELSE ~(v.dev /\ v.keys = {}) /\ ~SignatureVerifies(q, v.keys))
<1> DEFINE v == ClientCheck(c, c.verifyResp)
<1>1. (v.dev <=> ~c.verifyResp) /\ v.keys = Keyring(c)
  BY DEF ClientCheck
<1> HIDE DEF v
<1>2. CASE key = None
  <2>1. q.sig = None /\ v.dev
    BY <1>1, <1>2 DEF Trusts, Signed
  <2> QED BY <2>1 DEF v
<1>3. CASE key # None
  <2>1. q.sig # None /\ q.sig.key = key /\ q.sig.over = q.hash
    BY <1>3 DEF Signed
  <2>2. key \in v.keys \/ (v.dev /\ v.keys = {})
    BY <1>1, <1>3 DEF Trusts
  <2>3. SignatureVerifies(q, v.keys) \/ (v.dev /\ v.keys = {})
    BY <2>1, <2>2 DEF SignatureVerifies
  <2> QED BY <2>1, <2>3 DEF v
<1> QED BY <1>2, <1>3

\* The transport takes an answer the SDK made for its dispatch.
LEMMA ReplyTaken ==
  ASSUME IInv, DispatchMade, Sent(dispatch), NEW q, Replied(q),
         Trusts(setup.authority, setup.worker.key), setup.drift <= Skew,
         ~(Size(q) > MaxBytes), q.core.until # None => now <= q.core.until
  PROVE  WorkerReplyError(setup.authority, dispatch.pkt, Node, AsPacket(q), now) = None
<1>1. PICK v : v = ClientCheck(setup.authority, setup.authority.verifyResp)
  OBVIOUS
<1>2. /\ v.types = None /\ v.actions = None /\ v.node = None /\ v.skew = Skew
      /\ v.maxHops = MaxHops /\ v.idem = {} /\ v.maxBytes = MaxBytes /\ v.maxLinks = MaxLinks
  BY <1>1 DEF ClientCheck
<1>3. /\ ~(q.core.created > now + v.skew) /\ ~(Len(q.hops) > v.maxHops)
      /\ ~(Size(q) > v.maxBytes) /\ ~(q.core.links > v.maxLinks)
      /\ DelegationOK(q.core, now)
  BY <1>2, RailAssumption, DefaultsAssumption
     DEF Replied, OneHop, IInv, Setting, DelegationOK
<1>4. ~(IF q.sig = None THEN (v.requireSig \/ q.restricted) /\ ~v.dev
          ELSE ~(v.dev /\ v.keys = {}) /\ ~SignatureVerifies(q, v.keys))
  BY <1>1, TrustedSignature DEF Replied
<1>5. ValidHopTrace(q)
  BY OneHopIsValid DEF Replied
<1>6. Valid(q, v, now)
  BY <1>2, <1>3, <1>4, <1>5, ChecksPass DEF Replied
<1>7. HeaderOK(q.core) /\ Intact(q) /\ AnswersDispatch(q, dispatch.pkt, Node, setup.authority.gate)
  BY DEF Replied, HeaderOK
<1>8. AsPacket(q).kind = "packet" /\ AsPacket(q).pkt = q
  BY DEF AsPacket
<1> QED BY <1>1, <1>6, <1>7, <1>8 DEF WorkerReplyError

\* Why a dispatch that was posted failed.
DispatchCause ==
  faults = {} /\ dispatch.pc = "failed" =>
    \/ now >= dispatch.deadline
    \/ /\ req[Work].pc = "done"
       /\ \/ req[Work].outcome = "forwarded" \/ Ans.kind = "http"
          \/ Size(Ans.pkt) > MaxBytes
    \/ dispatch.pkt.core.until # None /\ now > dispatch.pkt.core.until
    \/ ~Trusts(setup.authority, setup.worker.key) \/ setup.drift > Skew

LEMMA DispatchCauseStep ==
  ASSUME IInv, IInv', DispatchMade, WorkerSaid, Untouched, DispatchCause, [Next]_vars
  PROVE  DispatchCause'
<1>1. /\ setup' = setup /\ now' \in {now, now + 1} /\ now \in Int
      /\ faults \subseteq faults' /\ setup.drift \in Int
  BY Frame, RailAssumption DEF IInv, Setting
<1>2. Trusts(setup.authority, setup.worker.key)' = Trusts(setup.authority, setup.worker.key)
  BY <1>1 DEF Trusts, Keyring
<1>3. CASE dispatch.pc = "failed"
  <2>1. Sent(dispatch) /\ dispatch'.deadline = dispatch.deadline /\ dispatch'.pkt = dispatch.pkt
    BY <1>3, SentStays DEF Sent
  <2>2. dispatch.deadline \in Int /\ dispatch.pkt.core.until \in Int \cup {None}
    BY <2>1 DEF DispatchMade
  <2>3. req[Work].pc = "done" => req' = req
    BY WorkKept
  <2> QED BY <1>1, <1>2, <1>3, <2>1, <2>2, <2>3 DEF DispatchCause, Ans
<1>4. CASE dispatch.pc # "failed" /\ dispatch'.pc = "failed"
  <2>1. ~DispatchPosts
    BY <1>4 DEF DispatchPosts, IInv, Setting, NoCall
  <2>2. dispatch' # dispatch
    BY <1>4
  <2>3. ~(DispatchFails \/ DispatchOnClosed)
    BY <1>4 DEF DispatchFails, DispatchOnClosed, Refused, IInv, Setting, NoCall
  <2>4. CASE DispatchTimesOut
    BY <1>1, <2>4 DEF DispatchTimesOut, Raised, DispatchCause, IInv, Setting, NoCall
  <2>5. CASE DispatchDisconnects
    BY <2>5 DEF DispatchDisconnects, DispatchCause
  <2>6. CASE DispatchReceives
    <3>1. SUFFICES ASSUME faults' = {}
                   PROVE  DispatchCause'
      BY DEF DispatchCause
    <3>2. /\ wire.toTransport # NoReply /\ dispatch.pc = "waiting" /\ now' = now /\ req' = req
          /\ dispatch' = Judged(dispatch, wire.toTransport,
               WorkerReplyError(setup.authority, dispatch.pkt, Node, wire.toTransport, now))
      BY <2>6 DEF DispatchReceives, worker
    <3>3. req[Work].pc = "done" /\ wire.toTransport = AsReply(Ans) /\ faults = {}
      BY <1>1, <3>1, <3>2 DEF Untouched
    <3>4. WorkerReplyError(setup.authority, dispatch.pkt, Node, wire.toTransport, now) # None
      BY <1>4, <3>2 DEF Judged, IInv, Setting, NoCall
    <3>5. ASSUME Ans.kind # "http", req[Work].outcome # "forwarded", ~(Size(Ans.pkt) > MaxBytes),
                 ~(dispatch.pkt.core.until # None /\ now > dispatch.pkt.core.until),
                 Trusts(setup.authority, setup.worker.key), ~(setup.drift > Skew)
          PROVE  FALSE
      <4>1. PICK q : q = Ans.pkt
        OBVIOUS
      <4>2. Ans.kind = "packet" /\ Replied(q)
        BY <3>3, <3>5, <4>1 DEF WorkerSaid, Answers
      <4>3. wire.toTransport = AsPacket(q)
        BY <3>3, <4>1, <4>2 DEF AsReply
      <4>4. Sent(dispatch)
        BY <3>2 DEF Sent
      <4>5. q.core.until = dispatch.pkt.core.until /\ q.core.until \in Int \cup {None}
        BY <4>2, <4>4 DEF Replied, DispatchMade
      <4>6. setup.drift <= Skew /\ ~(Size(q) > MaxBytes)
            /\ (q.core.until # None => now <= q.core.until)
        BY <1>1, <3>5, <4>1, <4>5, DefaultsAssumption
      <4> QED BY <3>4, <3>5, <4>2, <4>3, <4>4, <4>6, ReplyTaken
    <3>6. dispatch'.pkt = dispatch.pkt
      BY <2>6, <3>2, SentStays DEF Sent
    <3> QED BY <1>1, <1>2, <3>2, <3>3, <3>5, <3>6 DEF DispatchCause, Ans
  <2> QED BY <2>1, <2>2, <2>3, <2>4, <2>5, <2>6, DispatchKept
<1>5. CASE dispatch.pc # "failed" /\ dispatch'.pc # "failed"
  BY <1>5 DEF DispatchCause
<1> QED BY <1>3, <1>4, <1>5

-----------------------------------------------------------------------------
(* From Gate back to the application.                                       *)

\* q is a packet Gate answers a call with.
Given(q) ==
  /\ q.core.defects = {} /\ q.core.notBefore = None /\ q.core.expires = None
  /\ q.core.replay = FALSE /\ q.core.type \in {"response", "failure"}
  /\ q.core.created \in Int /\ q.core.created <= now
  /\ q.core.attached = None /\ q.core.links = 0 /\ q.core.until = None
  /\ ~(q.restricted /\ ~q.core.audited)
  /\ q.hops = <<>> /\ Intact(q) /\ Signed(q, setup.authority.key)

LEMMA GateGives ==
  ASSUME IInv, CallMade, Undamaged, "damaged" \notin faults, ~Probe, gate.pc # "idle",
         SignatureIsOne, NEW type \in {"response", "failure"}, NEW payload
  PROVE  Given(GateAnswer(type, payload))
<1>1. PICK p : p = gate.pkt
  OBVIOUS
<1>2. /\ Ordinary(p.core) /\ p.core.links = 0 /\ p.core.until = None
      /\ ~(p.restricted /\ ~p.core.audited)
  BY <1>1 DEF CallMade, Undamaged, IInv, Order
<1>3. PICK core : core = AnswerCore(p, <<"answer", 0>>, now, type, Gate, payload)
  OBVIOUS
<1>4. /\ Header \subseteq DOMAIN p.core
      /\ p.core.defects = {} /\ p.core.notBefore = None /\ p.core.expires = None
      /\ p.core.replay = FALSE /\ p.core.attached = None
  BY <1>2 DEF Ordinary
<1>5. /\ core.created = now /\ core.type = type
      /\ core.defects = {} /\ core.notBefore = None /\ core.expires = None /\ core.replay = FALSE
      /\ core.attached = None /\ core.links = p.core.links /\ core.until = p.core.until
      /\ core.audited = p.core.audited
  BY ONLY <1>3, <1>4, SMTT(30) DEF AnswerCore, Child, Header
<1>6. Unsigned(core, p.restricted) =
        [core |-> core, restricted |-> p.restricted, hash |-> core, sig |-> None, hops |-> <<>>]
  BY DEF Unsigned, TransportHash
<1>7. PICK q : q = MaybeSign(setup.authority, Unsigned(core, p.restricted))
  OBVIOUS
<1>8. /\ q.core = core /\ q.restricted = p.restricted /\ q.hash = core /\ q.hops = <<>>
      /\ Signed(q, setup.authority.key)
  BY <1>6, <1>7, SignedParts
<1>9. GateAnswer(type, payload) = q
  BY <1>1, <1>3, <1>7 DEF GateAnswer
<1>10. now \in Int
  BY DEF IInv, Setting
<1> QED BY <1>2, <1>5, <1>8, <1>9, <1>10 DEF Given, Intact, TransportHash

\* The client takes what Gate answers with, if it trusts Gate.
LEMMA GivenTaken ==
  ASSUME IInv, NEW q, Given(q), Trusts(setup.client, setup.authority.key),
         ~(Size(q) > MaxBytes)
  PROVE  ReplyError(setup.client, AsPacket(q), now) = None
<1>1. PICK v : v = ClientCheck(setup.client, setup.client.verifyResp)
  OBVIOUS
<1>2. /\ v.types = None /\ v.actions = None /\ v.node = None /\ v.skew = Skew
      /\ v.maxHops = MaxHops /\ v.idem = {} /\ v.maxBytes = MaxBytes /\ v.maxLinks = MaxLinks
  BY <1>1 DEF ClientCheck
<1>3. /\ ~(q.core.created > now + v.skew) /\ ~(Len(q.hops) > v.maxHops)
      /\ ~(Size(q) > v.maxBytes) /\ ~(q.core.links > v.maxLinks)
      /\ DelegationOK(q.core, now)
  BY <1>2, DefaultsAssumption DEF Given, IInv, Setting, DelegationOK
<1>4. ~(IF q.sig = None THEN (v.requireSig \/ q.restricted) /\ ~v.dev
          ELSE ~(v.dev /\ v.keys = {}) /\ ~SignatureVerifies(q, v.keys))
  BY <1>1, TrustedSignature DEF Given
<1>5. ValidHopTrace(q)
  BY DEF Given, ValidHopTrace, BadHops
<1>6. Valid(q, v, now)
  BY <1>2, <1>3, <1>4, <1>5, ChecksPass DEF Given
<1>7. HeaderOK(q.core) /\ Intact(q)
  BY DEF Given, HeaderOK
<1>8. AsPacket(q).kind = "packet" /\ AsPacket(q).pkt = q
  BY DEF AsPacket
<1> QED BY <1>1, <1>6, <1>7, <1>8 DEF ReplyError

\* Gate's reply to a call, as it is on the wire.
Reply(r) == r.kind = "status" \/ (r.kind = "packet" /\ r = AsPacket(r.pkt) /\ Given(r.pkt))

\* What is on its way to the application, unless the network damages things.
GateSaid ==
  "damaged" \notin faults /\ ~Probe =>
    \/ wire.toClient = NoReply
    \/ gate.pc = "done" /\ Reply(wire.toClient) /\ wire.toClient = gate.reply

LEMMA GateRepliesSaid ==
  ASSUME IInv, GateSaid, UNCHANGED <<now, setup, faults>>, gate.pc # "done",
         NEW r, GateReplies(r), "damaged" \notin faults /\ ~Probe => Reply(r)
  PROVE  GateSaid'
<1>1. gate'.pc = "done" /\ gate'.reply = r /\ wire'.toClient \in {wire.toClient, r}
  BY DEF GateReplies, IInv, Setting, NoWire
<1>2. Probe' = Probe
  BY DEF Probe
<1>3. Reply(r) => Reply(r)'
  BY DEF Reply, Given, Intact, TransportHash, Signed, AsPacket
<1>4. "damaged" \notin faults /\ ~Probe => wire.toClient = NoReply
  BY DEF GateSaid
<1> QED BY <1>1, <1>2, <1>3, <1>4 DEF GateSaid, NoReply

LEMMA GateSaidStep ==
  ASSUME IInv, CallMade, Undamaged, WorkerSaid, GateSaid, SignatureIsOne, [Next]_vars
  PROVE  GateSaid'
<1>1. /\ setup' = setup /\ now' \in {now, now + 1} /\ now \in Int
      /\ faults \subseteq faults' /\ (Damage => "damaged" \in faults')
  BY Frame DEF IInv, Setting
<1>2. DOMAIN wire = DOMAIN NoWire /\ Probe' = Probe
  BY <1>1 DEF IInv, Setting, Probe
<1>3. \A r : /\ AsStatus(r).kind = "status"
  BY DEF AsStatus
<1>4. \A q : Given(q) => Reply(AsPacket(q))
  BY DEF Reply, AsPacket
<1>5. CASE Damage
  BY <1>1, <1>5 DEF GateSaid
<1>6. CASE GateRefuses
  <2>1. PICK code : GateReplies(AsStatus(code)) /\ gate.pc = "asked"
    BY <1>6 DEF GateRefuses
  <2>2. UNCHANGED <<now, setup, faults>>
    BY <1>6 DEF GateRefuses, client
  <2> QED BY <1>3, <2>1, <2>2, GateRepliesSaid DEF Reply
<1>7. CASE GateAdmits
  BY <1>2, <1>7 DEF GateAdmits, GateSaid
<1>8. CASE GateAnswers
  <2>1. UNCHANGED <<now, setup, faults>> /\ gate.pc = "busy"
    BY <1>8 DEF GateAnswers, client
  <2>2. ASSUME NEW code, GateReplies(AsStatus(code))
        PROVE  GateSaid'
    BY <1>3, <2>1, <2>2, GateRepliesSaid DEF Reply
  <2>3. ASSUME NEW payload, GateReplies(AsPacket(GateAnswer("failure", payload)))
        PROVE  GateSaid'
    <3>1. "damaged" \notin faults /\ ~Probe => Given(GateAnswer("failure", payload))
      BY <2>1, GateGives
    <3> QED BY <1>4, <2>1, <2>3, <3>1, GateRepliesSaid
  <2>4. ASSUME NEW payload, dispatch.pc = "returned",
               GateReplies(AsPacket(GateAnswer(dispatch.result.core.type, payload)))
        PROVE  GateSaid'
    <3>1. /\ req[Work].pc = "done" /\ Ans.kind = "packet"
          /\ dispatch.result.core = Ans.pkt.core /\ Ans.pkt.core.cause = DispatchId
      BY <2>4 DEF IInv, WorkerBack
    <3>2. PICK type : type = dispatch.result.core.type
      OBVIOUS
    <3>3. "damaged" \notin faults => type \in {"response", "failure"}
      BY <3>1, <3>2 DEF WorkerSaid, Answers
    <3>4. "damaged" \notin faults /\ ~Probe => Given(GateAnswer(type, payload))
      BY <2>1, <3>3, GateGives
    <3> QED BY <1>4, <2>1, <2>4, <3>2, <3>4, GateRepliesSaid
  <2> QED BY <1>8, <2>2, <2>3, <2>4 DEF GateAnswers
<1>9. CASE ~(Damage \/ GateRefuses \/ GateAdmits \/ GateAnswers)
  <2>1. wire'.toClient \in {wire.toClient, NoReply}
    <3>1. CASE WorkerTakes \/ WorkerEnds \/ WorkerTimesOut
      BY <1>2, <3>1 DEF WorkerTakes, WorkerEnds, WorkerTimesOut, WorkerActs, NoWire
    <3>2. CASE \/ CallFails \/ CallPosts \/ CallTimesOut \/ CallDisconnects \/ CallReceives
               \/ GateTakes
      BY <1>2, <3>2 DEF CallFails, CallPosts, CallTimesOut, CallDisconnects, CallReceives,
         GateTakes, NoWire
    <3>3. CASE \/ DispatchFails \/ DispatchOnClosed \/ DispatchPosts
               \/ DispatchTimesOut \/ DispatchDisconnects \/ DispatchReceives
      BY <1>2, <3>3 DEF DispatchFails, DispatchOnClosed, DispatchPosts, DispatchTimesOut,
         DispatchDisconnects, DispatchReceives, NoWire
    <3>4. CASE EnterPool \/ ClosePool \/ PoolClosed \/ Tick \/ UNCHANGED vars
      BY <3>4 DEF EnterPool, ClosePool, PoolClosed, Tick, vars
    <3> QED BY <1>9, <3>1, <3>2, <3>3, <3>4 DEF Next
  <2>2. PICK r : r = wire.toClient
    OBVIOUS
  <2>3. Reply(r) => Reply(r)'
    BY <1>1 DEF Reply, Given, Intact, TransportHash, Signed, AsPacket
  <2>4. gate.pc = "done" => gate' = gate
    BY GateKept
  <2> QED BY <1>1, <1>2, <2>1, <2>2, <2>3, <2>4 DEF GateSaid, NoReply
<1> QED BY <1>5, <1>6, <1>7, <1>8, <1>9

\* Why a call failed.
CallCause ==
  faults = {} /\ call.pc = "failed" /\ ~Probe =>
    \/ now >= call.deadline
    \/ gate.pc = "done" /\ call.error \in {"GateHTTPError", "GateAuthorizationError"}
    \/ gate.pc = "done" /\ Size(gate.reply.pkt) > MaxBytes
    \/ ~Trusts(setup.client, setup.authority.key)

LEMMA CallCauseStep ==
  ASSUME IInv, CallMade, GateSaid, CallCause, [Next]_vars
  PROVE  CallCause'
<1>1. /\ setup' = setup /\ now' \in {now, now + 1} /\ now \in Int /\ faults \subseteq faults'
  BY Frame DEF IInv, Setting
<1>2. /\ Trusts(setup.client, setup.authority.key)' = Trusts(setup.client, setup.authority.key)
      /\ Probe' = Probe
  BY <1>1 DEF Trusts, Keyring, Probe
<1>3. CASE call.pc = "failed"
  <2>1. call' = call
    BY <1>3, CallKept DEF CallPosts, CallFails, CallTimesOut, CallDisconnects, CallReceives
  <2>2. call.deadline \in Int
    BY <1>3 DEF CallMade, Sent
  <2>3. gate.pc = "done" => gate' = gate
    BY GateKept
  <2> QED BY <1>1, <1>2, <2>1, <2>2, <2>3 DEF CallCause
<1>4. CASE call.pc # "failed" /\ call'.pc = "failed"
  <2>1. ~(CallPosts \/ CallFails) /\ call' # call
    BY <1>4 DEF CallPosts, CallFails, Refused, IInv, Setting, NoCall
  <2>2. CASE CallTimesOut
    BY <1>1, <2>2 DEF CallTimesOut, Raised, CallCause, IInv, Setting, NoCall
  <2>3. CASE CallDisconnects
    BY <2>3 DEF CallDisconnects, CallCause
  <2>4. CASE CallReceives
    <3>1. SUFFICES ASSUME faults' = {}, ~Probe, Trusts(setup.client, setup.authority.key),
                          ~(gate'.pc = "done" /\ Size(gate'.reply.pkt) > MaxBytes)
                   PROVE  CallCause'
      BY <1>2 DEF CallCause
    <3>2. PICK r : r = wire.toClient
      OBVIOUS
    <3>3. PICK e : e = ReplyError(setup.client, r, now)
      OBVIOUS
    <3>4. r # NoReply /\ gate' = gate /\ call' = Judged(call, r, e)
      BY <2>4, <3>1, <3>2, <3>3 DEF CallReceives
    <3>5. gate.pc = "done" /\ Reply(r) /\ r = gate.reply
      BY <1>1, <3>1, <3>2, <3>4 DEF GateSaid
    <3>6. e # None /\ call'.error = e
      BY <1>4, <3>4 DEF Judged, Raised, IInv, Setting, NoCall
    <3>7. r.kind = "status"
      BY <3>1, <3>3, <3>4, <3>5, <3>6, GivenTaken DEF Reply
    <3>8. e \in {"GateHTTPError", "GateAuthorizationError"}
      BY <3>3, <3>7 DEF ReplyError
    <3> QED BY <3>4, <3>5, <3>6, <3>8 DEF CallCause
  <2> QED BY <2>1, <2>2, <2>3, <2>4, CallKept
<1>5. CASE call'.pc # "failed"
  BY <1>5 DEF CallCause
<1> QED BY <1>3, <1>4, <1>5

WayBack == WorkerSaid /\ Untouched /\ DispatchCause /\ GateSaid /\ CallCause

LEMMA WayBackInit == Init => WayBack
<1> SUFFICES ASSUME Init PROVE WayBack
  OBVIOUS
<1>1. /\ call.pc = "idle" /\ dispatch.pc = "idle" /\ gate.pc = "idle" /\ req[Work].pc = "idle"
      /\ wire.toTransport = NoReply /\ wire.toClient = NoReply
  BY DEF Init, NoCall, NoWire, Worker!Idle
<1> QED
  BY <1>1 DEF WayBack, WorkerSaid, Untouched, DispatchCause, GateSaid, CallCause

LEMMA WayBackHolds ==
  ASSUME SignatureIsOne
  PROVE  Spec => []WayBack
<1>1. IInv /\ IInv' /\ WayDown /\ WayBack /\ [Next]_vars => WayBack'
  BY WorkerSaidStep, UntouchedStep, DispatchCauseStep, GateSaidStep, CallCauseStep
     DEF WayBack, WayDown
<1> QED BY <1>1, WayBackInit, WayDownHolds, Inductive, PTL DEF Spec

\* The rails never lose a result by their own rules: without a fault, a dispatch or
\* a call that was posted fails only for the causes FailsForCause names
\* (_assert_response_answers_dispatch, _exchange), for every setup.
THEOREM FailuresHaveCause ==
  ASSUME \A key, over : None # [key |-> key, over |-> over]
  PROVE  Spec => []FailsForCause
<1>1. SignatureIsOne
  BY DEF SignatureIsOne
<1>2. Spec => []WayBack
  BY <1>1, WayBackHolds
<1>3. WayBack => FailsForCause
  BY DEF WayBack, DispatchCause, CallCause, FailsForCause, Ans
<1> QED BY <1>2, <1>3, PTL
=============================================================================

-------------------------- MODULE NodeRuntimeProofs --------------------------
(***************************************************************************)
(* Proofs about NodeRuntime, for every configuration, set of packets,      *)
(* handler and number of requests: types, that a node which trusts Gate's  *)
(* claims only executes what Gate signed, and that the hop journal a       *)
(* handler is given is valid.                                              *)
(***************************************************************************)
EXTENDS NodeRuntime, PacketProofs

-----------------------------------------------------------------------------
(* Answers have the shape of answers.                                       *)

\* A failure is answered now, by a packet or an HTTP error.
LEMMA FailureShape ==
  ASSUME NEW r, NEW p, NEW e, NEW b
  PROVE  /\ FailureAnswer(r, p, e, b).kind \in {"http", "packet"}
         /\ FailureAnswer(r, p, e, b).at = now
<1>1. \A c : Http(c).kind = "http" /\ Http(c).at = now
  BY DEF Http
<1>2. \A q : Packet(q).kind = "packet" /\ Packet(q).at = now
  BY DEF Packet
<1>3. \/ \E c : FailureAnswer(r, p, e, b) = Http(c)
      \/ \E q : FailureAnswer(r, p, e, b) = Packet(q)
  BY Zenon DEF FailureAnswer
<1>. QED  BY <1>1, <1>2, <1>3, Zenon

\* So is what a handler returned.
LEMMA RespondShape ==
  ASSUME NEW r, NEW p, NEW q
  PROVE  /\ Respond(r, p, q).kind \in {"http", "packet"}
         /\ Respond(r, p, q).at = now
<1>1. \A q2 : Packet(q2).kind = "packet" /\ Packet(q2).at = now
  BY DEF Packet
<1>2. \/ \E e : Respond(r, p, q) = FailureAnswer(r, p, e, FALSE)
      \/ \E q2 : Respond(r, p, q) = Packet(q2)
  BY Zenon DEF Respond
<1>. QED  BY <1>1, <1>2, FailureShape, Zenon

\* However a handler ends, a running request is answered.
LEMMA HandlerAnswers ==
  ASSUME NEW r, HandlerEnds(r)
  PROVE  \E o, a : Running(r) /\ a.kind \in {"http", "packet"} /\ a.at = now /\ Answer(r, o, a)
<1>1. ASSUME NEW payload \in Results, ReturnDict(r, payload)
      PROVE  \E o, a : Running(r) /\ a.kind \in {"http", "packet"} /\ a.at = now
                        /\ Answer(r, o, a)
  BY <1>1, FailureShape, RespondShape, Zenon DEF ReturnDict, OnLoop
<1>2. ASSUME NEW q, Running(r), Answer(r, "forwarded", Respond(r, req[r].pkt, q))
      PROVE  \E o, a : Running(r) /\ a.kind \in {"http", "packet"} /\ a.at = now
                        /\ Answer(r, o, a)
  BY <1>2, RespondShape, Zenon
<1>3. ASSUME NEW e, NEW b, RaiseError(r, e, b)
      PROVE  \E o, a : Running(r) /\ a.kind \in {"http", "packet"} /\ a.at = now
                        /\ Answer(r, o, a)
  BY <1>3, FailureShape, Zenon DEF RaiseError, OnLoop
<1>. QED  BY <1>1, <1>2, <1>3 DEF HandlerEnds, ReturnPacket, ReturnRequest, OnLoop

-----------------------------------------------------------------------------
(* Type correctness.                                                        *)

\* Answering a running request keeps the types.
LEMMA AnswerType ==
  ASSUME TypeOK, NEW r \in Requests, Running(r), NEW o, NEW a,
         a.kind \in {"http", "packet"}, a.at = now, Answer(r, o, a)
  PROVE  TypeOK'
<1>1. /\ DOMAIN req' = Requests
      /\ UNCHANGED <<now, cfg, handlers>>
      /\ \A s \in Requests : s # r => req'[s] = req[s]
  BY DEF Answer, TypeOK
<1>2. /\ DOMAIN req'[r] = DOMAIN req[r]
      /\ req'[r].pc = "done" /\ req'[r].answer = a
      /\ req'[r].pkt = req[r].pkt /\ req'[r].route = req[r].route
      /\ req'[r].handler = req[r].handler /\ req'[r].since = req[r].since
      /\ req'[r].cancelled = req[r].cancelled
  BY DEF Answer, TypeOK, Idle
<1>3. req[r].pkt # None
  BY DEF TypeOK, Running
<1>4. now \in 0..now
  BY DEF TypeOK
<1>. QED  BY <1>1, <1>2, <1>3, <1>4 DEF TypeOK, Running

\* So does turning a request away, or starting it.
LEMMA ArrivalType ==
  ASSUME TypeOK, NEW r \in Requests, NEW rec, DOMAIN rec = DOMAIN Idle,
         rec.pc \in {"running", "done"}, rec.pkt \in Inbound,
         rec.route \in {"execute", "relay"}, rec.handler \in HandlerKinds \cup {None},
         rec.since = now, rec.cancelled = None, rec.answer.kind \in {"none", "http", "packet"},
         rec.answer.kind = "none" <=> rec.pc # "done", rec.answer.at \in 0..now,
         req' = [req EXCEPT ![r] = rec], UNCHANGED <<now, cfg, handlers>>
  PROVE  TypeOK'
<1>1. /\ DOMAIN req' = Requests
      /\ \A s \in Requests : req'[s] = IF s = r THEN rec ELSE req[s]
  BY DEF TypeOK
<1>2. rec.pkt # None /\ rec.pc # "idle"
  BY RuntimeAssumption DEF RuntimeAssumption
<1>3. now \in 0..now
  BY DEF TypeOK
<1>. QED  BY <1>1, <1>2, <1>3 DEF TypeOK

\* Init establishes the types.
LEMMA TypeInit == Init => TypeOK
<1>. SUFFICES ASSUME Init PROVE TypeOK
  OBVIOUS
<1>1. handlers \in [Actions \cup {AnyAction} -> HandlerKinds \cup {None}]
  BY DEF Init
<1>2. DOMAIN req = Requests /\ \A r \in Requests : req[r] = Idle
  BY DEF Init
<1>3. now \in 0..MaxTime /\ cfg \in Configs
  BY RuntimeAssumption DEF Init, RuntimeAssumption
<1>4. /\ Idle.pc = "idle" /\ Idle.pkt = None /\ Idle.route = "execute"
      /\ Idle.handler = None /\ Idle.since = 0 /\ Idle.cancelled = None
      /\ Idle.answer.kind = "none" /\ Idle.answer.at = 0
  BY DEF Idle, NoAnswer
<1>. QED  BY <1>1, <1>2, <1>3, <1>4 DEF TypeOK

\* The record of a refused request and of a started one.
LEMMA ArrivalRecords ==
  ASSUME NEW p, NEW route, NEW h, NEW a
  PROVE  /\ LET rec == [Idle EXCEPT !.pc = "done", !.pkt = p, !.route = route,
                                    !.since = now, !.outcome = "refused", !.answer = a]
            IN  /\ DOMAIN rec = DOMAIN Idle /\ rec.pc = "done" /\ rec.pkt = p
                /\ rec.route = route /\ rec.handler = None /\ rec.since = now
                /\ rec.outcome = "refused" /\ rec.answer = a /\ rec.cancelled = None
         /\ LET rec == [Idle EXCEPT !.pc = "running", !.pkt = p, !.route = route,
                                    !.handler = h, !.since = now]
            IN  /\ DOMAIN rec = DOMAIN Idle /\ rec.pc = "running" /\ rec.pkt = p
                /\ rec.route = route /\ rec.handler = h /\ rec.since = now
                /\ rec.answer = NoAnswer /\ rec.cancelled = None
BY DEF Idle

\* Every step keeps the types.
LEMMA TypeStep == TypeOK /\ [Next]_vars => TypeOK'
<1>. SUFFICES ASSUME TypeOK, [Next]_vars PROVE TypeOK'
  OBVIOUS
<1>1. ASSUME NEW r \in Requests, Handle(r) PROVE TypeOK'
  <2>1. ASSUME NEW p \in Inbound, NEW route \in {"execute", "relay"}, NEW a,
               a.kind \in {"http", "packet"}, a.at = now, Turned(r, p, route, a)
        PROVE  TypeOK'
    <3>. DEFINE rec == [Idle EXCEPT !.pc = "done", !.pkt = p, !.route = route,
                                    !.since = now, !.outcome = "refused", !.answer = a]
    <3>1. /\ DOMAIN rec = DOMAIN Idle /\ rec.pc = "done" /\ rec.pkt = p
          /\ rec.route = route /\ rec.handler = None /\ rec.since = now /\ rec.answer = a
          /\ rec.cancelled = None
      BY ArrivalRecords
    <3>2. req' = [req EXCEPT ![r] = rec] /\ UNCHANGED <<now, cfg, handlers>>
      BY <2>1 DEF Turned
    <3>3. a.at \in 0..now
      BY <2>1 DEF TypeOK
    <3>. HIDE DEF rec
    <3>. QED  BY <2>1, <3>1, <3>2, <3>3, ArrivalType
  <2>2. ASSUME NEW p \in Inbound, NEW route \in {"execute", "relay"}, RejectBody(r, p, route)
        PROVE  TypeOK'
    <3>1. Turned(r, p, route, Http(400))
      BY <2>2 DEF RejectBody
    <3>2. Http(400).kind = "http" /\ Http(400).at = now
      BY DEF Http
    <3>. QED  BY <2>1, <3>1, <3>2
  <2>3. ASSUME NEW p \in Inbound, NEW route \in {"execute", "relay"}, Refuse(r, p, route)
        PROVE  TypeOK'
    <3>. DEFINE a == FailureAnswer(r, p, Refusal(p, route), FALSE)
    <3>1. Turned(r, p, route, a)
      BY <2>3 DEF Refuse
    <3>2. a.kind \in {"http", "packet"} /\ a.at = now
      BY FailureShape, Zenon
    <3>. HIDE DEF a
    <3>. QED  BY <2>1, <3>1, <3>2
  <2>4. ASSUME NEW p \in Inbound, NEW route \in {"execute", "relay"}, Start(r, p, route)
        PROVE  TypeOK'
    <3>. DEFINE h == HandlerFor(p.core.action)
                rec == [Idle EXCEPT !.pc = "running", !.pkt = p, !.route = route,
                                    !.handler = h, !.since = now]
    <3>1. /\ DOMAIN rec = DOMAIN Idle /\ rec.pc = "running" /\ rec.pkt = p
          /\ rec.route = route /\ rec.handler = h /\ rec.since = now
          /\ rec.answer = NoAnswer /\ rec.cancelled = None
      BY ArrivalRecords
    <3>2. req' = [req EXCEPT ![r] = rec] /\ UNCHANGED <<now, cfg, handlers>>
      BY <2>4 DEF Start
    <3>3. NoAnswer.kind = "none" /\ NoAnswer.at \in 0..now
      BY DEF TypeOK, NoAnswer
    <3>4. h \in HandlerKinds \cup {None}
      <4>1. p.core.action \in Actions
        BY RuntimeAssumption DEF RuntimeAssumption
      <4>. QED  BY <4>1 DEF TypeOK, HandlerFor
    <3>. HIDE DEF rec, h
    <3>. QED  BY <3>1, <3>2, <3>3, <3>4, ArrivalType
  <2>5. ASSUME HandlerEnds(r) PROVE TypeOK'
    <3>1. PICK o, a : Running(r) /\ a.kind \in {"http", "packet"} /\ a.at = now /\ Answer(r, o, a)
      BY <2>5, HandlerAnswers
    <3>. QED  BY <3>1, AnswerType
  <2>6. ASSUME TimeOut(r) \/ EndCancelled(r) PROVE TypeOK'
    <3>. DEFINE a == FailureAnswer(r, req[r].pkt, "TimeoutError", FALSE)
    <3>1. Running(r) /\ Answer(r, "timeout", a)
      BY <2>6 DEF TimeOut, EndCancelled, Due, Cancellable, OnLoop, TimeoutAnswer
    <3>2. a.kind \in {"http", "packet"} /\ a.at = now
      BY FailureShape, Zenon
    <3>. HIDE DEF a
    <3>. QED  BY <3>1, <3>2, AnswerType
  <2>7. ASSUME Cancel(r) PROVE TypeOK'
    <3>1. /\ DOMAIN req' = Requests /\ UNCHANGED <<now, cfg, handlers>>
          /\ \A s \in Requests : s # r => req'[s] = req[s]
      BY <2>7 DEF Cancel, TypeOK
    <3>2. /\ DOMAIN req'[r] = DOMAIN req[r]
          /\ req'[r].pc = req[r].pc /\ req'[r].answer = req[r].answer
          /\ req'[r].pkt = req[r].pkt /\ req'[r].route = req[r].route
          /\ req'[r].handler = req[r].handler /\ req'[r].since = req[r].since
          /\ req'[r].cancelled = now
      BY <2>7 DEF Cancel, TypeOK, Idle
    <3>3. now \in 0..now
      BY DEF TypeOK
    <3>. QED  BY <3>1, <3>2, <3>3 DEF TypeOK
  <2>. QED  BY <1>1, <2>2, <2>3, <2>4, <2>5, <2>6, <2>7 DEF Handle
<1>2. ASSUME NEW a \in Actions \cup {AnyAction}, NEW kind \in HandlerKinds,
             RegisterHandler(a, kind)
      PROVE  TypeOK'
  BY <1>2 DEF RegisterHandler, TypeOK
<1>3. CASE ClearHandlers
  BY <1>3 DEF ClearHandlers, TypeOK
<1>4. CASE Tick
  <2>1. now' \in 0..MaxTime /\ 0..now \subseteq 0..now'
    BY <1>4, RuntimeAssumption DEF Tick, TypeOK, RuntimeAssumption
  <2>. QED  BY <1>4, <2>1 DEF Tick, TypeOK
<1>5. CASE UNCHANGED vars
  BY <1>5 DEF vars, TypeOK
<1>. QED  BY <1>1, <1>2, <1>3, <1>4, <1>5 DEF Next

\* The node's variables keep their types.
THEOREM TypeCorrect == Spec => []TypeOK
BY TypeInit, TypeStep, PTL DEF Spec

-----------------------------------------------------------------------------
(* Authenticated execution.  A request whose handler was called was        *)
(* admitted, by the rules of its route, at the instant it arrived: this is *)
(* inductive because neither the request nor the configuration changes,    *)
(* and with what the preflight demands of the configuration it is enough.  *)

Admitted(r) ==
  /\ req[r].route = "relay" => cfg.relay
  /\ cfg.enforce => IngressOK(cfg, req[r].pkt, req[r].route)
  /\ Valid(req[r].pkt, RouteCheck(cfg, req[r].route), req[r].since)

IInv == /\ TypeOK
        /\ Startable(cfg)
        /\ \A r \in Requests : Executed(r) => Admitted(r)

\* Init establishes the invariant.
LEMMA IInvInit == Init => IInv
<1>. SUFFICES ASSUME Init PROVE IInv
  OBVIOUS
<1>1. TypeOK
  BY TypeInit
<1>2. Startable(cfg)
  BY DEF Init
<1>3. \A r \in Requests : req[r].pc = "idle"
  BY DEF Init, Idle
<1>. QED  BY <1>1, <1>2, <1>3 DEF IInv, Executed, Running, Answered

\* A request that a step leaves alone stays admitted.
LEMMA AdmittedFrame ==
  ASSUME NEW r, Admitted(r), cfg' = cfg, req'[r].pkt = req[r].pkt,
         req'[r].route = req[r].route, req'[r].since = req[r].since
  PROVE  Admitted(r)'
<1>1. IngressOK(cfg, req[r].pkt, req[r].route)' = IngressOK(cfg, req[r].pkt, req[r].route)
  BY DEF IngressOK, GateMediated, AllowedActions, AllowedTypes, RouteKind
<1>2. Valid(req[r].pkt, RouteCheck(cfg, req[r].route), req[r].since)'
        = Valid(req[r].pkt, RouteCheck(cfg, req[r].route), req[r].since)
  BY DEF RouteCheck
<1>. QED  BY <1>1, <1>2 DEF Admitted

\* Answering a running request keeps every executed request admitted.
LEMMA AnswerAdmitted ==
  ASSUME IInv, NEW r \in Requests, Running(r), NEW o, NEW a, Answer(r, o, a)
  PROVE  \A s \in Requests : Executed(s)' => Admitted(s)'
<1>. SUFFICES ASSUME NEW s \in Requests, Executed(s)' PROVE Admitted(s)'
  OBVIOUS
<1>1. /\ cfg' = cfg
      /\ req'[s].pkt = req[s].pkt /\ req'[s].route = req[s].route
      /\ req'[s].since = req[s].since
      /\ s # r => req'[s] = req[s]
  BY DEF Answer, IInv, TypeOK, Idle
<1>2. Executed(s)
  BY <1>1 DEF Executed, Running, Answered
<1>3. Admitted(s)
  BY <1>2 DEF IInv
<1>. QED  BY <1>1, <1>3, AdmittedFrame

\* What becomes of the executed requests when r arrives as rec.
LEMMA ArrivalAdmitted ==
  ASSUME IInv, NEW r \in Requests, NEW rec, req' = [req EXCEPT ![r] = rec], cfg' = cfg,
         Executed(r)' => Admitted(r)'
  PROVE  \A s \in Requests : Executed(s)' => Admitted(s)'
<1>. SUFFICES ASSUME NEW s \in Requests, s # r, Executed(s)' PROVE Admitted(s)'
  OBVIOUS
<1>1. req'[s] = req[s]
  BY DEF IInv, TypeOK
<1>2. Executed(s)
  BY <1>1 DEF Executed, Running, Answered
<1>3. Admitted(s)
  BY <1>2 DEF IInv
<1>. QED  BY <1>1, <1>3, AdmittedFrame

\* Every step keeps the invariant.
LEMMA IInvStep == IInv /\ [Next]_vars => IInv'
<1>. SUFFICES ASSUME IInv, [Next]_vars PROVE IInv'
  OBVIOUS
<1>1. TypeOK'
  BY TypeStep DEF IInv
<1>2. cfg' = cfg
  <2>1. ASSUME NEW r \in Requests, Handle(r) PROVE cfg' = cfg
    <3>1. HandlerEnds(r) => cfg' = cfg
      BY HandlerAnswers, Zenon DEF Answer
    <3>. QED  BY <2>1, <3>1 DEF Handle, RejectBody, Refuse, Start, Turned, TimeOut, Cancel,
              EndCancelled, TimeoutAnswer, Answer
  <2>. QED  BY <2>1 DEF Next, vars, RegisterHandler, ClearHandlers, Tick
<1>3. \A s \in Requests : Executed(s)' => Admitted(s)'
  <2>1. ASSUME NEW r \in Requests, Handle(r)
        PROVE  \A s \in Requests : Executed(s)' => Admitted(s)'
    <3>1. ASSUME NEW p \in Inbound, NEW route \in {"execute", "relay"}, NEW a,
                 Turned(r, p, route, a)
          PROVE  \A s \in Requests : Executed(s)' => Admitted(s)'
      <4>. DEFINE rec == [Idle EXCEPT !.pc = "done", !.pkt = p, !.route = route,
                                      !.since = now, !.outcome = "refused", !.answer = a]
      <4>1. rec.pc = "done" /\ rec.outcome = "refused"
        BY ArrivalRecords
      <4>2. req' = [req EXCEPT ![r] = rec]
        BY <3>1 DEF Turned
      <4>. HIDE DEF rec
      <4>3. ~Executed(r)'
        BY <4>1, <4>2 DEF Executed, Running, Answered, IInv, TypeOK
      <4>. QED  BY <4>2, <4>3, <1>2, ArrivalAdmitted
    <3>2. ASSUME NEW p \in Inbound, NEW route \in {"execute", "relay"},
                 RejectBody(r, p, route) \/ Refuse(r, p, route)
          PROVE  \A s \in Requests : Executed(s)' => Admitted(s)'
      BY <3>1, <3>2 DEF RejectBody, Refuse
    <3>3. ASSUME NEW p \in Inbound, NEW route \in {"execute", "relay"}, Start(r, p, route)
          PROVE  \A s \in Requests : Executed(s)' => Admitted(s)'
      <4>. DEFINE h == HandlerFor(p.core.action)
                  rec == [Idle EXCEPT !.pc = "running", !.pkt = p, !.route = route,
                                      !.handler = h, !.since = now]
      <4>1. rec.pkt = p /\ rec.route = route /\ rec.since = now
        BY ArrivalRecords
      <4>2. req' = [req EXCEPT ![r] = rec]
        BY <3>3 DEF Start
      <4>. HIDE DEF rec, h
      <4>3. req'[r].pkt = p /\ req'[r].route = route /\ req'[r].since = now
        BY <4>1, <4>2 DEF IInv, TypeOK
      <4>4. /\ route = "relay" => cfg.relay
            /\ cfg.enforce => IngressOK(cfg, p, route)
            /\ Valid(p, RouteCheck(cfg, route), now)
        BY <3>3 DEF Start, Arrives, Admits
      <4>5. Admitted(r)'
        <5>1. IngressOK(cfg, req[r].pkt, req[r].route)' = IngressOK(cfg, p, route)
          BY <4>3, <1>2 DEF IngressOK, GateMediated, AllowedActions, AllowedTypes, RouteKind
        <5>2. Valid(req[r].pkt, RouteCheck(cfg, req[r].route), req[r].since)'
                = Valid(p, RouteCheck(cfg, route), now)
          BY <4>3, <1>2 DEF RouteCheck
        <5>. QED  BY <4>3, <4>4, <5>1, <5>2, <1>2 DEF Admitted
      <4>. QED  BY <4>2, <4>5, <1>2, ArrivalAdmitted
    <3>4. ASSUME Running(r), NEW o, NEW a, Answer(r, o, a)
          PROVE  \A s \in Requests : Executed(s)' => Admitted(s)'
      BY <3>4, AnswerAdmitted
    <3>5. HandlerEnds(r) => \E o, a : Running(r) /\ Answer(r, o, a)
      BY HandlerAnswers
    <3>6. TimeOut(r) \/ EndCancelled(r) => \E o, a : Running(r) /\ Answer(r, o, a)
      BY DEF TimeOut, EndCancelled, TimeoutAnswer, OnLoop, Due, Cancellable
    <3>7. ASSUME Cancel(r) PROVE \A s \in Requests : Executed(s)' => Admitted(s)'
      <4>1. \A s \in Requests : /\ req'[s].pc = req[s].pc /\ req'[s].outcome = req[s].outcome
                               /\ req'[s].pkt = req[s].pkt /\ req'[s].route = req[s].route
                               /\ req'[s].since = req[s].since
        BY <3>7 DEF Cancel, IInv, TypeOK, Idle
      <4>. QED  BY <4>1, <1>2, AdmittedFrame DEF IInv, Executed, Running, Answered
    <3>. QED  BY <2>1, <3>2, <3>3, <3>4, <3>5, <3>6, <3>7 DEF Handle
  <2>2. ASSUME req' = req PROVE \A s \in Requests : Executed(s)' => Admitted(s)'
    BY <2>2, <1>2, AdmittedFrame DEF IInv, Executed, Running, Answered
  <2>. QED  BY <2>1, <2>2 DEF Next, vars, RegisterHandler, ClearHandlers, Tick
<1>4. Startable(cfg)'
  BY <1>2 DEF IInv
<1>. QED  BY <1>1, <1>3, <1>4 DEF IInv

\* IInv is an invariant.
LEMMA IInvariant == Spec => []IInv
BY IInvInit, IInvStep, PTL DEF Spec

\* Admission, under a configuration that the preflight lets start, is
\* authentication: on both routes the signature is required, so it was there
\* and verified.
LEMMA AdmissionAuthenticates == IInv => AuthenticatedExecution
<1>. SUFFICES ASSUME IInv, cfg.enforce, ~cfg.dev, NEW r \in Requests, Executed(r)
              PROVE  /\ req[r].pkt.sig # None
                     /\ SignatureVerifies(req[r].pkt, VerifyingKeys(cfg))
                     /\ GateMediated(req[r].pkt, Node, RouteKind(req[r].route), cfg.requireRoute)
  BY DEF AuthenticatedExecution
<1>. DEFINE p == req[r].pkt
            v == RouteCheck(cfg, req[r].route)
<1>1. Admitted(r) /\ Startable(cfg) /\ req[r].route \in {"execute", "relay"}
  BY DEF IInv, TypeOK
<1>2. RequireSignature(cfg, req[r].route)
  BY <1>1 DEF Admitted, Startable, IngressAuthenticated
<1>3. v.requireSig = RequireSignature(cfg, req[r].route) /\ v.dev = cfg.dev
      /\ v.keys = VerifyingKeys(cfg)
  BY DEF RouteCheck
<1>4. ~Checks(p, v, req[r].since)[16].bad
  BY <1>1 DEF Admitted, Valid, Failing
<1>5. Checks(p, v, req[r].since)[16].bad
        = IF p.sig = None THEN (v.requireSig \/ p.restricted) /\ ~v.dev
            ELSE ~(v.dev /\ v.keys = {}) /\ ~SignatureVerifies(p, v.keys)
  BY DEF Checks
<1>6. p.sig # None /\ SignatureVerifies(p, VerifyingKeys(cfg))
  BY <1>2, <1>3, <1>4, <1>5, Zenon
<1>7. GateMediated(p, Node, RouteKind(req[r].route), cfg.requireRoute)
  BY <1>1 DEF Admitted, IngressOK
<1>. QED  BY <1>6, <1>7

\* A node that trusts Gate's routing claims runs a handler only for a packet
\* whose signature verifies and which Gate addressed to it.
THEOREM AuthenticationHolds == Spec => []AuthenticatedExecution
BY IInvariant, AdmissionAuthenticates, PTL

-----------------------------------------------------------------------------
(* The hop journal.                                                         *)
\* The journal a handler is given is valid, unless Gate's clock is ahead.
LEMMA AdmissionTraces == IInv => ProcessingTraceValid
<1>. SUFFICES ASSUME IInv, NEW r \in Requests, Running(r),
                     \/ req[r].pkt.hops = <<>>
                     \/ req[r].pkt.hops[Len(req[r].pkt.hops)].body.ts <= req[r].since
              PROVE  ValidHopTrace(Processing(req[r].pkt, req[r].since))
  BY DEF ProcessingTraceValid
<1>. DEFINE p == req[r].pkt
<1>1. Admitted(r) /\ p \in Inbound /\ req[r].since \in Int
  BY DEF IInv, TypeOK, Executed, Running
<1>2. ~Checks(p, RouteCheck(cfg, req[r].route), req[r].since)[17].bad
  BY <1>1 DEF Admitted, Valid, Failing
<1>3. ValidHopTrace(p)
  BY <1>2 DEF Checks
<1>4. /\ DOMAIN p = {"core", "restricted", "hash", "sig", "hops"}
      /\ p.hops \in Seq({p.hops[i] : i \in DOMAIN p.hops})
      /\ \A i \in DOMAIN p.hops : p.hops[i].body.ts \in Int
  BY <1>1, RuntimeAssumption DEF RuntimeAssumption
<1>. HIDE DEF p
<1>. QED  BY <1>1, <1>3, <1>4, HopExtendsTrace DEF Processing, p

\* The journal a handler is given is valid, unless Gate's clock is ahead.
THEOREM ProcessingTraces == Spec => []ProcessingTraceValid
BY IInvariant, AdmissionTraces, PTL
=============================================================================

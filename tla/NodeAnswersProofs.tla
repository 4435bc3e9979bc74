-------------------------- MODULE NodeAnswersProofs --------------------------
(***************************************************************************)
(* Proofs about what NodeRuntime answers, for every configuration, set of  *)
(* packets, handler and number of requests: that the answers the SDK       *)
(* builds answer their request, and which of them pass Gate's validation;  *)
(* when an answer is a bare HTTP error, and when it may be late.           *)
(***************************************************************************)
EXTENDS NodeRuntimeProofs

-----------------------------------------------------------------------------
(* A child the node answers with.                                           *)

\* Which fields of the request the answer has, and which are its own.
LEMMA AnswerFields ==
  ASSUME NEW p \in Inbound, NEW id, NEW at, NEW type, NEW node, NEW payload
  PROVE  LET core == AnswerCore(p, id, at, type, node, payload)
         IN  /\ core.id = id /\ core.created = at /\ core.cause = p.core.id
             /\ core.type = type /\ core.src = node /\ core.dst = p.core.replyTo
             /\ core.payload = payload
             /\ core.action = p.core.action /\ core.root = p.core.root
             /\ core.tenant = p.core.tenant /\ core.corr = p.core.corr
             /\ core.idem = p.core.idem /\ core.expires = p.core.expires
             /\ core.notBefore = p.core.notBefore /\ core.replay = p.core.replay
             /\ core.defects = p.core.defects /\ core.audited = p.core.audited
             /\ core.links = p.core.links /\ core.until = p.core.until
             /\ core.attached = p.core.attached
<1>1. {"id", "type", "action", "created", "expires", "notBefore", "timeout", "idem",
       "corr", "cause", "replay", "src", "dst", "replyTo", "tenant", "payload",
       "parent", "root", "gen", "audited", "links", "until", "attached", "defects"} \subseteq DOMAIN p.core
  BY FieldAssumption DEF FieldAssumption
<1>. QED  BY <1>1, SMTT(30) DEF AnswerCore, Child

\* A packet made from a core, with one hop of the node's and its signature.
Made(core, restricted, status, error) ==
  LET q == Unsigned(core, restricted)
  IN  Sign(WithHop(q, MakeHop(q, Node, "response", status, error, now)))

\* Its parts.
LEMMA MadeParts ==
  ASSUME NEW core, NEW restricted, NEW status, NEW error
  PROVE  LET a == Made(core, restricted, status, error)
         IN  /\ a.core = core /\ a.hash = core /\ a.restricted = restricted
             /\ Len(a.hops) = 1 /\ DOMAIN a.hops = {1}
             /\ a.hops[1].body.pid = core.id /\ a.hops[1].body.prev = None
             /\ a.hops[1].hash = HopHash(core, a.hops[1].body)
             /\ cfg.key = None => a.sig = None
             /\ cfg.key # None => a.sig = [key |-> cfg.key, over |-> core]
<1>. DEFINE q == Unsigned(core, restricted)
            hop == MakeHop(q, Node, "response", status, error, now)
            h == WithHop(q, hop)
            a == Made(core, restricted, status, error)
<1>1. q = [core |-> core, restricted |-> restricted, hash |-> core, sig |-> None, hops |-> <<>>]
  BY DEF Unsigned, TransportHash
<1>2. hop.body.pid = core.id /\ hop.body.prev = None /\ hop.hash = HopHash(core, hop.body)
  BY <1>1 DEF MakeHop, LastHopHash
<1>. HIDE DEF hop
<1>3. h = [core |-> core, restricted |-> restricted, hash |-> core, sig |-> None,
           hops |-> <<hop>>]
  BY <1>1 DEF WithHop
<1>4. Len(<<hop>>) = 1 /\ DOMAIN <<hop>> = {1} /\ <<hop>>[1] = hop
  OBVIOUS
<1>5. /\ a.core = core /\ a.hash = core /\ a.restricted = restricted /\ a.hops = <<hop>>
      /\ cfg.key = None => a.sig = None
      /\ cfg.key # None => a.sig = [key |-> cfg.key, over |-> core]
  <2>1. a = Sign(h)
    BY DEF Made, hop
  <2>. HIDE DEF a, h
  <2>2. CASE cfg.key = None
    BY <2>1, <2>2, <1>3 DEF Sign
  <2>3. CASE cfg.key # None
    BY <2>1, <2>3, <1>3 DEF Sign, SignedBy, TransportHash
  <2>. QED  BY <2>2, <2>3
<1>. QED  BY <1>2, <1>4, <1>5

\* A child of a plain request, answered now, answers it, and passes every check of
\* Gate's but those of its size and of the delegations it inherits.
LEMMA MadeAccepted ==
  ASSUME NEW p \in Inbound, Plain(p), cfg \in Configs, now \in Nat,
         NEW id, NEW type \in {"response", "failure"}, NEW payload, NEW status, NEW error,
         None # [key |-> cfg.key, over |-> AnswerCore(p, id, now, type, Node, payload)],
         HeaderOK(AnswerCore(p, id, now, type, Node, payload))
  PROVE  LET a == Made(AnswerCore(p, id, now, type, Node, payload), p.restricted, status, error)
         IN  /\ AnswersDispatch(a, p, Node, Gate)
             /\ Valid(a, GateView, now) <=>
                  ~(Size(a) > MaxBytes) /\ (p.core.until # None => now <= p.core.until)
<1>. DEFINE core == AnswerCore(p, id, now, type, Node, payload)
            a == Made(core, p.restricted, status, error)
            v == GateView
<1>1. /\ core.created = now /\ core.cause = p.core.id /\ core.type = type
      /\ core.src = Node /\ core.dst = p.core.replyTo
      /\ core.action = p.core.action /\ core.root = p.core.root
      /\ core.tenant = p.core.tenant /\ core.corr = p.core.corr
      /\ core.idem = p.core.idem /\ core.expires = p.core.expires
      /\ core.notBefore = p.core.notBefore /\ core.replay = p.core.replay
      /\ core.defects = p.core.defects /\ core.audited = p.core.audited
      /\ core.links = p.core.links /\ core.until = p.core.until
      /\ core.attached = p.core.attached
  BY AnswerFields
<1>2. HeaderOK(core)
  OBVIOUS
<1>14. None # [key |-> cfg.key, over |-> core]
  OBVIOUS
<1>. HIDE DEF core
<1>3. /\ a.core = core /\ a.hash = core /\ a.restricted = p.restricted
      /\ Len(a.hops) = 1 /\ DOMAIN a.hops = {1}
      /\ a.hops[1].body.pid = core.id /\ a.hops[1].body.prev = None
      /\ a.hops[1].hash = HopHash(core, a.hops[1].body)
      /\ cfg.key = None => a.sig = None
      /\ cfg.key # None => a.sig = [key |-> cfg.key, over |-> core]
  BY MadeParts
<1>. HIDE DEF a
<1>4. /\ core.defects = {} /\ core.notBefore = None /\ ~core.replay /\ core.dst = Gate
      /\ core.links <= MaxLinks /\ (core.attached # None => core.attached \in Attachable)
      /\ (p.restricted => core.audited)
  BY <1>1 DEF Plain
<1>5. AnswersDispatch(a, p, Node, Gate)
  BY <1>1, <1>3, <1>4 DEF AnswersDispatch
<1>6. ValidHopTrace(a)
  BY <1>3 DEF ValidHopTrace, BadHops, HopVerdict
<1>7. /\ v.types = None /\ v.actions = None /\ v.node = None /\ v.skew = Skew
      /\ v.maxBytes = MaxBytes /\ v.maxHops = MaxHops /\ v.maxLinks = MaxLinks
      /\ v.attachable = Attachable /\ v.idem = {} /\ v.replay = TRUE
      /\ v.dev <=> cfg.key = None
      /\ v.keys = IF cfg.key = None THEN {} ELSE {cfg.key}
  BY DEF GateView
<1>. HIDE DEF v
<1>9. core.expires # None => core.expires > now
  BY <1>1, <1>2 DEF HeaderOK
<1>10. core.expires \in Int \cup {None} /\ core.links \in Nat
  BY <1>1, FieldAssumption DEF FieldAssumption
<1>11. ~(IF a.sig = None THEN (v.requireSig \/ a.restricted) /\ ~v.dev
           ELSE ~(v.dev /\ v.keys = {}) /\ ~SignatureVerifies(a, v.keys))
  <2>1. CASE cfg.key = None
    BY <2>1, <1>3, <1>7
  <2>2. CASE cfg.key # None
    <3>1. CASE a.sig = None
      BY <3>1, <2>2, <1>3, <1>14
    <3>2. CASE a.sig # None
      BY <3>2, <2>2, <1>3, <1>7 DEF SignatureVerifies
    <3>. QED  BY <3>1, <3>2
  <2>. QED  BY <2>1, <2>2
<1>12. DelegationOK(a.core, now) <=> (p.core.until # None => now <= p.core.until)
  BY <1>1, <1>3, <1>4 DEF DelegationOK
<1>13. ASSUME ~(Size(a) > MaxBytes), p.core.until # None => now <= p.core.until
       PROVE  Valid(a, v, now)
  <2>1. /\ "schema" \notin a.core.defects /\ "governance" \notin a.core.defects
        /\ ~(a.restricted /\ ~a.core.audited) /\ DelegationOK(a.core, now)
        /\ ~(Size(a) > v.maxBytes) /\ ~(a.core.links > v.maxLinks)
        /\ ~(a.core.attached # None /\ a.core.attached \notin v.attachable)
    BY <1>3, <1>4, <1>7, <1>10, <1>12, <1>13, DefaultsAssumption DEF DefaultsAssumption
  <2>2. /\ ~(v.types # None /\ a.core.type \notin v.types)
        /\ ~(v.actions # None /\ a.core.action \notin v.actions)
        /\ ~(v.node # None /\ a.core.dst # v.node)
        /\ ~(a.core.created > now + v.skew) /\ ~(Len(a.hops) > v.maxHops)
        /\ ~(a.core.notBefore # None /\ now < a.core.notBefore)
        /\ ~(a.core.expires # None /\ now > a.core.expires)
        /\ a.core.type # "replay_request" /\ ~a.core.replay
        /\ ~(a.core.action \in v.idem /\ a.core.idem = None)
    BY <1>1, <1>3, <1>4, <1>7, <1>9, <1>10, DefaultsAssumption DEF DefaultsAssumption
  <2>. QED  BY <2>1, <2>2, <1>11, <1>6, ChecksPass
<1>15. ASSUME Valid(a, v, now)
       PROVE  ~(Size(a) > MaxBytes) /\ (p.core.until # None => now <= p.core.until)
  <2>1. ~Checks(a, v, now)[6].bad /\ ~Checks(a, v, now)[15].bad
    BY <1>15 DEF Valid, Failing
  <2>2. ~(Size(a) > v.maxBytes) /\ DelegationOK(a.core, now)
    BY <2>1 DEF Checks
  <2>. QED  BY <2>2, <1>7, <1>12
<1>16. Valid(a, v, now) <=>
         ~(Size(a) > MaxBytes) /\ (p.core.until # None => now <= p.core.until)
  BY <1>13, <1>15
<1>. QED  BY <1>5, <1>16 DEF a, core, v

-----------------------------------------------------------------------------
(* Every answer, when it is made.                                           *)

\* A bare HTTP error that ends a request as o says has one of the causes.
HttpForCause(p, o, a) ==
  a.kind = "http" /\ cfg.returnErrors =>
    \/ ~Decodable(p)
    \/ SignError(cfg) # None
    \/ cfg.expose /\ o = "blank"
    \/ p.core.expires # None /\ p.core.expires <= a.at
    \/ p.core.notBefore # None /\ p.core.notBefore < a.at

\* A packet answers p, and passes Gate's checks but for its size and its delegations.
Acceptable(p, a) ==
  a.kind = "packet" /\ Plain(p) =>
    /\ AnswersDispatch(a.pkt, p, Node, Gate)
    /\ Valid(a.pkt, GateView, a.at) <=>
         ~(Size(a.pkt) > MaxBytes) /\ (p.core.until # None => a.at <= p.core.until)

\* When a child of p cannot be built, p's dates are the cause.
LEMMA DatesForbid ==
  ASSUME NEW p \in Inbound, now \in Nat, NEW id, NEW type, NEW payload,
         ~HeaderOK(AnswerCore(p, id, now, type, Node, payload))
  PROVE  \/ p.core.expires # None /\ p.core.expires <= now
         \/ p.core.notBefore # None /\ p.core.notBefore < now
<1>. DEFINE core == AnswerCore(p, id, now, type, Node, payload)
<1>1. core.created = now /\ core.expires = p.core.expires /\ core.notBefore = p.core.notBefore
  BY AnswerFields
<1>2. ~HeaderOK(core)
  OBVIOUS
<1>. HIDE DEF core
<1>3. p.core.expires \in Int \cup {None} /\ p.core.notBefore \in Int \cup {None}
  BY FieldAssumption DEF FieldAssumption
<1>. QED  BY <1>1, <1>2, <1>3 DEF HeaderOK

\* A signature of the node's is one.
LEMMA SignatureIsOne ==
  ASSUME NEW p \in Inbound, NEW r \in Requests, NEW n \in {1, 2}, cfg \in Configs,
         now \in 0..MaxTime, NEW type \in {"response", "failure"},
         NEW payload \in Results \cup {Payload("failed", error) : error \in Reported}
  PROVE  None # [key |-> cfg.key,
                 over |-> AnswerCore(p, <<r, n>>, now, type, Node, payload)]
<1>. DEFINE core == AnswerCore(p, <<r, n>>, now, type, Node, payload)
<1>1. core \in AnswerCores
  BY DEF AnswerCores
<1>. HIDE DEF core
<1>2. [key |-> cfg.key, over |-> core] \in [key : {c.key : c \in Configs}, over : AnswerCores]
  BY <1>1
<1>3. None # [key |-> cfg.key, over |-> core]
  BY <1>2, SignatureAssumption DEF SignatureAssumption
<1>. QED  BY <1>3 DEF core

\* The failure that answers r.
LEMMA FailureIsGood ==
  ASSUME TypeOK, NEW r \in Requests, NEW p \in Inbound, NEW e \in Reported,
         NEW b \in BOOLEAN, NEW o, b => o = "blank"
  PROVE  /\ HttpForCause(p, o, FailureAnswer(r, p, e, b))
         /\ Acceptable(p, FailureAnswer(r, p, e, b))
<1>. DEFINE core == AnswerCore(p, <<r, 2>>, now, "failure", Node, Payload("failed", e))
            m == Made(core, p.restricted, "failed", e)
            a == FailureAnswer(r, p, e, b)
            can == HeaderOK(core) /\ ~(cfg.expose /\ b) /\ SignError(cfg) = None
<1>1. now \in Nat /\ now \in 0..MaxTime /\ cfg \in Configs
  BY RuntimeAssumption DEF TypeOK, RuntimeAssumption
<1>2. CASE ~cfg.returnErrors
  <2>1. a = Http(StatusOf(e))
    BY <1>2, Zenon DEF FailureAnswer
  <2>2. a.kind = "http"
    BY <2>1 DEF Http
  <2>. HIDE DEF a
  <2>3. HttpForCause(p, o, a) /\ Acceptable(p, a)
    BY <2>2, <1>2 DEF HttpForCause, Acceptable
  <2>. QED  BY <2>3 DEF a
<1>3. CASE cfg.returnErrors /\ can
  <2>1. a = Packet(m)
    BY <1>3, Zenon DEF FailureAnswer, Made
  <2>2. None # [key |-> cfg.key, over |-> core]
    BY <1>1, SignatureIsOne
  <2>3. ASSUME Plain(p)
        PROVE  /\ AnswersDispatch(m, p, Node, Gate)
               /\ Valid(m, GateView, now) <=>
                    ~(Size(m) > MaxBytes) /\ (p.core.until # None => now <= p.core.until)
    BY <2>2, <2>3, <1>1, <1>3, MadeAccepted
  <2>. HIDE DEF m, a, core
  <2>4. a.kind = "packet" /\ a.pkt = m /\ a.at = now
    BY <2>1 DEF Packet
  <2>5. HttpForCause(p, o, a) /\ Acceptable(p, a)
    BY <2>4, <2>3 DEF HttpForCause, Acceptable
  <2>. QED  BY <2>5 DEF a
<1>4. CASE cfg.returnErrors /\ ~can
  <2>1. a = Http(500)
    BY <1>4, Zenon DEF FailureAnswer
  <2>2. ~HeaderOK(core) => \/ p.core.expires # None /\ p.core.expires <= now
                           \/ p.core.notBefore # None /\ p.core.notBefore < now
    BY <1>1, DatesForbid
  <2>. HIDE DEF a, core
  <2>3. a.kind = "http" /\ a.at = now
    BY <2>1 DEF Http
  <2>4. HttpForCause(p, o, a) /\ Acceptable(p, a)
    BY <1>4, <2>2, <2>3 DEF HttpForCause, Acceptable
  <2>. QED  BY <2>4 DEF a
<1>. QED  BY <1>2, <1>3, <1>4

\* The exceptions the node raises itself are reported.
LEMMA OwnErrors == {"ValueError", "ValidationError", "TypeError", "TimeoutError"} \subseteq Reported
BY DEF Reported

\* What answers r when the packet its handler ended with cannot be sent.
LEMMA NoResponseIsGood ==
  ASSUME TypeOK, NEW r \in Requests, NEW p \in Inbound, NEW e, NEW o,
         e \in Reported \/ SignError(cfg) # None
  PROVE  /\ HttpForCause(p, o, FailureAnswer(r, p, e, FALSE))
         /\ e \in Reported => Acceptable(p, FailureAnswer(r, p, e, FALSE))
<1>1. e \in Reported => /\ HttpForCause(p, o, FailureAnswer(r, p, e, FALSE))
                         /\ Acceptable(p, FailureAnswer(r, p, e, FALSE))
  BY FailureIsGood
<1>2. SignError(cfg) # None => HttpForCause(p, o, FailureAnswer(r, p, e, FALSE))
  BY DEF HttpForCause
<1>. QED  BY <1>1, <1>2

\* When the node cannot sign, no packet answers r.
LEMMA UnsignedIsHttp ==
  ASSUME NEW r, NEW p, NEW e, NEW b, SignError(cfg) # None
  PROVE  FailureAnswer(r, p, e, b).kind = "http"
<1>1. \A c : Http(c).kind = "http"
  BY DEF Http
<1>2. \E c : FailureAnswer(r, p, e, b) = Http(c)
  BY Zenon DEF FailureAnswer
<1>. QED  BY <1>1, <1>2, Zenon

\* What answers r when its handler returned a packet it held.
LEMMA ForwardIsGood ==
  ASSUME TypeOK, NEW r \in Requests, NEW p \in Inbound, NEW q, NEW o
  PROVE  HttpForCause(p, o, Respond(r, p, q))
<1>. DEFINE f == FailureAnswer(r, p, "ValidationError", FALSE)
            g == FailureAnswer(r, p, SignError(cfg), FALSE)
<1>1. \/ Respond(r, p, q) = f
      \/ SignError(cfg) # None /\ Respond(r, p, q) = g
      \/ \E q2 : Respond(r, p, q) = Packet(q2)
  BY Zenon DEF Respond
<1>2. \A q2 : HttpForCause(p, o, Packet(q2))
  BY DEF Packet, HttpForCause
<1>3. HttpForCause(p, o, f)
  BY NoResponseIsGood, OwnErrors
<1>4. SignError(cfg) # None => HttpForCause(p, o, g)
  BY NoResponseIsGood
<1>. HIDE DEF f, g
<1>. QED  BY <1>1, <1>2, <1>3, <1>4

\* What answers r when its handler returned a dict.
LEMMA ResultIsGood ==
  ASSUME TypeOK, NEW r \in Requests, NEW p \in Inbound, NEW payload \in Results, NEW o,
         HeaderOK(AnswerCore(p, <<r, 1>>, now, "response", Node, payload))
  PROVE  LET q == Unsigned(AnswerCore(p, <<r, 1>>, now, "response", Node, payload), p.restricted)
         IN  /\ HttpForCause(p, o, Respond(r, p, q))
             /\ Acceptable(p, Respond(r, p, q))
<1>. DEFINE core == AnswerCore(p, <<r, 1>>, now, "response", Node, payload)
            q == Unsigned(core, p.restricted)
            m == Made(core, p.restricted, q.core.payload.status, None)
            a == Respond(r, p, q)
            f == FailureAnswer(r, p, "ValidationError", FALSE)
            g == FailureAnswer(r, p, SignError(cfg), FALSE)
<1>1. now \in Nat /\ now \in 0..MaxTime /\ cfg \in Configs
  BY RuntimeAssumption DEF TypeOK, RuntimeAssumption
<1>2. HttpForCause(p, o, a)
  BY ForwardIsGood
<1>3. a = f \/ (SignError(cfg) # None /\ a = g) \/ a = Packet(m)
  BY Zenon DEF Respond, Made
<1>4. None # [key |-> cfg.key, over |-> core]
  BY <1>1, SignatureIsOne
<1>5. Plain(p) => /\ AnswersDispatch(m, p, Node, Gate)
                  /\ Valid(m, GateView, now) <=>
                       ~(Size(m) > MaxBytes) /\ (p.core.until # None => now <= p.core.until)
  BY <1>1, <1>4, MadeAccepted
<1>6. Acceptable(p, f)
  BY NoResponseIsGood, OwnErrors
<1>7. SignError(cfg) # None => g.kind = "http"
  BY UnsignedIsHttp
<1>. HIDE DEF m, a, f, g
<1>8. Acceptable(p, Packet(m))
  BY <1>5 DEF Acceptable, Packet
<1>9. SignError(cfg) # None => Acceptable(p, g)
  BY <1>7 DEF Acceptable
<1>10. Acceptable(p, a)
  BY <1>3, <1>6, <1>8, <1>9
<1>. QED  BY <1>2, <1>10 DEF a

\* The verdict on a packet that is not valid is one of the exceptions of Checks.
LEMMA VerdictReported ==
  ASSUME NEW p \in Inbound, NEW v, NEW at, ~Valid(p, v, at)
  PROVE  Verdict(p, v, at) \in Reported
<1>. DEFINE c == Checks(p, v, at)
            F == Failing(p, v, at)
            k == CHOOSE i \in F : \A j \in F : i <= j
<1>1. F # {} /\ F \subseteq 1..17 /\ \A i \in F : c[i].bad
  BY DEF Valid, Failing
<1>2. k \in 1..17 /\ c[k].bad
  <2>. HIDE DEF F, c
  <2>0. F \subseteq Nat
    BY <1>1
  <2>1. \E i \in F : \A j \in F : i <= j
    BY <1>1, <2>0, First
  <2>2. k \in F
    BY <2>1
  <2>. QED  BY <2>2, <1>1
<1>3. Verdict(p, v, at) = c[k].error
  BY DEF Verdict
<1>. HIDE DEF k
<1>4. \A i \in 1..16 : c[i].error \in Reported
  BY DEF Checks, Reported
<1>5. c[17].bad => c[17].error \in Reported
  <2>1. c[17].bad <=> ~ValidHopTrace(p)
    BY DEF Checks
  <2>2. c[17].error = HopTraceError(p)
    BY DEF Checks
  <2>. HIDE DEF c
  <2>. SUFFICES ASSUME ~ValidHopTrace(p) PROVE HopTraceError(p) \in Reported
    BY <2>1, <2>2
  <2>. DEFINE B == BadHops(p)
              h == CHOOSE i \in B : \A j \in B : i <= j
  <2>3. B # {}
    BY DEF ValidHopTrace
  <2>4. B \subseteq Nat /\ \A i \in B : HopVerdict(p, i) # "ok"
    <3>1. p.hops \in Seq({p.hops[i] : i \in DOMAIN p.hops})
      BY RuntimeAssumption DEF RuntimeAssumption
    <3>2. DOMAIN p.hops \subseteq Nat
      BY <3>1
    <3>. QED  BY <3>2 DEF BadHops
  <2>5. \A i \in Nat : HopVerdict(p, i) \in {"TransportValidationError",
                                            "TransportIntegrityError", "ok"}
    BY DEF HopVerdict
  <2>6. HopTraceError(p) = HopVerdict(p, h)
    BY DEF HopTraceError
  <2>7. h \in B
    <3>. HIDE DEF B
    <3>1. \E i \in B : \A j \in B : i <= j
      BY <2>3, <2>4, First
    <3>. QED  BY <3>1
  <2>. HIDE DEF B, h
  <2>. QED  BY <2>4, <2>5, <2>6, <2>7 DEF Reported
<1>6. k \in 1..16 \/ k = 17
  BY <1>2
<1>. QED  BY <1>2, <1>3, <1>4, <1>5, <1>6

\* A refusal names an exception that is reported.
LEMMA RefusalReported ==
  ASSUME NEW p \in Inbound, NEW route
  PROVE  Refusal(p, route) \in Reported
BY VerdictReported, OwnErrors DEF Refusal

-----------------------------------------------------------------------------
(* What one request's step is: it is turned away, started, answered, or its *)
(* handler is cancelled.                                                    *)

TurnedAway(r) ==
  \E p \in Inbound, route \in {"execute", "relay"} : \E a :
    /\ req[r].pc = "idle" /\ Turned(r, p, route, a)
    /\ HttpForCause(p, "refused", a) /\ Acceptable(p, a)

Started(r) == \E p \in Inbound, route \in {"execute", "relay"} : Start(r, p, route)

AnsweredNow(r) ==
  \E o, a :
    /\ Running(r) /\ Answer(r, o, a) /\ a.at = now
    /\ HttpForCause(req[r].pkt, o, a)
    /\ o # "forwarded" => Acceptable(req[r].pkt, a)

\* There is no other.
LEMMA StepOfRequest ==
  ASSUME TypeOK, NEW r \in Requests, Handle(r)
  PROVE  TurnedAway(r) \/ Started(r) \/ AnsweredNow(r) \/ Cancel(r)
<1>0. now \in Nat
  BY RuntimeAssumption DEF TypeOK, RuntimeAssumption
<1>1. ASSUME NEW p \in Inbound, NEW route \in {"execute", "relay"}, RejectBody(r, p, route)
      PROVE  TurnedAway(r)
  <2>1. HttpForCause(p, "refused", Http(400)) /\ Acceptable(p, Http(400))
    BY <1>1 DEF RejectBody, HttpForCause, Acceptable, Http
  <2>. QED  BY <1>1, <2>1 DEF RejectBody, Arrives, TurnedAway
<1>2. ASSUME NEW p \in Inbound, NEW route \in {"execute", "relay"}, Refuse(r, p, route)
      PROVE  TurnedAway(r)
  <2>. DEFINE a == FailureAnswer(r, p, Refusal(p, route), FALSE)
  <2>1. HttpForCause(p, "refused", a) /\ Acceptable(p, a)
    BY RefusalReported, FailureIsGood
  <2>2. req[r].pc = "idle" /\ Turned(r, p, route, a)
    BY <1>2 DEF Refuse, Arrives
  <2>. HIDE DEF a
  <2>. QED  BY <2>1, <2>2 DEF TurnedAway
<1>3. ASSUME Running(r) PROVE req[r].pkt \in Inbound
  BY <1>3 DEF TypeOK, Running
<1>4. ASSUME NEW o, NEW e \in Reported, NEW b \in BOOLEAN, b => o = "blank",
             Running(r), Answer(r, o, FailureAnswer(r, req[r].pkt, e, b))
      PROVE  AnsweredNow(r)
  <2>. DEFINE p == req[r].pkt
              a == FailureAnswer(r, p, e, b)
  <2>1. HttpForCause(p, o, a) /\ Acceptable(p, a)
    BY <1>3, <1>4, FailureIsGood
  <2>2. a.at = now
    BY FailureShape, Zenon
  <2>3. Answer(r, o, a)
    BY <1>4
  <2>. HIDE DEF a
  <2>. QED  BY <1>4, <2>1, <2>2, <2>3 DEF AnsweredNow
<1>5. ASSUME NEW payload \in Results, ReturnDict(r, payload)
      PROVE  AnsweredNow(r)
  <2>. DEFINE p == req[r].pkt
              core == AnswerCore(p, <<r, 1>>, now, "response", Node, payload)
              q == Unsigned(core, p.restricted)
              a == Respond(r, p, q)
              f == FailureAnswer(r, p, "ValidationError", FALSE)
  <2>1. Running(r) /\ Answer(r, "returned", IF HeaderOK(core) THEN a ELSE f)
    BY <1>5, Zenon DEF ReturnDict, OnLoop
  <2>2. p \in Inbound
    BY <1>3, <2>1
  <2>3. CASE HeaderOK(core)
    <3>1. HttpForCause(p, "returned", a) /\ Acceptable(p, a)
      BY <2>2, <2>3, ResultIsGood
    <3>2. a.at = now
      BY RespondShape, Zenon
    <3>. HIDE DEF a, f, core
    <3>. QED  BY <2>1, <2>3, <3>1, <3>2 DEF AnsweredNow
  <2>4. CASE ~HeaderOK(core)
    <3>1. Answer(r, "returned", f)
      <4>. HIDE DEF a, f, core
      <4>. QED  BY <2>1, <2>4
    <3>. QED  BY <2>1, <3>1, <1>4, OwnErrors
  <2>. QED  BY <2>3, <2>4
<1>6. ASSUME NEW q, Running(r), Answer(r, "forwarded", Respond(r, req[r].pkt, q))
      PROVE  AnsweredNow(r)
  BY <1>3, <1>6, ForwardIsGood, RespondShape DEF AnsweredNow
<1>7. ASSUME NEW e \in Raised \cup {"TypeError", "ValueError"}, NEW b \in BOOLEAN,
             RaiseError(r, e, b)
      PROVE  AnsweredNow(r)
  <2>. DEFINE o == IF b THEN "blank" ELSE "raised"
  <2>1. e \in Reported /\ (b => o = "blank")
    BY OwnErrors DEF Reported
  <2>2. Running(r) /\ Answer(r, o, FailureAnswer(r, req[r].pkt, e, b))
    BY <1>7 DEF RaiseError, OnLoop
  <2>. HIDE DEF o
  <2>. QED  BY <1>4, <2>1, <2>2
<1>8. ASSUME TimeOut(r) \/ EndCancelled(r) PROVE AnsweredNow(r)
  <2>1. Running(r) /\ Answer(r, "timeout", FailureAnswer(r, req[r].pkt, "TimeoutError", FALSE))
    BY <1>8 DEF TimeOut, EndCancelled, TimeoutAnswer, Due, Cancellable, OnLoop
  <2>. QED  BY <1>4, <2>1, OwnErrors
<1>9. HandlerEnds(r) => AnsweredNow(r)
  BY <1>5, <1>6, <1>7 DEF HandlerEnds, ReturnPacket, ReturnRequest, OnLoop
<1>. QED  BY <1>1, <1>2, <1>8, <1>9 DEF Handle, Started

\* What it leaves alone.
LEMMA StepFrame ==
  ASSUME TypeOK, NEW r \in Requests, TurnedAway(r) \/ Started(r) \/ AnsweredNow(r) \/ Cancel(r)
  PROVE  now' = now /\ cfg' = cfg /\ \A s \in Requests : s # r => req'[s] = req[s]
BY DEF TurnedAway, Turned, Started, Start, AnsweredNow, Answer, Cancel, TypeOK

\* What each of them makes of the request.
LEMMA StepRecord ==
  ASSUME TypeOK, NEW r \in Requests
  PROVE  /\ TurnedAway(r) =>
              /\ req[r].pc = "idle" /\ req'[r].pc = "done" /\ req'[r].outcome = "refused"
              /\ req'[r].handler = None
              /\ HttpForCause(req'[r].pkt, req'[r].outcome, req'[r].answer)
              /\ Acceptable(req'[r].pkt, req'[r].answer)
         /\ Started(r) =>
              /\ req[r].pc = "idle" /\ req'[r].pc = "running" /\ req'[r].pkt \in Inbound
              /\ req'[r].since = now /\ req'[r].handler # None /\ req'[r].cancelled = None
         /\ AnsweredNow(r) =>
              /\ Running(r) /\ req'[r].pc = "done"
              /\ req'[r].pkt = req[r].pkt /\ req'[r].handler = req[r].handler
              /\ req'[r].since = req[r].since /\ req'[r].answer.at = now
              /\ req'[r].cancelled = req[r].cancelled
              /\ HttpForCause(req'[r].pkt, req'[r].outcome, req'[r].answer)
              /\ req'[r].outcome # "forwarded" => Acceptable(req'[r].pkt, req'[r].answer)
         /\ Cancel(r) =>
              /\ Running(r) /\ req'[r].pc = "running"
              /\ req'[r].pkt = req[r].pkt /\ req'[r].handler = req[r].handler
              /\ req'[r].since = req[r].since
              /\ req[r].cancelled = None /\ req'[r].cancelled = now
<1>0. DOMAIN req = Requests /\ DOMAIN req[r] = DOMAIN Idle
  BY DEF TypeOK
<1>1. ASSUME TurnedAway(r)
      PROVE  /\ req[r].pc = "idle" /\ req'[r].pc = "done" /\ req'[r].outcome = "refused"
             /\ req'[r].handler = None
             /\ HttpForCause(req'[r].pkt, req'[r].outcome, req'[r].answer)
             /\ Acceptable(req'[r].pkt, req'[r].answer)
  <2>0. PICK p \in Inbound, route \in {"execute", "relay"} : \E a :
          /\ req[r].pc = "idle" /\ Turned(r, p, route, a)
          /\ HttpForCause(p, "refused", a) /\ Acceptable(p, a)
    BY <1>1 DEF TurnedAway
  <2>1. PICK a : /\ req[r].pc = "idle" /\ Turned(r, p, route, a)
                 /\ HttpForCause(p, "refused", a) /\ Acceptable(p, a)
    BY <2>0
  <2>2. req'[r] = [Idle EXCEPT !.pc = "done", !.pkt = p, !.route = route, !.since = now,
                               !.outcome = "refused", !.answer = a]
    BY <1>0, <2>1 DEF Turned
  <2>3. /\ req'[r].pc = "done" /\ req'[r].outcome = "refused" /\ req'[r].handler = None
        /\ req'[r].pkt = p /\ req'[r].answer = a
    BY <2>2 DEF Idle
  <2>. QED  BY <2>1, <2>3
<1>2. ASSUME Started(r)
      PROVE  /\ req[r].pc = "idle" /\ req'[r].pc = "running" /\ req'[r].pkt \in Inbound
             /\ req'[r].since = now /\ req'[r].handler # None /\ req'[r].cancelled = None
  <2>1. PICK p \in Inbound, route \in {"execute", "relay"} : Start(r, p, route)
    BY <1>2 DEF Started
  <2>. DEFINE h == HandlerFor(p.core.action)
  <2>2. req'[r] = [Idle EXCEPT !.pc = "running", !.pkt = p, !.route = route,
                               !.handler = h, !.since = now]
    BY <1>0, <2>1 DEF Start
  <2>3. req[r].pc = "idle" /\ h # None
    BY <2>1 DEF Start, Arrives, Admits
  <2>. HIDE DEF h
  <2>4. /\ req'[r].pc = "running" /\ req'[r].pkt = p /\ req'[r].since = now
        /\ req'[r].handler = h /\ req'[r].cancelled = None
    BY <2>2 DEF Idle
  <2>. QED  BY <2>3, <2>4
<1>3. ASSUME AnsweredNow(r)
      PROVE  /\ Running(r) /\ req'[r].pc = "done"
             /\ req'[r].pkt = req[r].pkt /\ req'[r].handler = req[r].handler
             /\ req'[r].since = req[r].since /\ req'[r].answer.at = now
             /\ req'[r].cancelled = req[r].cancelled
             /\ HttpForCause(req'[r].pkt, req'[r].outcome, req'[r].answer)
             /\ req'[r].outcome # "forwarded" => Acceptable(req'[r].pkt, req'[r].answer)
  <2>1. PICK o, a : /\ Running(r) /\ Answer(r, o, a) /\ a.at = now
                    /\ HttpForCause(req[r].pkt, o, a)
                    /\ o # "forwarded" => Acceptable(req[r].pkt, a)
    BY <1>3 DEF AnsweredNow
  <2>2. /\ req'[r].pc = "done" /\ req'[r].outcome = o /\ req'[r].answer = a
        /\ req'[r].pkt = req[r].pkt /\ req'[r].handler = req[r].handler
        /\ req'[r].since = req[r].since /\ req'[r].cancelled = req[r].cancelled
    BY <1>0, <2>1 DEF Answer, Idle
  <2>. QED  BY <2>1, <2>2
<1>4. ASSUME Cancel(r)
      PROVE  /\ Running(r) /\ req'[r].pc = "running"
             /\ req'[r].pkt = req[r].pkt /\ req'[r].handler = req[r].handler
             /\ req'[r].since = req[r].since
             /\ req[r].cancelled = None /\ req'[r].cancelled = now
  BY <1>0, <1>4 DEF Cancel, Due, Cancellable, Running, Idle
<1>. QED  BY <1>1, <1>2, <1>3, <1>4

-----------------------------------------------------------------------------
(* What an answer is worth was decided when it was made.                    *)

Good == \A r \in Requests :
  Answered(r) => /\ HttpForCause(req[r].pkt, req[r].outcome, req[r].answer)
                 /\ req[r].outcome # "forwarded" => Acceptable(req[r].pkt, req[r].answer)

\* Neither clause looks at anything but the packet, the answer and the configuration.
LEMMA WorthFrame ==
  ASSUME cfg' = cfg, NEW r \in Requests
  PROVE  /\ HttpForCause(req[r].pkt, req[r].outcome, req[r].answer)'
               <=> HttpForCause(req'[r].pkt, req'[r].outcome, req'[r].answer)
         /\ Acceptable(req[r].pkt, req[r].answer)' <=> Acceptable(req'[r].pkt, req'[r].answer)
<1>1. GateView' = GateView
  BY DEF GateView
<1>. QED  BY <1>1 DEF HttpForCause, Acceptable, SignError

\* A step leaves the answers there are alone and makes a good one.
LEMMA GoodStep ==
  ASSUME TypeOK, Good, [Next]_vars
  PROVE  Good'
<1>1. ASSUME NEW r \in Requests, Handle(r) PROVE Good'
  <2>1. TurnedAway(r) \/ Started(r) \/ AnsweredNow(r) \/ Cancel(r)
    BY <1>1, StepOfRequest
  <2>2. cfg' = cfg /\ \A s \in Requests : s # r => req'[s] = req[s]
    BY <2>1, StepFrame
  <2>3. ASSUME NEW s \in Requests, Answered(s)'
        PROVE  /\ HttpForCause(req'[s].pkt, req'[s].outcome, req'[s].answer)
               /\ req'[s].outcome # "forwarded" => Acceptable(req'[s].pkt, req'[s].answer)
    <3>1. CASE s = r
      BY <3>1, <2>1, <2>3, StepRecord DEF Answered
    <3>2. CASE s # r
      BY <3>2, <2>2, <2>3 DEF Good, Answered
    <3>. QED  BY <3>1, <3>2
  <2>. QED  BY <2>2, <2>3, WorthFrame DEF Good
<1>2. ASSUME cfg' = cfg, req' = req PROVE Good'
  BY <1>2, WorthFrame DEF Good, Answered
<1>. QED  BY <1>1, <1>2 DEF Next, vars, RegisterHandler, ClearHandlers, Tick

\* Every answer is good.
LEMMA GoodAlways == Spec => []Good
<1>1. Init => Good
  BY DEF Init, Good, Answered, Idle
<1>. QED  BY <1>1, GoodStep, TypeCorrect, PTL DEF Spec

\* A bare HTTP error has one of five causes: the body, the signing key, a blank
\* message that is to be exposed, or one of the request's two dates.
THEOREM HttpErrorsForCause == Spec => []HttpOnlyWhenNoPacketCanBe
<1>1. Good => HttpOnlyWhenNoPacketCanBe
  BY DEF Good, HttpForCause, HttpOnlyWhenNoPacketCanBe
<1>. QED  BY <1>1, GoodAlways, PTL

\* The answers the SDK builds answer their request, and pass Gate's validation
\* exactly when they are not too large and no delegation they inherit has expired.
THEOREM AnswersAreAccepted == Spec => []AnswersAccepted
<1>1. Good => AnswersAccepted
  BY DEF Good, Acceptable, AnswersAccepted, ByPacket, AnswerPacket
<1>. QED  BY <1>1, GoodAlways, PTL

-----------------------------------------------------------------------------
(* Late answers.  The instants at which the loop was held are not forgotten, *)
(* and time passes a deadline only at one of them.                           *)

OnTime ==
  /\ \A r \in Requests : req[r].pc = "idle" => req[r].since = 0 /\ req[r].answer.at = 0
  /\ \A r \in Requests : Executed(r) => req[r].handler # None
  /\ LateOnlyBehindSync

\* A deadline is an instant.
LEMMA DeadlineType ==
  ASSUME TypeOK, NEW r \in Requests, req[r].pc # "idle"
  PROVE  Deadline(r) \in Nat
<1>1. req[r].pkt \in Inbound /\ req[r].since \in Nat
  BY DEF TypeOK
<1>2. req[r].pkt.core.timeout \in Nat
  BY <1>1, FieldAssumption DEF FieldAssumption
<1>. QED  BY <1>1, <1>2 DEF Deadline

\* What was held before now stays held before now.
LEMMA HeldStays ==
  ASSUME TypeOK, OnTime, NEW t \in Int, t < now, HeldAt(t),
         \A s \in Requests :
           \/ req'[s] = req[s]
           \/ req[s].pc = "idle"
           \/ /\ req'[s].handler = req[s].handler /\ req'[s].since = req[s].since
              /\ Running(s) /\ (req'[s].pc = "running" \/ req'[s].answer.at = now)
  PROVE  HeldAt(t)'
<1>1. PICK s \in Requests : /\ req[s].handler = "sync" /\ req[s].since <= t
                            /\ Running(s) \/ t < req[s].answer.at
  BY DEF HeldAt
<1>2. req[s].pc # "idle"
  BY <1>1 DEF OnTime, Running
<1>3. /\ req'[s].handler = "sync" /\ req'[s].since <= t
      /\ req'[s].pc = "running" \/ t < req'[s].answer.at
  BY <1>1, <1>2 DEF Running
<1>. QED  BY <1>3 DEF HeldAt, Running

\* The instants of a request are instants.
LEMMA UntilType ==
  ASSUME TypeOK, NEW r \in Requests
  PROVE  now \in Nat /\ Until(r) \in 0..now
<1>1. now \in Nat /\ req[r].answer.at \in 0..now /\ req[r].cancelled \in (0..now) \cup {None}
  BY RuntimeAssumption DEF TypeOK, RuntimeAssumption
<1>. QED  BY <1>1 DEF Until

\* Where a request's own end does not move, and the loop's past stays, it is not late.
LEMMA NotLate ==
  ASSUME TypeOK, NEW r \in Requests, Executed(r)', Executed(r), LateOnlyBehindSync,
         req'[r].pkt = req[r].pkt, req'[r].since = req[r].since, Until(r)' = Until(r),
         \A t \in Int : t < now /\ HeldAt(t) => HeldAt(t)'
  PROVE  \A t \in (Deadline(r)..(Until(r) - 1))' : HeldAt(t)'
<1>1. Deadline(r)' = Deadline(r)
  BY DEF Deadline
<1>2. Until(r) \in 0..now /\ now \in Nat
  BY UntilType
<1>3. Deadline(r) \in Nat
  BY DeadlineType DEF Executed, Running, Answered
<1>. SUFFICES ASSUME NEW t \in Deadline(r)..(Until(r) - 1) PROVE HeldAt(t)'
  BY <1>1
<1>4. t \in Int /\ t < now
  BY <1>2, <1>3
<1>5. HeldAt(t)
  BY DEF LateOnlyBehindSync
<1>. QED  BY <1>4, <1>5

\* A step that makes a request late finds the loop held.
LEMMA OnTimeStep ==
  ASSUME TypeOK, OnTime, [Next]_vars
  PROVE  OnTime'
<1>0. now \in Nat
  BY RuntimeAssumption DEF TypeOK, RuntimeAssumption
<1>1. ASSUME NEW r \in Requests, Handle(r) PROVE OnTime'
  <2>1. TurnedAway(r) \/ Started(r) \/ AnsweredNow(r) \/ Cancel(r)
    BY <1>1, StepOfRequest
  <2>2. now' = now /\ \A s \in Requests : s # r => req'[s] = req[s]
    BY <2>1, StepFrame
  <2>3. \A t \in Int : t < now /\ HeldAt(t) => HeldAt(t)'
    <3>1. \A s \in Requests :
            \/ req'[s] = req[s]
            \/ req[s].pc = "idle"
            \/ /\ req'[s].handler = req[s].handler /\ req'[s].since = req[s].since
               /\ Running(s) /\ (req'[s].pc = "running" \/ req'[s].answer.at = now)
      BY <2>1, <2>2, StepRecord
    <3>. QED  BY <3>1, HeldStays
  <2>4. ASSUME NEW s \in Requests, Executed(s)'
        PROVE  \A t \in (Deadline(s)..(Until(s) - 1))' : HeldAt(t)'
    <3>1. CASE s # r
      <4>1. Executed(s) /\ Until(s)' = Until(s)
        BY <3>1, <2>2, <2>4 DEF Executed, Running, Answered, Until
      <4>. QED  BY <3>1, <4>1, <2>2, <2>3, <2>4, NotLate DEF OnTime
    <3>2. CASE s = r /\ TurnedAway(r)
      BY <3>2, <2>4, StepRecord DEF Executed, Running, Answered
    <3>3. CASE s = r /\ Started(r)
      <4>1. /\ req'[r].pc = "running" /\ req'[r].pkt \in Inbound /\ req'[r].since = now
            /\ req'[r].cancelled = None
        BY <3>3, StepRecord
      <4>2. req'[r].pkt.core.timeout \in Nat
        BY <4>1, FieldAssumption DEF FieldAssumption
      <4>3. Until(r)' = now /\ Deadline(r)' = now + req'[r].pkt.core.timeout
        BY <4>1, <2>2 DEF Until, Deadline, Answered
      <4>4. Deadline(r)' >= Until(r)' /\ Until(r)' \in Nat /\ Deadline(r)' \in Nat
        BY <4>2, <4>3, <1>0
      <4>. QED  BY <3>3, <4>4
    <3>4. CASE s = r /\ AnsweredNow(r)
      <4>1. Until(r)' = Until(r)
        BY <3>4, <2>2, StepRecord DEF Until, Running, Answered
      <4>2. Executed(r) /\ req'[r].pkt = req[r].pkt /\ req'[r].since = req[r].since
        BY <3>4, StepRecord DEF Executed
      <4>. QED  BY <3>4, <4>1, <4>2, <2>3, <2>4, NotLate DEF OnTime
    <3>5. CASE s = r /\ Cancel(r)
      <4>1. Until(r)' = Until(r)
        BY <3>5, <2>2, StepRecord DEF Until, Running, Answered
      <4>2. Executed(r) /\ req'[r].pkt = req[r].pkt /\ req'[r].since = req[r].since
        BY <3>5, StepRecord DEF Executed
      <4>. QED  BY <3>5, <4>1, <4>2, <2>3, <2>4, NotLate DEF OnTime
    <3>. QED  BY <2>1, <3>1, <3>2, <3>3, <3>4, <3>5
  <2>5. LateOnlyBehindSync'
    BY <2>4 DEF LateOnlyBehindSync
  <2>6. ASSUME NEW s \in Requests
        PROVE  /\ req'[s].pc = "idle" => req'[s].since = 0 /\ req'[s].answer.at = 0
               /\ Executed(s)' => req'[s].handler # None
    BY <2>1, <2>2, StepRecord DEF OnTime, Executed, Running, Answered
  <2>. QED  BY <2>5, <2>6 DEF OnTime
<1>2. ASSUME Tick PROVE OnTime'
  <2>1. req' = req /\ now' = now + 1 /\ (Blocked \/ \A r \in Requests : ~Due(r))
    BY <1>2 DEF Tick
  <2>2. \A t \in Int : HeldAt(t) => HeldAt(t)'
    BY <2>1 DEF HeldAt, Running
  <2>3. ASSUME NEW r \in Requests, Executed(r)'
        PROVE  \A t \in (Deadline(r)..(Until(r) - 1))' : HeldAt(t)'
    <3>1. Executed(r) /\ Deadline(r)' = Deadline(r)
      BY <2>1, <2>3 DEF Executed, Running, Answered, Deadline
    <3>2. Deadline(r) \in Nat
      BY <3>1, DeadlineType DEF Executed, Running, Answered
    <3>3. CASE Until(r)' = Until(r)
      BY <3>1, <3>3, <2>1, <2>2, <2>3, NotLate DEF OnTime
    <3>4. CASE Until(r)' # Until(r)
      <4>1. Running(r) /\ req[r].cancelled = None /\ Until(r) = now /\ Until(r)' = now + 1
        BY <3>1, <3>4, <2>1 DEF Executed, Running, Answered, Until
      <4>. SUFFICES ASSUME NEW t \in Deadline(r)..now PROVE HeldAt(t)
        BY <4>1, <3>1, <3>2, <1>0, <2>2
      <4>2. CASE t < now
        <5>1. t \in Deadline(r)..(Until(r) - 1)
          BY <4>1, <4>2, <3>2, <1>0
        <5>. QED  BY <5>1, <3>1 DEF OnTime, LateOnlyBehindSync
      <4>3. CASE t = now
        <5>1. \E s \in Requests : Running(s) /\ req[s].handler = "sync"
          <6>1. CASE req[r].handler = "sync"
            BY <6>1, <4>1
          <6>2. CASE req[r].handler # "sync"
            <7>1. Due(r)
              BY <6>2, <4>1, <4>3, <3>2, <1>0 DEF Due, Cancellable
            <7>. QED  BY <7>1, <2>1 DEF Blocked
          <6>. QED  BY <6>1, <6>2
        <5>2. PICK s \in Requests : Running(s) /\ req[s].handler = "sync"
          BY <5>1
        <5>3. req[s].since <= now
          BY <1>0 DEF TypeOK
        <5>. QED  BY <5>2, <5>3, <4>3 DEF HeldAt
      <4>. QED  BY <4>2, <4>3, <3>2, <1>0
    <3>. QED  BY <3>3, <3>4
  <2>4. LateOnlyBehindSync'
    BY <2>3 DEF LateOnlyBehindSync
  <2>. QED  BY <2>1, <2>4 DEF OnTime, Executed, Running, Answered
<1>3. ASSUME now' = now, req' = req PROVE OnTime'
  <2>1. LateOnlyBehindSync' <=> LateOnlyBehindSync
    BY <1>3 DEF LateOnlyBehindSync, HeldAt, Until, Executed, Running, Answered, Deadline
  <2>. QED  BY <1>3, <2>1 DEF OnTime, Executed, Running, Answered
<1>. QED  BY <1>1, <1>2, <1>3 DEF Next, vars, RegisterHandler, ClearHandlers

\* A handler overruns its budget only as long as some handler holds the loop.
THEOREM LateForCause == Spec => []LateOnlyBehindSync
<1>1. Init => OnTime
  BY DEF Init, OnTime, LateOnlyBehindSync, Executed, Running, Answered, Idle, NoAnswer
<1>2. OnTime => LateOnlyBehindSync
  BY DEF OnTime
<1>. QED  BY <1>1, <1>2, OnTimeStep, TypeCorrect, PTL DEF Spec
=============================================================================

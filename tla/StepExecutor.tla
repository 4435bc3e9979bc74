---------------------------- MODULE StepExecutor ----------------------------
(***************************************************************************)
(* The steps of one workflow: an orchestrator's handler calls execute_step *)
(* for each, in order, and each attempt goes through GateClient._exchange: *)
(* policy, signature, validation, deadline, one POST, and the answer's     *)
(* status, decoding and validation.  Step s of the workflow is action s.   *)
(*                                                                         *)
(* Between two awaits nothing else happens: building the step packet up to *)
(* the POST is one action, and so is everything from the reply to the next *)
(* await.  The handler runs inside the runtime's asyncio.wait_for, which   *)
(* cancels it at its budget, unless it is driven from outside a node.      *)
(*                                                                         *)
(* Gate and the network are external.  Gate executes a step by a worker,   *)
(* refuses it, or, under an idempotency key, returns the packet it has     *)
(* cached for the key; a POST may arrive late, and a reply may be lost or  *)
(* replaced by a proxy's.                                                  *)
(***************************************************************************)
EXTENDS GateExchange

CONSTANTS
  Node,      \* the orchestrator (source_node of the StepExecutor)
  Steps,     \* how many steps the workflow has
  Setups,    \* [client, policy, parent, payloads, budget, gateKey] of a workflow
  MaxTime    \* bound: the clock's last instant, but for a running deadline

\* What an attempt may raise inside execute_step's try.
Errors == GateErrors \cup {"StepExecutionError", "ValueError"}

ASSUME StepAssumption ==
  /\ None \notin Errors \cup {"TransportAuthenticationError"}
  /\ Steps \in Nat \ {0}
  /\ MaxTime \in Nat
  /\ \A w \in Setups :
       /\ w.policy.max \in Nat \ {0}
       /\ {"id", "type", "action", "created", "expires", "notBefore", "timeout", "idem", "replay",
           "src", "dst", "payload", "origin", "asked", "original", "audited", "links", "until",
           "attached", "defects"} \subseteq DOMAIN w.parent.core
       /\ {w.parent.core.expires, w.parent.core.notBefore, w.parent.core.until}
            \subseteq Int \cup {None}
       /\ w.parent.core.timeout \in Nat /\ w.parent.core.links \in Nat
       /\ w.client.margin \in Nat
       /\ w.client.unloadable \in {None, "TransportAuthenticationError", "ValueError"}
       /\ w.client.ceiling \in Nat \cup {None}

VARIABLES
  now,       \* the clock
  work,      \* the setup of this workflow
  step,      \* the step the handler is at
  attempt,   \* the attempts of this step begun so far
  phase,     \* ready, waiting, backoff; done, failed, raised, cancelled
  error,     \* last_error
  deadline,  \* when the current attempt times out
  reply,     \* what has come back on the current connection
  results,   \* what execute_step has returned, step by step
  wire,      \* the POSTs that have not reached Gate
  sent,      \* history: the ids of the packets POSTed
  ran,       \* history: the ids of the packets a worker has executed
  cache      \* the packet Gate keeps for the workflow's key, if any

client == <<step, attempt, phase, error, deadline, reply, results>>
gate == <<ran, cache>>
vars == <<now, work, client, wire, sent, gate>>

Live == {"ready", "waiting", "backoff"}
Over == {"done", "failed", "raised", "cancelled"}

-----------------------------------------------------------------------------
(* The step packet.                                                         *)

\* Variant for mutation: each attempt is an operation of its own.
StepCore_Unkeyed(p, s, n, at) ==
  [Child(p, <<s, n>>, at) EXCEPT
     !.type = "request", !.action = s, !.src = Node, !.dst = Gate, !.replyTo = Node,
     !.payload = work.payloads[s], !.idem = None,
     !.origin = "node", !.asked = s, !.original = Node, !.resolved = FALSE, !.route = None]

\* build_step_packet: the n-th attempt of step s is a child of the workflow's
\* packet, and shares its idempotency key, deadlines, replay mode and delegations;
\* its payload is the step's own.
StepCore(p, s, n, at) ==
  [Child(p, <<s, n>>, at) EXCEPT
     !.type = "request", !.action = s, !.src = Node, !.dst = Gate, !.replyTo = Node,
     !.payload = work.payloads[s],
     !.origin = "node", !.asked = s, !.original = Node, !.resolved = FALSE, !.route = None]

\* The packet of an attempt made at that instant, around its core.
StepPacket(s, n, at) == Unsigned(StepCore(work.parent, s, n, at), work.parent.restricted)

\* build_step_packet builds one: the action is not blank and the payload one that
\* JSON can hold (payloads[s] is None when not), and derive finds the dates in order.
Buildable(s, n, at) == work.payloads[s] # None /\ HeaderOK(StepCore(work.parent, s, n, at))

-----------------------------------------------------------------------------
(* Judging an attempt.                                                      *)

\* Variant for mutation: a failure is recognised by the packet's type alone.
Failure_TypeOnly(p) == p.core.type = "failure"

\* _ensure_success_response.
Failure(p) == p.core.type = "failure" \/ p.core.payload.status \in {"failed", "failure", "error"}

\* execute_step's verdict on a reply.
StepError(r) ==
  LET raised == ReplyError(work.client, r, now)
  IN  IF raised # None THEN raised
      ELSE IF Failure(r.pkt) THEN "StepExecutionError" ELSE None

\* The names in the error's MRO.
Family(e) ==
  {e, "Exception"} \cup
    CASE e = "StepExecutionError" -> {"RuntimeError"}
      [] e = "GateAuthorizationError" -> {"GateHTTPError", "GateClientError"}
      [] e = "GateTimeoutError" -> {"GateClientError", "TimeoutError", "OSError"}
      [] e \in {"GateConfigurationError", "GatePolicyError", "GateResponseError"} ->
           {"GateClientError", "ValueError"}
      [] e = "ValueError" -> {}
      [] OTHER -> {"GateClientError"}

\* Variants for mutation: one attempt too many; every error is retried.
ShouldRetry_OneMore(n, e) ==
  n <= work.policy.max /\ Family(e) \cap work.policy.retryable # {}
ShouldRetry_Anything(n, e) == n < work.policy.max

\* should_retry: after the n-th attempt failed with e.
ShouldRetry(n, e) == n < work.policy.max /\ Family(e) \cap work.policy.retryable # {}

\* The except clause of execute_step.
AttemptFailed(n, e) ==
  /\ error' = e
  /\ phase' = IF ShouldRetry(n, e) THEN "backoff" ELSE "failed"
  /\ reply' = NoReply

-----------------------------------------------------------------------------
(* The orchestrator's actions.                                              *)

\* The runtime's timer for this handler has gone off.
Due == work.budget # None /\ now >= work.budget /\ phase \in Live

NextPacket == StepPacket(step, attempt + 1, now)
CanBuild == Buildable(step, attempt + 1, now)

\* The handler reaches execute_step, or a backoff ends: the next attempt.
AtAttempt == phase \in {"ready", "backoff"} /\ ~Due

Init ==
  /\ now = 0
  /\ work \in Setups
  /\ step = 1 /\ attempt = 0 /\ phase = "ready" /\ error = None
  /\ deadline = 0 /\ reply = NoReply
  /\ results = <<>>
  /\ wire = {} /\ sent = {} /\ ran = {} /\ cache = {}

\* build_step_packet raises, outside the try: the exception leaves execute_step.
BuildFails ==
  /\ AtAttempt
  /\ ~CanBuild
  /\ attempt' = attempt + 1 /\ phase' = "raised"
  /\ UNCHANGED <<now, work, step, error, deadline, reply, results, wire, sent, gate>>

\* send_to_gate raises before the POST.
SendFails ==
  /\ AtAttempt
  /\ CanBuild /\ SendError(work.client, NextPacket, now) # None
  /\ attempt' = attempt + 1
  /\ AttemptFailed(attempt + 1, SendError(work.client, NextPacket, now))
  /\ UNCHANGED <<now, work, step, deadline, results, wire, sent, gate>>

\* post_packet_json: the one POST of an attempt.
Post ==
  /\ AtAttempt
  /\ CanBuild /\ SendError(work.client, NextPacket, now) = None
  /\ attempt' = attempt + 1 /\ phase' = "waiting"
  /\ deadline' = now + Budget(work.client, NextPacket)
  /\ wire' = wire \cup {MaybeSign(work.client, NextPacket)}
  /\ sent' = sent \cup {NextPacket.core.id}
  /\ UNCHANGED <<now, work, step, error, reply, results, gate>>

\* Variant for mutation: the request has no timeout.
TimedOut_Never == FALSE
TimedOut == now >= deadline

\* httpx.TimeoutException.  The request may still reach Gate.
TimeOut ==
  /\ phase = "waiting" /\ ~Due
  /\ TimedOut
  /\ AttemptFailed(attempt, "GateTimeoutError")
  /\ UNCHANGED <<now, work, step, attempt, deadline, results, wire, sent, gate>>

\* Any other httpx.HTTPError: Gate was not reached, or the connection broke,
\* before the request arrived, on its way, or after.
Disconnect ==
  /\ phase = "waiting" /\ ~Due
  /\ AttemptFailed(attempt, "GateConnectionError")
  /\ \/ UNCHANGED wire
     \/ wire' = {p \in wire : p.core.id # <<step, attempt>>}
  /\ UNCHANGED <<now, work, step, attempt, deadline, results, sent, gate>>

\* The reply is the step's answer: the handler goes on to the next step, or ends.
Accept ==
  /\ phase = "waiting" /\ reply # NoReply /\ ~Due
  /\ StepError(reply) = None
  /\ results' = Append(results, reply.pkt)
  /\ IF step = Steps
       THEN phase' = "done" /\ UNCHANGED <<step, attempt>>
       ELSE phase' = "ready" /\ step' = step + 1 /\ attempt' = 0
  /\ error' = None /\ reply' = NoReply
  /\ UNCHANGED <<now, work, deadline, wire, sent, gate>>

\* The reply is an error.
Reject ==
  /\ phase = "waiting" /\ reply # NoReply /\ ~Due
  /\ StepError(reply) # None
  /\ AttemptFailed(attempt, StepError(reply))
  /\ UNCHANGED <<now, work, step, attempt, deadline, results, wire, sent, gate>>

\* wait_for cancels the handler where it awaits; CancelledError is no Exception.
Cancel ==
  /\ Due
  /\ phase' = "cancelled" /\ reply' = NoReply
  /\ UNCHANGED <<now, work, step, attempt, error, deadline, results, wire, sent, gate>>

-----------------------------------------------------------------------------
(* Gate, its workers and the network (external).                            *)

\* A packet Gate answers p with, for the run id.
Answer(p, type, status, id) ==
  LET a == Unsigned(AnswerCore(p, <<"answer", id>>, now, type, Gate,
                               [status |-> status, run |-> id]), p.restricted)
  IN  IF work.gateKey = None THEN a ELSE SignedBy(a, work.gateKey)

\* A reply to p goes back on p's connection, if the client still holds it.
Send(p, r) ==
  reply' = IF phase = "waiting" /\ p.core.id = <<step, attempt>> THEN r ELSE reply

Arrived(p) == wire' = wire \ {p}

\* A POST arrives and a worker executes it.
Execute ==
  \E p \in wire, how \in {<<"response", "completed">>, <<"response", "failed">>,
                          <<"failure", "failed">>} :
    LET q == Answer(p, how[1], how[2], p.core.id) IN
    /\ p.core.idem # None => cache = {}
    /\ Arrived(p)
    /\ ran' = ran \cup {p.core.id}
    /\ cache' = IF p.core.idem # None THEN {q} ELSE cache
    /\ Send(p, AsPacket(q))
    /\ UNCHANGED <<now, work, step, attempt, phase, error, deadline, results, sent>>

\* A POST arrives and Gate has an answer for its idempotency key.
ServeCached ==
  \E p \in wire, q \in cache :
    /\ p.core.idem # None
    /\ Arrived(p)
    /\ Send(p, AsPacket(q))
    /\ UNCHANGED <<now, work, step, attempt, phase, error, deadline, results, sent, gate>>

\* A POST arrives and Gate refuses it before any worker has it.
Refuse ==
  \E p \in wire, code \in {403, 503} :
    /\ Arrived(p)
    /\ Send(p, AsStatus(code))
    /\ UNCHANGED <<now, work, step, attempt, phase, error, deadline, results, sent, gate>>

\* On its way back a packet is replaced by a gateway's status or page, or damaged.
Garble ==
  /\ phase = "waiting" /\ reply.kind = "packet"
  /\ reply' \in {AsStatus(504), [reply EXCEPT !.kind = "page"],
                 [reply EXCEPT !.pkt.core.payload.status = "damaged"]}
  /\ UNCHANGED <<now, work, step, attempt, phase, error, deadline, results, wire, sent, gate>>

\* Time passes; a timer that has gone off is served first.
Tick ==
  /\ now < MaxTime \/ (phase = "waiting" /\ now < deadline)
  /\ ~Due
  /\ now' = now + 1
  /\ UNCHANGED <<work, client, wire, sent, gate>>

Next ==
  \/ BuildFails \/ SendFails \/ Post \/ TimeOut \/ Disconnect \/ Accept \/ Reject \/ Cancel
  \/ Execute \/ ServeCached \/ Refuse \/ Garble \/ Tick

Spec == Init /\ [][Next]_vars

\* The clock goes on, a timer that has gone off is served, a reply is read, and
\* the handler goes on to its next attempt.  Gate need never answer.
Fairness ==
  /\ WF_vars(Tick)
  /\ WF_vars(TimeOut) /\ WF_vars(Cancel)
  /\ WF_vars(Accept \/ Reject)
  /\ WF_vars(BuildFails \/ SendFails \/ Post)

FairSpec == Spec /\ Fairness

-----------------------------------------------------------------------------
(* Properties.                                                              *)

Keyed == work.parent.core.idem # None

TypeOK ==
  /\ now \in Nat /\ work \in Setups
  /\ step \in 1..Steps /\ attempt \in 0..work.policy.max
  /\ phase \in Live \cup Over /\ error \in Errors \cup {None} /\ deadline \in Int
  /\ reply = [kind |-> reply.kind, code |-> reply.code, pkt |-> reply.pkt]
  /\ reply.kind \in {"none", "status", "page", "packet"}
  /\ sent \subseteq (1..Steps) \X (1..work.policy.max)
  /\ ran \subseteq sent
  /\ \A p \in wire : p.core.id \in sent
  /\ results \in Seq({results[s] : s \in DOMAIN results}) /\ Len(results) \in 0..Steps

\* What execute_step returns was produced by a worker that executed the step and
\* completed it: no status, page, failure or damaged packet passes for an answer.
\* Under a key the run may be that of an earlier step (execute_step 62-65, _exchange).
ResultsAreRuns ==
  \A s \in DOMAIN results :
    LET id == results[s].core.payload.run IN
    /\ results[s].core.type = "response" /\ results[s].core.payload.status = "completed"
    /\ id \in ran
    /\ id[1] = s \/ (Keyed /\ id[1] < s)

\* Nothing is executed twice under an idempotency key, however often it is posted
\* and however late the POSTs arrive; and with one attempt a step is not either.
NothingRunsTwice ==
  /\ Keyed => \A a, b \in ran : a = b
  /\ work.policy.max = 1 => \A a, b \in ran : a[1] = b[1] => a = b

\* What makes a step packet unsendable: a step no packet can be built of, or whose
\* packet is larger than the client takes; the dates, the delegations and the rest
\* that it inherits, under a not_before all but the very instant; and what the
\* client is, a key it cannot sign with included.
Unsendable ==
  LET c == work.client
      k == work.parent.core
  IN  \/ work.payloads[step] = None
      \/ \E n \in 1..work.policy.max, at \in 0..now :
           Size(MaybeSign(c, StepPacket(step, n, at))) > MaxBytes
      \/ k.expires # None /\ now >= k.expires
      \/ k.notBefore # None /\ \E t \in 0..now : t # k.notBefore
      \/ k.until # None /\ now > k.until
      \/ k.links > MaxLinks \/ (k.attached # None /\ k.attached \notin Attachable)
      \/ k.replay \/ k.defects \ {"mandate"} # {} \/ (work.parent.restricted /\ ~k.audited)
      \/ Node = "client" \/ c.local # Node \/ c.gate # Gate
      \/ c.key # None /\ (~c.keyId \/ c.unloadable # None)
      \/ c.key # None /\ c.alg # "hmac-sha256" /\ c.key \notin c.verifying
      \/ c.key = None /\ c.requireSig
      \/ Budget(c, work.parent) <= 0

\* A workflow fails at a step none of whose attempts was posted only for one of
\* these reasons: any other reaches the wire (_exchange 427-430), with whatever
\* key, ceiling, margin and deadline the packet and the client have.
UnsentOnlyForCause ==
  phase \in {"failed", "raised"} /\ (\A n \in 1..work.policy.max : <<step, n>> \notin sent) => Unsendable

\* A step is posted again only after an error whose type the policy names: an
\* answer that says the step failed ends it under the default policy (66-69).
RepeatedForCause ==
  [][\A id \in sent' \ sent :
       id[2] > 1 => error \in Errors /\ Family(error) \cap work.policy.retryable # {}]_vars

\* The steps of a workflow keep StepContract's promises.
Outcome ==
  [s \in 1..Steps |->
     IF s \in DOMAIN results THEN "answered"
     ELSE IF s = step /\ phase \in {"failed", "raised", "cancelled"} THEN "failed" ELSE "open"]

Contract == INSTANCE StepContract WITH
  keyed <- Keyed, limit <- work.policy.max, posted <- sent, outcome <- Outcome
KeepsContract == Contract!Spec

\* A workflow ends, whether Gate answers or not: each attempt has a deadline, the
\* attempts of a step are bounded, and the handler's own budget ends what is left.
\* (httpx starts its timeout anew with each phase of a request and each chunk of the
\* reply: a Gate that sends its reply a chunk at a time is not in the model.)
WorkflowEnds == <>(phase \in Over)

-----------------------------------------------------------------------------
(* What the documents say.                                                  *)

\* gate/errors.py:74 of GateConnectionError: "No application execution was
\* performed by Gate."
DisconnectedMeansNotRun ==
  phase \in {"backoff", "failed"} /\ error = "GateConnectionError" => <<step, attempt>> \notin ran

\* gate/errors.py:88-90: after a timeout "a retry is only safe under a stable
\* idempotency key": a step that may have been executed is not posted again.
RepeatedOnlyUnderKey ==
  [][\A id \in sent' \ sent :
       error = "GateTimeoutError" /\ id[2] > 1 => Keyed]_vars
=============================================================================

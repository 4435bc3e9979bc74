------------------------- MODULE StepExecutorProofs -------------------------
(***************************************************************************)
(* StepExecutor, proved for every number of steps, every setup and any     *)
(* clock: the invariants of its run, and that it keeps StepContract.       *)
(* Induction needs what the runs' invariants leave out: where the workflow *)
(* is (Progress), what is on the wire (Wire), and that what comes back, as *)
(* far as it is intact, was made by Gate for a run (Back, Kept).           *)
(***************************************************************************)
EXTENDS StepExecutor, PacketProofs

\* A packet with the fields the proofs look at.
Shaped(p) ==
  /\ {"core", "hash"} \subseteq DOMAIN p
  /\ {"id", "type", "payload", "idem"} \subseteq DOMAIN p.core

\* An answer of Gate: its payload says how the run ended.
Genuine(q) ==
  /\ q.core.payload.run \in ran
  /\ q.core.payload.status \in {"completed", "failed"}
  /\ q.core.type \in {"response", "failure"}

\* The run behind an answer is one of the current step's, or any of the key's.
ForStep(q) == q.core.payload.run[1] = step \/ Keyed

\* Where the workflow is.
Progress ==
  /\ Len(results) = IF phase = "done" THEN step ELSE step - 1
  /\ phase = "done" => step = Steps
  /\ phase = "ready" => attempt = 0
  /\ phase = "waiting" => attempt > 0
  /\ phase = "backoff" => /\ attempt < work.policy.max
                          /\ error \in Errors
                          /\ Family(error) \cap work.policy.retryable # {}
  /\ \A id \in sent : id[1] < step \/ (id[1] = step /\ id[2] <= attempt)

\* A POST on the wire has not run, and there is one for each id.
Wire ==
  \A p \in wire :
    /\ Shaped(p)
    /\ p.core.id \in sent \ ran
    /\ p.core.idem = work.parent.core.idem
    /\ \A q \in wire : q.core.id = p.core.id => q = p

\* What came back for the current attempt.
Back ==
  /\ phase # "waiting" => reply.kind = "none"
  /\ reply.kind = "none" => reply = NoReply
  /\ reply.kind = "packet" =>
       /\ Shaped(reply.pkt) /\ {"status", "run"} \subseteq DOMAIN reply.pkt.core.payload
       /\ reply.pkt.hash.payload.status \in {"completed", "failed"}
       /\ Intact(reply.pkt) => Genuine(reply.pkt) /\ ForStep(reply.pkt)

\* What Gate keeps for the key.
Kept ==
  /\ \A q \in cache :
       /\ Keyed /\ Shaped(q) /\ {"status", "run"} \subseteq DOMAIN q.core.payload
       /\ Intact(q) /\ Genuine(q)
  /\ Keyed /\ cache = {} => ran = {}
  /\ Keyed => \A a, b \in ran : a = b

IInv == TypeOK /\ Progress /\ Wire /\ Back /\ Kept /\ ResultsAreRuns

\* The core of the packet the next attempt sends.
NextCore == StepCore(work.parent, step, attempt + 1, now)

-----------------------------------------------------------------------------
(* Packets.                                                                 *)

LEMMA NextIs == NextPacket.core = NextCore
BY DEF NextPacket, StepPacket, NextCore, Unsigned

\* What the step packet is, and keeps of its parent.
LEMMA StepCoreFields ==
  ASSUME work \in Setups, NEW s, NEW n, NEW at
  PROVE  LET c == StepCore(work.parent, s, n, at) IN
         /\ {"id", "type", "payload", "idem"} \subseteq DOMAIN c
         /\ c.id = <<s, n>> /\ c.idem = work.parent.core.idem
         /\ c.timeout = work.parent.core.timeout
<1>1. {"id", "type", "payload", "idem", "timeout"} \subseteq DOMAIN work.parent.core
  BY StepAssumption
<1> QED
  BY <1>1 DEF StepCore, Child

\* Signing changes neither the core nor the hash of a new packet.
LEMMA SignedFields ==
  ASSUME NEW core, NEW restricted, NEW key
  PROVE  LET p == Unsigned(core, restricted) IN
         /\ p.core = core /\ SignedBy(p, key).core = core
         /\ p.hash = core /\ SignedBy(p, key).hash = core
         /\ {"core", "hash"} \subseteq DOMAIN p
         /\ {"core", "hash"} \subseteq DOMAIN SignedBy(p, key)
BY DEF Unsigned, SignedBy, TransportHash

LEMMA PostedFields ==
  ASSUME work \in Setups, NEW s, NEW n, NEW at
  PROVE  LET p == MaybeSign(work.client, StepPacket(s, n, at)) IN
         Shaped(p) /\ p.core.id = <<s, n>> /\ p.core.idem = work.parent.core.idem
<1> DEFINE c == StepCore(work.parent, s, n, at)
           u == Unsigned(c, work.parent.restricted)
<1>1. /\ {"id", "type", "payload", "idem"} \subseteq DOMAIN c
      /\ c.id = <<s, n>> /\ c.idem = work.parent.core.idem
  BY StepCoreFields
<1> HIDE DEF c
<1>2. MaybeSign(work.client, u) \in {u, SignedBy(u, work.client.key)}
  BY DEF MaybeSign
<1>3. LET p == MaybeSign(work.client, u) IN
      Shaped(p) /\ p.core.id = <<s, n>> /\ p.core.idem = work.parent.core.idem
  BY <1>1, <1>2, SignedFields DEF Shaped
<1> QED
  BY <1>3 DEF c, StepPacket

\* What Gate makes of a packet.
LEMMA AnswerFields ==
  ASSUME NEW p, Shaped(p), NEW type, NEW status, NEW id
  PROVE  LET q == Answer(p, type, status, id) IN
         /\ Shaped(q) /\ {"status", "run"} \subseteq DOMAIN q.core.payload
         /\ Intact(q) /\ q.hash = q.core
         /\ q.core.type = type /\ q.core.payload = [status |-> status, run |-> id]
<1> DEFINE c == AnswerCore(p, <<"answer", id>>, now, type, Gate, [status |-> status, run |-> id])
<1>1. /\ {"id", "type", "payload", "idem"} \subseteq DOMAIN c
      /\ c.type = type /\ c.payload = [status |-> status, run |-> id]
  BY DEF AnswerCore, Child, Shaped
<1> HIDE DEF c
<1> DEFINE u == Unsigned(c, p.restricted)
<1>2. Answer(p, type, status, id) \in {u, SignedBy(u, work.gateKey)}
  BY DEF Answer, c
<1>3. {"status", "run"} \subseteq DOMAIN c.payload
  BY <1>1
<1> QED
  BY <1>1, <1>2, <1>3, SignedFields DEF Shaped, Intact, TransportHash

-----------------------------------------------------------------------------
(* Errors and verdicts.                                                     *)

LEMMA SendErrorType ==
  ASSUME NEW c, NEW p, NEW at,
         c.unloadable \in {None, "TransportAuthenticationError", "ValueError"}
  PROVE  SendError(c, p, at) \in Errors \cup {None}
<1> DEFINE unsigned == SigningError(c, "GateConfigurationError", "GateSecurityError")
<1>1. unsigned \in Errors \cup {None}
  BY DEF SigningError, Errors, GateErrors
<1> HIDE DEF unsigned
<1> QED
  BY <1>1 DEF SendError, Errors, GateErrors, unsigned

LEMMA ReplyErrorType ==
  ASSUME NEW c, NEW r, NEW at, r.kind \in {"status", "page", "packet"}
  PROVE  ReplyError(c, r, at) \in Errors \cup {None}
BY DEF ReplyError, Errors, GateErrors

LEMMA StepErrorType ==
  ASSUME NEW r, r.kind \in {"status", "page", "packet"}
  PROVE  StepError(r) \in Errors \cup {None}
BY ReplyErrorType DEF StepError, Errors, GateErrors

\* Only an intact packet that reports no failure is accepted.
LEMMA Accepted ==
  ASSUME NEW r, r.kind \in {"status", "page", "packet"}, StepError(r) = None
  PROVE  r.kind = "packet" /\ Intact(r.pkt) /\ ~Failure(r.pkt)
<1>1. ReplyError(work.client, r, now) = None /\ ~Failure(r.pkt)
  BY StepAssumption DEF StepError, Errors, GateErrors
<1> QED
  BY <1>1, StepAssumption DEF ReplyError, Errors, GateErrors

\* What an attempt's failure leaves.
LEMMA FailureLeaves ==
  ASSUME work \in Setups, NEW n \in 1..work.policy.max, NEW e \in Errors, AttemptFailed(n, e)
  PROVE  /\ error' = e /\ reply' = NoReply /\ phase' \in {"backoff", "failed"}
         /\ phase' = "backoff" => n < work.policy.max /\ Family(e) \cap work.policy.retryable # {}
BY DEF AttemptFailed, ShouldRetry

-----------------------------------------------------------------------------
(* The invariant.                                                           *)

LEMMA InitIInv == Init => IInv
<1> SUFFICES ASSUME Init PROVE IInv
  OBVIOUS
<1> USE DEF Init
<1>1. TypeOK
  <2>1. 0 \in 0..work.policy.max /\ Steps \in Nat \ {0} /\ 1 \in 1..Steps /\ 0 \in 0..Steps
    BY StepAssumption
  <2>2. results \in Seq({results[t] : t \in DOMAIN results}) /\ Len(results) = 0
    OBVIOUS
  <2> QED
    BY <2>1, <2>2 DEF TypeOK, Live, Over, NoReply
<1>2. Progress
  BY StepAssumption DEF Progress
<1>3. Wire /\ Kept /\ ResultsAreRuns
  BY DEF Wire, Kept, ResultsAreRuns
<1>4. Back
  BY DEF Back, NoReply
<1> QED
  BY <1>1, <1>2, <1>3, <1>4 DEF IInv

\* The POSTs made are of steps reached and attempts begun.
LEMMA SentIds ==
  ASSUME IInv, NEW id \in sent
  PROVE  /\ id = <<id[1], id[2]>> /\ id[1] \in 1..Steps /\ id[2] \in 1..work.policy.max
         /\ id[1] \in Nat /\ id[2] \in Nat /\ id[1] <= step
<1>1. work \in Setups /\ work.policy.max \in Nat /\ Steps \in Nat /\ step \in 1..Steps
  BY StepAssumption DEF IInv, TypeOK
<1>2. id \in (1..Steps) \X (1..work.policy.max)
  BY DEF IInv, TypeOK
<1>3. id[1] < step \/ id[1] = step
  BY DEF IInv, Progress
<1> QED
  BY <1>1, <1>2, <1>3

\* A step that ends an attempt, or the workflow, without an answer.
LEMMA QuietStep ==
  ASSUME IInv, phase \in Live,
         work' = work, now' = now, deadline' = deadline, step' = step, results' = results,
         sent' = sent, ran' = ran, cache' = cache, wire' \subseteq wire, reply' = NoReply,
         attempt' \in 0..work.policy.max, attempt <= attempt', error' \in Errors \cup {None},
         phase' \in {"backoff", "failed", "raised", "cancelled"},
         phase' = "backoff" => /\ attempt' < work.policy.max /\ error' \in Errors
                               /\ Family(error') \cap work.policy.retryable # {}
  PROVE  IInv'
<1> USE DEF IInv
<1>0. step \in 1..Steps /\ attempt \in 0..work.policy.max /\ work \in Setups
      /\ work.policy.max \in Nat
  BY StepAssumption DEF TypeOK
<1>1. TypeOK'
  BY <1>0 DEF TypeOK, Live, Over, NoReply
<1>2. Progress'
  <2>1. \A id \in sent : id[1] < step \/ (id[1] = step /\ id[2] <= attempt')
    <3>1. \A id \in sent : id[2] \in Nat
      BY <1>0 DEF TypeOK
    <3> QED
      BY <1>0, <3>1 DEF Progress
  <2>2. Len(results) = step - 1
    BY DEF Progress, Live
  <2> QED
    BY <2>1, <2>2 DEF Progress
<1>3. Wire'
  BY DEF Wire, Shaped
<1>4. Back'
  BY DEF Back, NoReply
<1>5. Kept'
  BY DEF Kept, Genuine, Keyed
<1>6. ResultsAreRuns'
  BY DEF ResultsAreRuns, Keyed
<1> QED
  BY <1>1, <1>2, <1>3, <1>4, <1>5, <1>6

\* What the actions that end an attempt in an error have in common.
LEMMA AttemptEnds ==
  ASSUME IInv, BuildFails \/ SendFails \/ TimeOut \/ Disconnect \/ Reject \/ Cancel
  PROVE  IInv'
<1> USE DEF IInv
<1>0. /\ work \in Setups /\ attempt \in 0..work.policy.max /\ work.policy.max \in Nat \ {0}
      /\ error \in Errors \cup {None}
  BY StepAssumption DEF TypeOK
<1>1. CASE BuildFails
  <2>1. attempt < work.policy.max /\ phase \in Live /\ reply = NoReply
    BY <1>0, <1>1 DEF BuildFails, AtAttempt, Progress, Back, Live
  <2> QED
    BY <1>0, <1>1, <2>1, QuietStep DEF BuildFails, gate
<1>2. CASE SendFails
  <2>1. attempt < work.policy.max /\ phase \in Live
    BY <1>0, <1>2 DEF SendFails, AtAttempt, Progress, Live
  <2>2. SendError(work.client, NextPacket, now) \in Errors
    BY <1>0, <1>2, SendErrorType, StepAssumption DEF SendFails
  <2>3. attempt + 1 \in 1..work.policy.max
    BY <1>0, <2>1
  <2> QED
    BY <1>0, <1>2, <2>1, <2>2, <2>3, FailureLeaves, QuietStep DEF SendFails, gate
<1>3. CASE TimeOut \/ Disconnect \/ Reject
  <2>1. phase \in Live /\ attempt \in 1..work.policy.max
    BY <1>0, <1>3 DEF TimeOut, Disconnect, Reject, Live, Progress
  <2>2. PICK e \in Errors : AttemptFailed(attempt, e)
    <3>1. CASE TimeOut \/ Disconnect
      BY <3>1 DEF TimeOut, Disconnect, Errors, GateErrors
    <3>2. CASE Reject
      <4>1. reply.kind \in {"status", "page", "packet"}
        BY <3>2 DEF Reject, Back, TypeOK
      <4> QED
        BY <3>2, <4>1, StepErrorType DEF Reject
    <3> QED
      BY <1>3, <3>1, <3>2
  <2>3. wire' \subseteq wire /\ UNCHANGED <<now, work, step, attempt, deadline, results, sent, ran, cache>>
    BY <1>3 DEF TimeOut, Disconnect, Reject, gate
  <2> QED
    BY <1>0, <2>1, <2>2, <2>3, FailureLeaves, QuietStep
<1>4. CASE Cancel
  BY <1>0, <1>4, QuietStep DEF Cancel, Due, gate
<1> QED
  BY <1>1, <1>2, <1>3, <1>4

LEMMA PostKeeps == ASSUME IInv, Post PROVE IInv'
<1> USE DEF IInv
<1> DEFINE p == MaybeSign(work.client, NextPacket)
<1>0. /\ work \in Setups /\ work.policy.max \in Nat \ {0} /\ step \in 1..Steps
      /\ attempt \in 0..work.policy.max /\ attempt < work.policy.max
  BY StepAssumption DEF TypeOK, Post, AtAttempt, Progress
<1>1. /\ work' = work /\ step' = step /\ results' = results /\ ran' = ran /\ cache' = cache
      /\ error' = error /\ reply' = reply /\ attempt' = attempt + 1 /\ phase' = "waiting"
      /\ phase \in {"ready", "backoff"} /\ now' = now
  BY DEF Post, AtAttempt, gate
<1>2. Shaped(p) /\ p.core.id = <<step, attempt + 1>> /\ p.core.idem = work.parent.core.idem
  BY <1>0, PostedFields DEF NextPacket
<1>3. NextCore.id = <<step, attempt + 1>>
  BY <1>0, StepCoreFields DEF NextCore
<1>4. wire' = wire \cup {p} /\ sent' = sent \cup {<<step, attempt + 1>>}
  BY <1>3, NextIs DEF Post
<1>5. <<step, attempt + 1>> \notin sent
  BY <1>0 DEF Progress
<1>6. deadline' \in Int
  <2>1. NextPacket.core.timeout = work.parent.core.timeout
    BY <1>0, StepCoreFields, NextIs DEF NextCore
  <2>2. /\ work.parent.core.timeout \in Nat /\ work.client.margin \in Nat
        /\ work.client.ceiling \in Nat \cup {None}
    BY <1>0, StepAssumption
  <2>3. Budget(work.client, NextPacket) \in Int
    BY <2>1, <2>2 DEF Budget, Clamp
  <2> QED
    BY <2>3 DEF Post, TypeOK
<1> HIDE DEF p
<1>7. TypeOK'
  <2>1. <<step, attempt + 1>> \in (1..Steps) \X (1..work.policy.max)
    BY <1>0
  <2>2. /\ sent' \subseteq (1..Steps) \X (1..work.policy.max) /\ ran \subseteq sent'
        /\ \A q \in wire' : q.core.id \in sent'
    BY <1>2, <1>4, <2>1 DEF TypeOK
  <2>3. attempt + 1 \in 0..work.policy.max
    BY <1>0
  <2> QED
    BY <1>1, <1>6, <2>2, <2>3 DEF TypeOK, Live, Over
<1>8. Progress'
  <2>1. \A id \in sent : id[2] \in Nat
    BY <1>0 DEF TypeOK
  <2> QED
    BY <1>0, <1>1, <1>4, <2>1 DEF Progress
<1>9. Wire'
  <2>1. p.core.id \in sent' \ ran
    BY <1>2, <1>4, <1>5 DEF TypeOK
  <2>2. \A q \in wire : q.core.id # p.core.id
    BY <1>2, <1>5 DEF TypeOK
  <2>3. \A q \in wire' : Shaped(q) /\ q.core.id \in sent' \ ran /\ q.core.idem = work.parent.core.idem
    BY <1>2, <1>4, <2>1 DEF Wire
  <2>4. \A q, t \in wire' : q.core.id = t.core.id => q = t
    BY <1>4, <2>2 DEF Wire
  <2> QED
    BY <1>1, <2>3, <2>4 DEF Wire, Shaped
<1>10. Back'
  BY <1>1 DEF Back, NoReply
<1>11. Kept' /\ ResultsAreRuns'
  BY <1>1 DEF Kept, Genuine, Keyed, ResultsAreRuns
<1> QED
  BY <1>7, <1>8, <1>9, <1>10, <1>11

LEMMA AcceptKeeps == ASSUME IInv, Accept PROVE IInv'
<1> USE DEF IInv
<1>0. /\ work \in Setups /\ work.policy.max \in Nat \ {0} /\ step \in 1..Steps /\ Steps \in Nat
      /\ Len(results) = step - 1
  BY StepAssumption DEF TypeOK, Accept, Progress
<1>1. /\ work' = work /\ ran' = ran /\ cache' = cache /\ sent' = sent /\ wire' = wire
      /\ error' = None /\ reply' = NoReply /\ now' = now /\ deadline' = deadline
      /\ results' = Append(results, reply.pkt)
      /\ \/ step = Steps /\ phase' = "done" /\ step' = step /\ attempt' = attempt
         \/ step # Steps /\ phase' = "ready" /\ step' = step + 1 /\ attempt' = 0
  BY DEF Accept, gate
<1>2. /\ Genuine(reply.pkt) /\ ForStep(reply.pkt)
      /\ reply.pkt.core.type = "response" /\ reply.pkt.core.payload.status = "completed"
  <2>1. reply.kind = "packet" /\ Intact(reply.pkt) /\ ~Failure(reply.pkt)
    <3>1. reply.kind \in {"status", "page", "packet"}
      BY DEF Accept, Back, TypeOK
    <3> QED
      BY <3>1, Accepted DEF Accept
  <2> QED
    BY <2>1 DEF Back, Genuine, Failure
<1>3. /\ Len(results') = step /\ results'[step] = reply.pkt
      /\ \A t \in 1..(step - 1) : results'[t] = results[t]
      /\ results' \in Seq({results'[t] : t \in DOMAIN results'})
  <2> DEFINE T == {results[t] : t \in DOMAIN results} \cup {reply.pkt}
  <2>1. results \in Seq(T)
    BY DEF TypeOK
  <2>2. /\ Append(results, reply.pkt) \in Seq(T) /\ Len(Append(results, reply.pkt)) = Len(results) + 1
        /\ Append(results, reply.pkt)[Len(results) + 1] = reply.pkt
        /\ \A t \in 1..Len(results) : Append(results, reply.pkt)[t] = results[t]
    BY <2>1, AppendProperties
  <2>3. results' \in Seq({results'[t] : t \in DOMAIN results'})
    BY <1>1, <2>2
  <2> QED
    BY <1>0, <1>1, <2>2, <2>3
<1>4. TypeOK'
  <2>1. step' \in 1..Steps /\ Len(results') \in 0..Steps
    BY <1>0, <1>1, <1>3
  <2>2. attempt' \in 0..work.policy.max
    BY <1>0, <1>1 DEF TypeOK
  <2>3. /\ reply' = [kind |-> reply'.kind, code |-> reply'.code, pkt |-> reply'.pkt]
        /\ reply'.kind = "none"
    BY <1>1 DEF NoReply
  <2> QED
    BY <1>1, <1>3, <2>1, <2>2, <2>3 DEF TypeOK, Live, Over
<1>5. Progress'
  <2>1. \A id \in sent : id[1] < step \/ (id[1] = step /\ id[2] <= attempt)
    BY DEF Progress
  <2>2. \A id \in sent : id[1] \in Nat /\ id[1] <= step
    BY SentIds
  <2>3. CASE step # Steps
    <3>1. \A id \in sent : id[1] < step + 1
      BY <1>0, <2>2
    <3>2. Len(results') = step' - 1 /\ phase' = "ready" /\ attempt' = 0 /\ step' = step + 1
      BY <1>0, <1>1, <1>3, <2>3
    <3> QED
      BY <1>1, <3>1, <3>2 DEF Progress
  <2>4. CASE step = Steps
    <3>1. Len(results') = step' /\ phase' = "done" /\ attempt' = attempt /\ step' = step
      BY <1>1, <1>3, <2>4
    <3> QED
      BY <1>1, <2>1, <2>4, <3>1 DEF Progress
  <2> QED
    BY <2>3, <2>4
<1>6. Wire' /\ Back'
  BY <1>1 DEF Wire, Shaped, Back, NoReply
<1>7. Kept'
  BY <1>1 DEF Kept, Genuine, Keyed
<1>8. ResultsAreRuns'
  <2>1. DOMAIN results' = 1..step /\ DOMAIN results = 1..(step - 1)
    BY <1>0, <1>3 DEF TypeOK
  <2>2. reply.pkt.core.payload.run \in ran /\ ran \subseteq sent
    BY <1>2 DEF Genuine, TypeOK
  <2>3. reply.pkt.core.payload.run[1] \in Nat /\ reply.pkt.core.payload.run[1] <= step
    BY <2>2, SentIds
  <2>4. \/ reply.pkt.core.payload.run[1] = step
        \/ Keyed /\ reply.pkt.core.payload.run[1] < step
    BY <1>0, <1>2, <2>3 DEF ForStep
  <2>5. ASSUME NEW t \in 1..step
        PROVE  LET id == results'[t].core.payload.run IN
               /\ results'[t].core.type = "response"
               /\ results'[t].core.payload.status = "completed"
               /\ id \in ran /\ (id[1] = t \/ (Keyed /\ id[1] < t))
    <3>1. CASE t = step
      BY <1>2, <1>3, <2>2, <2>4, <3>1
    <3>2. CASE t # step
      <4>1. t \in DOMAIN results /\ results'[t] = results[t]
        BY <1>0, <1>3, <2>1, <3>2
      <4> QED
        BY <4>1 DEF ResultsAreRuns
    <3> QED
      BY <3>1, <3>2
  <2> QED
    BY <1>1, <2>1, <2>5 DEF ResultsAreRuns, Keyed
<1> QED
  BY <1>4, <1>5, <1>6, <1>7, <1>8

\* A reply that Gate or the network puts on the current connection.
LEMMA ReplyArrives ==
  ASSUME IInv, UNCHANGED <<work, step, attempt, phase, error, deadline, results, sent>>,
         now' \in Nat, wire' \subseteq wire, ran' \subseteq sent, ran \subseteq ran',
         \A p \in wire' : p.core.id \notin ran',
         Kept', Back',
         reply' = [kind |-> reply'.kind, code |-> reply'.code, pkt |-> reply'.pkt],
         reply'.kind \in {"none", "status", "page", "packet"}
  PROVE  IInv'
<1> USE DEF IInv
<1>1. TypeOK'
  BY DEF TypeOK
<1>2. Progress'
  BY DEF Progress
<1>3. Wire'
  BY DEF Wire, Shaped
<1>4. ResultsAreRuns'
  BY DEF ResultsAreRuns, Keyed
<1> QED
  BY <1>1, <1>2, <1>3, <1>4

LEMMA ExecuteKeeps == ASSUME IInv, Execute PROVE IInv'
<1> USE DEF IInv
<1>1. PICK p \in wire, how \in {<<"response", "completed">>, <<"response", "failed">>,
                                <<"failure", "failed">>} :
        LET q == Answer(p, how[1], how[2], p.core.id) IN
        /\ p.core.idem # None => cache = {}
        /\ Arrived(p)
        /\ ran' = ran \cup {p.core.id}
        /\ cache' = IF p.core.idem # None THEN {q} ELSE cache
        /\ Send(p, AsPacket(q))
        /\ UNCHANGED <<now, work, step, attempt, phase, error, deadline, results, sent>>
  BY DEF Execute
<1> PICK q : q = Answer(p, how[1], how[2], p.core.id)
  OBVIOUS
<1>2. /\ Shaped(q) /\ {"status", "run"} \subseteq DOMAIN q.core.payload
      /\ Intact(q) /\ q.hash = q.core
      /\ q.core.type = how[1] /\ q.core.payload = [status |-> how[2], run |-> p.core.id]
  BY AnswerFields DEF Wire
<1>3. /\ q.core.type \in {"response", "failure"} /\ q.core.payload.status \in {"completed", "failed"}
      /\ q.core.payload.run = p.core.id
  BY <1>2
<1>4. /\ p.core.idem = work.parent.core.idem /\ p.core.id \in sent \ ran
      /\ \A r \in wire : r.core.id = p.core.id => r = p
  BY DEF Wire
<1>5. /\ p.core.idem # None => cache = {}
      /\ wire' = wire \ {p}
      /\ ran' = ran \cup {p.core.id}
      /\ cache' = IF p.core.idem # None THEN {q} ELSE cache
      /\ reply' = IF phase = "waiting" /\ p.core.id = <<step, attempt>>
                    THEN [kind |-> "packet", code |-> 200, pkt |-> q] ELSE reply
      /\ UNCHANGED <<now, work, step, attempt, phase, error, deadline, results, sent>>
  BY <1>1 DEF Arrived, Send, AsPacket
<1>6. Genuine(q)'
  BY <1>3, <1>5 DEF Genuine
<1>7. Kept'
  <2>1. CASE Keyed
    <3>1. cache' = {q} /\ ran = {} /\ ran' = {p.core.id} /\ Keyed'
      BY <1>4, <1>5, <2>1 DEF Kept, Keyed
    <3> QED
      BY <1>2, <1>6, <3>1 DEF Kept, Shaped, Intact
  <2>2. CASE ~Keyed
    <3>1. cache' = {} /\ ~Keyed'
      BY <1>4, <1>5, <2>2 DEF Kept, Keyed
    <3> QED
      BY <3>1 DEF Kept
  <2> QED
    BY <2>1, <2>2
<1>8. Back'
  <2>1. CASE phase = "waiting" /\ p.core.id = <<step, attempt>>
    <3>1. reply'.kind = "packet" /\ reply'.pkt = q /\ phase' = "waiting" /\ step' = step
      BY <1>5, <2>1
    <3>2. q.core.payload.run[1] = step
      BY <1>3, <2>1
    <3>3. q.hash.payload.status \in {"completed", "failed"}
      BY <1>2, <1>3
    <3> QED
      BY <1>2, <1>6, <3>1, <3>2, <3>3 DEF Back, Shaped, ForStep, Genuine
  <2>2. CASE ~(phase = "waiting" /\ p.core.id = <<step, attempt>>)
    BY <1>5, <2>2 DEF Back, Genuine, ForStep, Keyed, Shaped, Intact
  <2> QED
    BY <2>1, <2>2
<1>9. /\ reply' = [kind |-> reply'.kind, code |-> reply'.code, pkt |-> reply'.pkt]
      /\ reply'.kind \in {"none", "status", "page", "packet"}
  BY <1>5 DEF TypeOK
<1>10. /\ now' \in Nat /\ wire' \subseteq wire /\ ran' \subseteq sent /\ ran \subseteq ran'
       /\ \A r \in wire' : r.core.id \notin ran'
  BY <1>4, <1>5 DEF TypeOK, Wire
<1> QED
  BY <1>5, <1>7, <1>8, <1>9, <1>10, ReplyArrives

\* What Gate keeps is not touched where neither ran nor cache changes.
LEMMA KeptStays == ASSUME Kept, UNCHANGED <<work, ran, cache>> PROVE Kept'
BY DEF Kept, Genuine, Keyed

LEMMA ServeCachedKeeps == ASSUME IInv, ServeCached PROVE IInv'
<1> USE DEF IInv
<1>1. PICK p \in wire, q \in cache :
        /\ Arrived(p) /\ Send(p, AsPacket(q))
        /\ UNCHANGED <<now, work, step, attempt, phase, error, deadline, results, sent, gate>>
  BY DEF ServeCached
<1>2. /\ wire' = wire \ {p} /\ ran' = ran /\ cache' = cache
      /\ reply' = IF phase = "waiting" /\ p.core.id = <<step, attempt>>
                    THEN [kind |-> "packet", code |-> 200, pkt |-> q] ELSE reply
      /\ UNCHANGED <<now, work, step, attempt, phase, error, deadline, results, sent>>
  BY <1>1 DEF Arrived, Send, AsPacket, gate
<1>3. /\ Keyed /\ Shaped(q) /\ {"status", "run"} \subseteq DOMAIN q.core.payload
      /\ Intact(q) /\ Genuine(q)
  BY DEF Kept
<1>4. q.hash.payload.status \in {"completed", "failed"}
  BY <1>3 DEF Intact, TransportHash, Genuine
<1>5. Back'
  BY <1>2, <1>3, <1>4 DEF Back, Genuine, ForStep, Keyed
<1>6. /\ reply' = [kind |-> reply'.kind, code |-> reply'.code, pkt |-> reply'.pkt]
      /\ reply'.kind \in {"none", "status", "page", "packet"}
  BY <1>2 DEF TypeOK
<1>7. /\ now' \in Nat /\ wire' \subseteq wire /\ ran' \subseteq sent /\ ran \subseteq ran'
      /\ \A r \in wire' : r.core.id \notin ran'
  BY <1>2 DEF TypeOK, Wire
<1> QED
  BY <1>2, <1>5, <1>6, <1>7, KeptStays, ReplyArrives

LEMMA RefuseKeeps == ASSUME IInv, Refuse PROVE IInv'
<1> USE DEF IInv
<1>1. PICK p \in wire, code \in {403, 503} :
        /\ Arrived(p) /\ Send(p, AsStatus(code))
        /\ UNCHANGED <<now, work, step, attempt, phase, error, deadline, results, sent, gate>>
  BY DEF Refuse
<1>2. /\ wire' = wire \ {p} /\ ran' = ran /\ cache' = cache
      /\ reply' = IF phase = "waiting" /\ p.core.id = <<step, attempt>>
                    THEN [kind |-> "status", code |-> code, pkt |-> None] ELSE reply
      /\ UNCHANGED <<now, work, step, attempt, phase, error, deadline, results, sent>>
  BY <1>1 DEF Arrived, Send, AsStatus, gate
<1>3. Back'
  BY <1>2 DEF Back, Genuine, ForStep, Keyed
<1>4. /\ reply' = [kind |-> reply'.kind, code |-> reply'.code, pkt |-> reply'.pkt]
      /\ reply'.kind \in {"none", "status", "page", "packet"}
  BY <1>2 DEF TypeOK
<1>5. /\ now' \in Nat /\ wire' \subseteq wire /\ ran' \subseteq sent /\ ran \subseteq ran'
      /\ \A r \in wire' : r.core.id \notin ran'
  BY <1>2 DEF TypeOK, Wire
<1> QED
  BY <1>2, <1>3, <1>4, <1>5, KeptStays, ReplyArrives

\* A damaged packet no longer has its hash.
LEMMA GarbleKeeps == ASSUME IInv, Garble PROVE IInv'
<1> USE DEF IInv
<1>1. /\ phase = "waiting" /\ reply.kind = "packet"
      /\ reply' \in {AsStatus(504), [reply EXCEPT !.kind = "page"],
                     [reply EXCEPT !.pkt.core.payload.status = "damaged"]}
      /\ UNCHANGED <<now, work, step, attempt, phase, error, deadline, results, wire, sent, ran, cache>>
  BY DEF Garble, gate
<1>2. /\ reply = [kind |-> reply.kind, code |-> reply.code, pkt |-> reply.pkt]
      /\ Shaped(reply.pkt) /\ {"status", "run"} \subseteq DOMAIN reply.pkt.core.payload
      /\ reply.pkt.hash.payload.status \in {"completed", "failed"}
  BY <1>1 DEF TypeOK, Back
<1>3. /\ Back'
      /\ reply' = [kind |-> reply'.kind, code |-> reply'.code, pkt |-> reply'.pkt]
      /\ reply'.kind \in {"none", "status", "page", "packet"}
  <2>1. CASE reply' = AsStatus(504)
    BY <1>1, <2>1 DEF AsStatus, Back
  <2>2. CASE reply' = [reply EXCEPT !.kind = "page"]
    BY <1>1, <1>2, <2>2 DEF Back
  <2>3. CASE reply' = [reply EXCEPT !.pkt.core.payload.status = "damaged"]
    <3> DEFINE d == [reply.pkt EXCEPT !.core.payload.status = "damaged"]
    <3>1. reply' = [kind |-> "packet", code |-> reply.code, pkt |-> d]
      BY <1>1, <1>2, <2>3
    <3>2. /\ DOMAIN d = DOMAIN reply.pkt /\ DOMAIN d.core = DOMAIN reply.pkt.core
          /\ DOMAIN d.core.payload = DOMAIN reply.pkt.core.payload
          /\ d.hash = reply.pkt.hash /\ d.core.payload.status = "damaged"
      BY <1>2 DEF Shaped
    <3> HIDE DEF d
    <3>3. Shaped(d) /\ ~Intact(d)
      BY <1>2, <3>2 DEF Shaped, Intact, TransportHash
    <3> QED
      BY <1>1, <1>2, <3>1, <3>2, <3>3 DEF Back, Shaped, Intact
  <2> QED
    BY <1>1, <2>1, <2>2, <2>3
<1>4. /\ now' \in Nat /\ wire' \subseteq wire /\ ran' \subseteq sent /\ ran \subseteq ran'
      /\ \A r \in wire' : r.core.id \notin ran'
  BY <1>1 DEF TypeOK, Wire
<1> QED
  BY <1>1, <1>3, <1>4, KeptStays, ReplyArrives

\* The clock moves, and nothing else; or nothing moves.
LEMMA TickKeeps == ASSUME IInv, Tick \/ UNCHANGED vars PROVE IInv'
<1> USE DEF IInv
<1>1. /\ UNCHANGED <<work, step, attempt, phase, error, deadline, reply, results, wire, sent, ran, cache>>
      /\ now' \in Nat
  BY DEF Tick, vars, client, gate, TypeOK
<1>2. Back'
  BY <1>1 DEF Back, Genuine, ForStep, Keyed, Shaped, Intact
<1>3. /\ reply' = [kind |-> reply'.kind, code |-> reply'.code, pkt |-> reply'.pkt]
      /\ reply'.kind \in {"none", "status", "page", "packet"}
  BY <1>1 DEF TypeOK
<1>4. /\ ran' \subseteq sent /\ \A r \in wire' : r.core.id \notin ran'
  BY <1>1 DEF TypeOK, Wire
<1> QED
  BY <1>1, <1>2, <1>3, <1>4, KeptStays, ReplyArrives

\* Every step of the system keeps the invariant.
LEMMA StepKeeps == IInv /\ [Next]_vars => IInv'
BY AttemptEnds, PostKeeps, AcceptKeeps, ExecuteKeeps, ServeCachedKeeps, RefuseKeeps, GarbleKeeps,
   TickKeeps DEF Next

\* IInv holds in every reachable state.
THEOREM IInvariant == Spec => []IInv
BY InitIInv, StepKeeps, PTL DEF Spec

-----------------------------------------------------------------------------
(* The properties.                                                          *)

\* A workflow's state keeps its type; in particular no step has more attempts
\* than its policy allows.
THEOREM TypeCorrect == Spec => []TypeOK
BY IInvariant, PTL DEF IInv

\* execute_step returns only what a worker produced by completing the step, or
\* under a key the key's operation: whatever Gate refuses, loses or a proxy garbles.
THEOREM ResultsWereRun == Spec => []ResultsAreRuns
BY IInvariant, PTL DEF IInv

\* However often a step is posted and however late the POSTs arrive, an operation
\* with an idempotency key is executed once, and a step of one attempt at most once.
THEOREM RunsOnce == Spec => []NothingRunsTwice
<1>1. IInv => NothingRunsTwice
  <2> SUFFICES ASSUME IInv PROVE NothingRunsTwice
    OBVIOUS
  <2>1. Keyed => \A a, b \in ran : a = b
    BY DEF IInv, Kept
  <2>2. ASSUME work.policy.max = 1, NEW a \in ran, NEW b \in ran, a[1] = b[1]
        PROVE  a = b
    <3>1. a \in sent /\ b \in sent
      BY DEF IInv, TypeOK
    <3>2. a = <<a[1], a[2]>> /\ b = <<b[1], b[2]>> /\ a[2] = 1 /\ b[2] = 1
      BY <2>2, <3>1, SentIds
    <3> QED
      BY <2>2, <3>2
  <2> QED
    BY <2>1, <2>2 DEF NothingRunsTwice
<1> QED
  BY <1>1, IInvariant, PTL

\* A step is posted again only after an error whose type the policy names.
THEOREM RepeatsHaveCause == Spec => RepeatedForCause
<1>1. IInv /\ [Next]_vars =>
        [\A id \in sent' \ sent :
           id[2] > 1 => error \in Errors /\ Family(error) \cap work.policy.retryable # {}]_vars
  <2> SUFFICES ASSUME IInv, Next, NEW id \in sent' \ sent, id[2] > 1
               PROVE  error \in Errors /\ Family(error) \cap work.policy.retryable # {}
    OBVIOUS
  <2>1. Post
    BY DEF Next, BuildFails, SendFails, TimeOut, Disconnect, Accept, Reject, Cancel,
           Execute, ServeCached, Refuse, Garble, Tick
  <2>2. work \in Setups /\ attempt \in Nat
    BY StepAssumption DEF IInv, TypeOK
  <2>3. id = <<step, attempt + 1>>
    BY <2>1, <2>2, StepCoreFields, NextIs DEF Post, NextCore
  <2>4. phase = "backoff"
    BY <2>1, <2>2, <2>3 DEF IInv, Progress, Post, AtAttempt
  <2> QED
    BY <2>4 DEF IInv, Progress
<1> QED
  BY <1>1, IInvariant, PTL DEF Spec, RepeatedForCause

-----------------------------------------------------------------------------
(* The contract.                                                            *)

Ended == {"failed", "raised", "cancelled"}

\* The outcomes of a workflow at step st in phase ph.
OutcomesAt(st, ph) ==
  [s \in 1..Steps |->
     IF s < st \/ (s = st /\ ph = "done") THEN "answered"
     ELSE IF s = st /\ ph \in Ended THEN "failed" ELSE "open"]

LEMMA OutcomeView == IInv => Outcome = OutcomesAt(step, phase)
<1> SUFFICES ASSUME IInv PROVE Outcome = OutcomesAt(step, phase)
  OBVIOUS
<1>1. /\ step \in 1..Steps /\ Steps \in Nat
      /\ Len(results) = IF phase = "done" THEN step ELSE step - 1
      /\ DOMAIN results = 1..Len(results)
  BY StepAssumption DEF IInv, TypeOK, Progress
<1>2. \A s \in 1..Steps : s \in DOMAIN results <=> s < step \/ (s = step /\ phase = "done")
  BY <1>1
<1> QED
  BY <1>2 DEF Outcome, OutcomesAt, Ended

\* In a live phase the step the handler is at is the contract's current one, and
\* ending it, or going on to the next, changes its outcome alone.
LEMMA CurrentStep ==
  ASSUME IInv, phase \in Live
  PROVE  /\ Contract!Current(step)
         /\ \A ph \in Ended : OutcomesAt(step, ph) = [Outcome EXCEPT ![step] = "failed"]
         /\ \A ph \in Live : OutcomesAt(step, ph) = Outcome
         /\ \A ph \in Live : OutcomesAt(step + 1, ph) = [Outcome EXCEPT ![step] = "answered"]
         /\ OutcomesAt(step, "done") = [Outcome EXCEPT ![step] = "answered"]
<1>1. step \in 1..Steps /\ Steps \in Nat
  BY StepAssumption DEF IInv, TypeOK
<1>2. Outcome = [s \in 1..Steps |-> IF s < step THEN "answered" ELSE "open"]
  BY <1>1, OutcomeView DEF OutcomesAt, Ended, Live
<1>3. Contract!Current(step)
  BY <1>1, <1>2 DEF Contract!Current
<1>4. \A ph \in Ended : OutcomesAt(step, ph) = [Outcome EXCEPT ![step] = "failed"]
  BY <1>1, <1>2 DEF OutcomesAt, Ended
<1>5. \A ph \in Live : OutcomesAt(step, ph) = Outcome
  BY <1>1, <1>2 DEF OutcomesAt, Ended, Live
<1>6. \A ph \in Live : OutcomesAt(step + 1, ph) = [Outcome EXCEPT ![step] = "answered"]
  BY <1>1, <1>2 DEF OutcomesAt, Ended, Live
<1>7. OutcomesAt(step, "done") = [Outcome EXCEPT ![step] = "answered"]
  BY <1>1, <1>2 DEF OutcomesAt, Ended
<1> QED
  BY <1>3, <1>4, <1>5, <1>6, <1>7

\* A workflow begins as the contract does.
LEMMA ContractInit == Init => Contract!Init
<1> SUFFICES ASSUME Init PROVE Contract!Init
  OBVIOUS
<1>1. Keyed \in BOOLEAN /\ work.policy.max \in Nat \ {0}
  BY StepAssumption DEF Init, Keyed
<1>2. Outcome = [s \in 1..Steps |-> "open"]
  BY DEF Init, Outcome
<1> QED
  BY <1>1, <1>2 DEF Init, Contract!Init

\* Every step of the system is one of the contract, or is hidden from it.
LEMMA ContractStep ==
  ASSUME IInv, IInv', [Next]_vars, Outcome' = OutcomesAt(step', phase')
  PROVE  Contract!Next \/ UNCHANGED Contract!vars
<1> USE DEF IInv
<1>0. /\ work \in Setups /\ work.policy.max \in Nat \ {0} /\ step \in 1..Steps
      /\ attempt \in 0..work.policy.max
  BY StepAssumption DEF TypeOK
<1>1. CASE Post
  <2>1. /\ phase \in Live /\ attempt < work.policy.max /\ phase' \in Live
        /\ UNCHANGED <<work, step, results, ran>>
    BY <1>0, <1>1 DEF Post, AtAttempt, Progress, Live, gate
  <2>2. /\ sent' = sent \cup {<<step, attempt + 1>>} /\ <<step, attempt + 1>> \notin sent
        /\ attempt + 1 \in 1..work.policy.max
    BY <1>0, <1>1, <2>1, StepCoreFields, NextIs DEF Post, NextCore, Progress
  <2>3. Outcome' = Outcome /\ Keyed' = Keyed
    BY <2>1, CurrentStep DEF Keyed
  <2>4. Contract!Post(step)
    BY <2>1, <2>2, <2>3, CurrentStep DEF Contract!Post
  <2> QED
    BY <1>0, <2>4 DEF Contract!Next
<1>2. CASE BuildFails \/ SendFails \/ TimeOut \/ Disconnect \/ Reject \/ Cancel
  <2>1. phase \in Live /\ UNCHANGED <<work, step, sent, ran>> /\ phase' \in Ended \cup {"backoff"}
    BY <1>2 DEF BuildFails, SendFails, TimeOut, Disconnect, Reject, Cancel, AtAttempt, Due,
                AttemptFailed, Live, Ended, gate
  <2>2. Keyed' = Keyed
    BY <2>1 DEF Keyed
  <2>3. CASE phase' = "backoff"
    <3>1. Outcome' = Outcome
      BY <2>1, <2>3, CurrentStep DEF Live
    <3> QED
      BY <2>1, <2>2, <3>1 DEF Contract!vars
  <2>4. CASE phase' \in Ended
    <3>1. Contract!Fail(step)
      BY <2>1, <2>2, <2>4, CurrentStep DEF Contract!Fail
    <3> QED
      BY <1>0, <3>1 DEF Contract!Next
  <2> QED
    BY <2>1, <2>3, <2>4
<1>3. CASE Accept
  <2>1. /\ phase \in Live /\ UNCHANGED <<work, sent, ran>>
        /\ \/ step' = step /\ phase' = "done"
           \/ step' = step + 1 /\ phase' = "ready"
    BY <1>3 DEF Accept, Live, gate
  <2>2. Keyed' = Keyed
    BY <2>1 DEF Keyed
  <2>3. Outcome' = [Outcome EXCEPT ![step] = "answered"]
    BY <2>1, CurrentStep DEF Live
  <2>4. \E id \in ran : Keyed \/ id[1] = step
    <3>1. reply.kind = "packet" /\ Intact(reply.pkt)
      <4>1. reply.kind \in {"status", "page", "packet"}
        BY <1>3 DEF Accept, Back, TypeOK
      <4> QED
        BY <1>3, <4>1, Accepted DEF Accept
    <3> QED
      BY <3>1 DEF Back, Genuine, ForStep
  <2>5. Contract!Answer(step)
    BY <2>1, <2>2, <2>3, <2>4, CurrentStep DEF Contract!Answer
  <2> QED
    BY <1>0, <2>5 DEF Contract!Next
<1>4. CASE Execute
  <2>1. PICK p \in wire : /\ p.core.idem # None => cache = {}
                          /\ ran' = ran \cup {p.core.id}
                          /\ UNCHANGED <<work, step, phase, results, sent>>
    BY <1>4 DEF Execute
  <2>2. p.core.id \in sent \ ran /\ p.core.idem = work.parent.core.idem
    BY DEF Wire
  <2>3. Keyed => ran = {}
    BY <2>1, <2>2 DEF Keyed, Kept
  <2>4. Outcome' = Outcome /\ Keyed' = Keyed
    BY <2>1 DEF Outcome, Keyed
  <2>5. Contract!Run
    BY <2>1, <2>2, <2>3, <2>4 DEF Contract!Run
  <2> QED
    BY <2>5 DEF Contract!Next
<1>5. CASE ServeCached \/ Refuse \/ Garble \/ Tick \/ UNCHANGED vars
  <2>1. UNCHANGED <<work, step, phase, results, sent, ran>>
    BY <1>5 DEF ServeCached, Refuse, Garble, Tick, vars, client, gate
  <2> QED
    BY <2>1 DEF Contract!vars, Outcome, Keyed
<1> QED
  BY <1>1, <1>2, <1>3, <1>4, <1>5 DEF Next

\* Whatever Gate, the network and the clock do, execute_step keeps StepContract:
\* its POSTs, their executions and the outcomes of the steps are as promised.
THEOREM ContractKept == Spec => KeepsContract
<1> DEFINE View == Outcome = OutcomesAt(step, phase)
<1>1. IInv => View
  BY OutcomeView
<1>2. IInv /\ IInv' /\ [Next]_vars /\ View' => [Contract!Next]_(Contract!vars)
  <2> SUFFICES ASSUME IInv, IInv', [Next]_vars, View'
               PROVE  Contract!Next \/ UNCHANGED Contract!vars
    OBVIOUS
  <2>1. Outcome' = OutcomesAt(step', phase')
    BY DEF OutcomesAt
  <2> QED
    BY <2>1, ContractStep
<1>3. Spec => []IInv
  BY IInvariant
<1> HIDE DEF View
<1> QED
  BY <1>1, <1>2, <1>3, ContractInit, PTL DEF Spec, KeepsContract, Contract!Spec

\* What StepContract promises of the order of the steps: one that was posted, or
\* has an outcome, finds every earlier one answered.
InOrder ==
  \A s \in 1..Steps :
    Outcome[s] # "open" \/ (\E id \in sent : id[1] = s) =>
      \A t \in 1..Steps : t < s => Outcome[t] = "answered"

\* A failed step ends the workflow: nothing is posted and nothing answered after it.
FailureEnds ==
  (\E s \in 1..Steps : Outcome[s] = "failed") => sent' = sent /\ Outcome' = Outcome

\* What a contract's step does to the order of the steps.
LEMMA OrderStep ==
  ASSUME InOrder, DOMAIN Outcome = 1..Steps, Contract!Next
  PROVE  InOrder' /\ DOMAIN Outcome' = 1..Steps /\ FailureEnds
<1>1. Steps \in Nat
  BY StepAssumption
<1>2. CASE Contract!Run
  BY <1>2 DEF Contract!Run, InOrder, FailureEnds
<1>3. ASSUME NEW s \in 1..Steps, Contract!Current(s)
      PROVE  /\ Outcome[s] = "open"
             /\ \A t \in 1..Steps : t < s => Outcome[t] = "answered"
             /\ \A t \in 1..Steps : Outcome[t] # "failed"
  <2>1. Outcome[s] = "open" /\ \A t \in 1..Steps : t < s => Outcome[t] = "answered"
    BY <1>3 DEF Contract!Current
  <2>2. ASSUME NEW t \in 1..Steps, Outcome[t] = "failed" PROVE FALSE
    <3>1. t # s /\ ~(t < s) /\ s < t
      BY <1>1, <2>1, <2>2
    <3> QED BY <2>1, <2>2, <3>1 DEF InOrder
  <2> QED BY <2>1, <2>2
<1>4. ASSUME NEW s \in 1..Steps, Contract!Post(s)
      PROVE  InOrder' /\ DOMAIN Outcome' = 1..Steps /\ FailureEnds
  <2>1. PICK n \in 1..work.policy.max : sent' = sent \cup {<<s, n>>}
    BY <1>4 DEF Contract!Post
  <2>2. Outcome' = Outcome /\ Contract!Current(s)
    BY <1>4 DEF Contract!Post
  <2>3. \A t \in 1..Steps : (\E id \in sent' : id[1] = t) => t = s \/ \E id \in sent : id[1] = t
    BY <2>1
  <2> QED BY <1>3, <2>2, <2>3 DEF InOrder, FailureEnds
<1>5. ASSUME NEW s \in 1..Steps, Contract!Answer(s) \/ Contract!Fail(s)
      PROVE  InOrder' /\ DOMAIN Outcome' = 1..Steps /\ FailureEnds
  <2>1. PICK how \in {"answered", "failed"} : Outcome' = [Outcome EXCEPT ![s] = how]
    BY <1>5 DEF Contract!Answer, Contract!Fail
  <2>2. sent' = sent /\ Contract!Current(s)
    BY <1>5 DEF Contract!Answer, Contract!Fail
  <2>3. \A t \in 1..Steps : Outcome[t] = "answered" => Outcome'[t] = "answered"
    BY <1>3, <2>1, <2>2
  <2>4. \A t \in 1..Steps : Outcome'[t] # "open" => t = s \/ Outcome[t] # "open"
    BY <2>1
  <2>5. InOrder'
    BY <1>3, <2>2, <2>3, <2>4 DEF InOrder
  <2> QED BY <1>3, <2>1, <2>2, <2>5 DEF FailureEnds
<1> QED BY <1>2, <1>4, <1>5 DEF Contract!Next

\* The steps of a workflow are taken in their order, and the first that fails ends
\* it: no step is posted before all earlier ones are answered, and none after a
\* failure, whatever arrives late.  It follows from the contract alone.
THEOREM StepsInOrder ==
  Spec => /\ []InOrder
          /\ [][FailureEnds]_(Contract!vars)
<1> DEFINE Domain == DOMAIN Outcome = 1..Steps
<1>1. Contract!Init => InOrder /\ Domain
  BY DEF Contract!Init, InOrder
<1>2. InOrder /\ Domain /\ [Contract!Next]_(Contract!vars)
        => InOrder' /\ Domain' /\ [FailureEnds]_(Contract!vars)
  <2>1. UNCHANGED Contract!vars /\ InOrder /\ Domain => InOrder' /\ Domain'
    BY DEF Contract!vars, InOrder
  <2> QED BY <2>1, OrderStep
<1> HIDE DEF Domain
<1>3. Contract!Spec => []InOrder /\ [][FailureEnds]_(Contract!vars)
  BY <1>1, <1>2, PTL DEF Contract!Spec
<1> QED BY <1>3, ContractKept DEF KeepsContract

-----------------------------------------------------------------------------
(* Why a step is never posted.  A failed attempt names no cause of its own *)
(* later, so the invariant carries it: no cause goes away as time passes.  *)

\* What the checks look at in a step packet, signed or not.
LEMMA StepPacketFields ==
  ASSUME work \in Setups, work.client.key # None =>
           None # [key |-> work.client.key, over |-> NextCore]
  PROVE  LET p == MaybeSign(work.client, NextPacket)
             k == work.parent.core
         IN  /\ p.core = NextCore /\ p.hops = <<>> /\ p.restricted = work.parent.restricted
             /\ NextCore.audited = k.audited /\ NextCore.links = k.links
             /\ NextCore.until = k.until /\ NextCore.attached = k.attached
             /\ NextCore.type = "request" /\ NextCore.created = now
             /\ NextCore.expires = k.expires /\ NextCore.notBefore = k.notBefore
             /\ NextCore.replay = k.replay /\ NextCore.defects = k.defects
             /\ NextCore.timeout = k.timeout /\ NextCore.origin = "node"
             /\ NextCore.src = Node /\ NextCore.original = Node /\ NextCore.dst = Gate
             /\ NextCore.action = step /\ NextCore.asked = step
             /\ work.client.key = None => p.sig = None
             /\ work.client.key # None =>
                  p.sig # None /\ p.sig.key = work.client.key /\ p.sig.over = p.hash
<1> DEFINE k == work.parent.core
<1>1. {"id", "type", "action", "created", "expires", "notBefore", "timeout", "idem", "replay",
       "src", "dst", "payload", "origin", "asked", "original", "audited", "links", "until",
       "attached", "defects"} \subseteq DOMAIN k
  BY StepAssumption
<1>2. /\ NextCore.audited = k.audited /\ NextCore.links = k.links
      /\ NextCore.until = k.until /\ NextCore.attached = k.attached
      /\ NextCore.type = "request" /\ NextCore.created = now
      /\ NextCore.expires = k.expires /\ NextCore.notBefore = k.notBefore
      /\ NextCore.replay = k.replay /\ NextCore.defects = k.defects
      /\ NextCore.timeout = k.timeout /\ NextCore.origin = "node"
      /\ NextCore.src = Node /\ NextCore.original = Node /\ NextCore.dst = Gate
      /\ NextCore.action = step /\ NextCore.asked = step
  BY <1>1, SMTT(60) DEF NextCore, StepCore, Child
<1> DEFINE c == NextCore
           p == MaybeSign(work.client, Unsigned(c, work.parent.restricted))
<1>3. work.client.key # None => None # [key |-> work.client.key, over |-> c]
  OBVIOUS
<1> HIDE DEF c
<1>4. /\ p.core = c /\ p.hops = <<>> /\ p.restricted = work.parent.restricted
      /\ work.client.key = None => p.sig = None
      /\ work.client.key # None => p.sig = [key |-> work.client.key, over |-> c] /\ p.hash = c
  BY DEF MaybeSign, Unsigned, SignedBy, TransportHash
<1>5. work.client.key # None => p.sig # None /\ p.sig.key = work.client.key /\ p.sig.over = p.hash
  BY <1>3, <1>4
<1> QED
  BY <1>2, <1>4, <1>5 DEF NextPacket, StepPacket, NextCore, c

\* An attempt fails before its POST only for one of the reasons named.
LEMMA OnlyUnsendableFails ==
  ASSUME IInv, attempt + 1 \in 1..work.policy.max,
         work.client.key # None => None # [key |-> work.client.key, over |-> NextCore],
         ~CanBuild \/ SendError(work.client, NextPacket, now) # None
  PROVE  Unsendable
<1> DEFINE p == MaybeSign(work.client, NextPacket)
           k == work.parent.core
           w == work.client
           v == ClientCheck(w, w.requireSig)
<1> SUFFICES ASSUME ~Unsendable PROVE FALSE
  OBVIOUS
<1>0. /\ work \in Setups /\ now \in Nat /\ Skew \in Nat /\ MaxHops \in Nat /\ MaxLinks \in Nat
      /\ None # "TransportAuthenticationError"
  BY StepAssumption, DefaultsAssumption DEF IInv, TypeOK
<1>1. /\ k.expires \in Int \cup {None} /\ k.notBefore \in Int \cup {None}
      /\ k.timeout \in Nat /\ w.margin \in Nat /\ w.ceiling \in Nat \cup {None}
      /\ k.until \in Int \cup {None} /\ k.links \in Nat
  BY <1>0, StepAssumption
<1>2. /\ p.core = NextCore /\ p.hops = <<>> /\ p.restricted = work.parent.restricted
      /\ NextCore.audited = k.audited /\ NextCore.links = k.links
      /\ NextCore.until = k.until /\ NextCore.attached = k.attached
      /\ NextCore.type = "request" /\ NextCore.created = now
      /\ NextCore.expires = k.expires /\ NextCore.notBefore = k.notBefore
      /\ NextCore.replay = k.replay /\ NextCore.defects = k.defects
      /\ NextCore.timeout = k.timeout /\ NextCore.origin = "node"
      /\ NextCore.src = Node /\ NextCore.original = Node /\ NextCore.dst = Gate
      /\ NextCore.action = step /\ NextCore.asked = step
      /\ w.key = None => p.sig = None
      /\ w.key # None => p.sig # None /\ p.sig.key = w.key /\ p.sig.over = p.hash
  BY <1>0, StepPacketFields
<1>3. /\ ~(k.expires # None /\ now >= k.expires)
      /\ k.notBefore # None => k.notBefore = now
      /\ ~(k.until # None /\ now > k.until) /\ ~(k.links > MaxLinks)
      /\ k.attached # None => k.attached \in Attachable
      /\ ~k.replay /\ k.defects \ {"mandate"} = {} /\ ~(work.parent.restricted /\ ~k.audited)
      /\ Node # "client" /\ w.local = Node /\ w.gate = Gate
      /\ w.key # None => /\ w.keyId /\ w.unloadable = None
                         /\ w.alg = "hmac-sha256" \/ w.key \in w.verifying
      /\ w.key = None => ~w.requireSig
      /\ ~(Budget(w, work.parent) <= 0)
  BY <1>0 DEF Unsendable
<1>4. CanBuild
  <2>1. HeaderOK(NextCore)
    BY <1>0, <1>1, <1>2, <1>3 DEF HeaderOK
  <2>2. work.payloads[step] # None
    BY DEF Unsendable
  <2> QED
    BY <2>1, <2>2 DEF CanBuild, Buildable, NextCore
<1>5. NextPacket.core = NextCore
  BY NextIs
<1>19. ~(Size(p) > MaxBytes)
  <2>1. now \in 0..now
    BY <1>0
  <2> QED
    BY <2>1 DEF Unsendable, NextPacket
<1>6. PolicyAllows(w, NextPacket)
  BY <1>2, <1>3, <1>5 DEF PolicyAllows
<1>7. ~(Budget(w, NextPacket) <= 0)
  BY <1>2, <1>3, <1>5 DEF Budget
<1>8. /\ v.types = None /\ v.actions = None /\ v.node = None /\ v.skew = Skew
      /\ v.maxBytes = MaxBytes /\ v.maxLinks = MaxLinks /\ v.attachable = Attachable
      /\ v.maxHops = MaxHops /\ v.idem = {} /\ v.dev = ~w.requireSig
      /\ v.requireSig = w.requireSig /\ v.keys = Keyring(w)
  BY DEF ClientCheck
<1>9. w.key # None => w.key \in v.keys
  BY <1>3, <1>8 DEF Keyring
<1> HIDE DEF p, v
<1>10. ~(IF p.sig = None THEN (v.requireSig \/ p.restricted) /\ ~v.dev
           ELSE ~(v.dev /\ v.keys = {}) /\ ~SignatureVerifies(p, v.keys))
  <2>1. CASE w.key = None
    BY <2>1, <1>2, <1>3, <1>8
  <2>2. CASE w.key # None
    BY <2>2, <1>2, <1>9 DEF SignatureVerifies
  <2> QED
    BY <2>1, <2>2
<1>11. ValidHopTrace(p)
  BY <1>2 DEF ValidHopTrace, BadHops
<1>12. /\ ~(v.types # None /\ p.core.type \notin v.types)
       /\ ~(v.actions # None /\ p.core.action \notin v.actions)
       /\ ~(v.node # None /\ p.core.dst # v.node) /\ p.core.action \notin v.idem
  BY <1>8
<1>13. ~(p.core.created > now + v.skew) /\ ~(Len(p.hops) > v.maxHops)
  BY <1>0, <1>2, <1>8
<1>14. /\ ~(p.core.notBefore # None /\ now < p.core.notBefore)
       /\ ~(p.core.expires # None /\ now > p.core.expires)
  BY <1>0, <1>1, <1>2, <1>3
<1>15. /\ "schema" \notin p.core.defects /\ "governance" \notin p.core.defects
       /\ ~(p.restricted /\ ~p.core.audited)
       /\ p.core.type # "replay_request" /\ ~p.core.replay
  BY <1>2, <1>3
<1>18. DelegationOK(p.core, now)
  <2>1. "scopes" \notin p.core.defects /\ p.core.type # "delegation"
    BY <1>2, <1>3
  <2>2. p.core.until # None => now <= p.core.until
    BY <1>0, <1>1, <1>2, <1>3
  <2> QED
    BY <2>1, <2>2 DEF DelegationOK
<1>20. /\ ~(Size(p) > v.maxBytes) /\ ~(p.core.links > v.maxLinks)
       /\ ~(p.core.attached # None /\ p.core.attached \notin v.attachable)
  BY <1>2, <1>3, <1>8, <1>19
<1>16. Valid(p, v, now)
  BY <1>10, <1>11, <1>12, <1>13, <1>14, <1>15, <1>18, <1>20, ChecksPass
<1>21. SigningError(w, "GateConfigurationError", "GateSecurityError") = None
  BY <1>0, <1>3 DEF SigningError
<1>17. SendError(w, NextPacket, now) = None
  BY <1>3, <1>6, <1>7, <1>16, <1>21 DEF SendError, p, v
<1> QED
  BY <1>4, <1>17

\* A cause does not go away.
LEMMA UnsendableStays ==
  ASSUME IInv, Unsendable, work' = work, step' = step, now' \in {now, now + 1}
  PROVE  Unsendable'
<1>1. now \in Nat /\ work \in Setups
  BY DEF IInv, TypeOK
<1>2. {work.parent.core.expires, work.parent.core.until} \subseteq Int \cup {None}
  BY <1>1, StepAssumption
<1>3. \A e \in Int : (now >= e => now' >= e) /\ (now > e => now' > e)
  BY <1>1
<1>4. 0..now \subseteq 0..now'
  BY <1>1
<1>5. \A s, n, at : StepPacket(s, n, at)' = StepPacket(s, n, at)
  BY DEF StepPacket, StepCore, Child, Unsigned
<1> QED
  BY <1>2, <1>3, <1>4, <1>5 DEF Unsendable, Budget, Clamp, MaybeSign

\* An attempt that was not posted has a cause, even before the step is given up.
UnsentCause ==
  /\ phase = "waiting" => attempt \in 1..work.policy.max /\ <<step, attempt>> \in sent
  /\ phase \in {"backoff", "failed", "raised"} =>
       Unsendable \/ \E n \in 1..work.policy.max : <<step, n>> \in sent

LEMMA UnsentCauseStep ==
  ASSUME \A key, over : None # [key |-> key, over |-> over],
         IInv, IInv', UnsentCause, [Next]_vars
  PROVE  UnsentCause'
<1>0. work \in Setups /\ attempt \in 0..work.policy.max /\ work.policy.max \in Nat \ {0}
  BY StepAssumption DEF IInv, TypeOK
<1>1. CASE BuildFails \/ SendFails
  <2>1. Unsendable
    <3>1. attempt + 1 \in 1..work.policy.max
      BY <1>0, <1>1 DEF BuildFails, SendFails, AtAttempt, IInv, Progress
    <3> QED
      BY <1>1, <3>1, OnlyUnsendableFails DEF BuildFails, SendFails
  <2>2. work' = work /\ step' = step /\ now' = now /\ phase' \in {"backoff", "failed", "raised"}
    BY <1>1 DEF BuildFails, SendFails, AttemptFailed
  <2> QED
    BY <2>1, <2>2, UnsendableStays DEF UnsentCause
<1>2. CASE Post
  <2>1. phase' = "waiting" /\ attempt' = attempt + 1 /\ step' = step /\ work' = work
    BY <1>2 DEF Post
  <2>2. <<step, attempt + 1>> \in sent'
    BY <1>0, <1>2, StepCoreFields, NextIs DEF Post, NextCore
  <2>3. attempt + 1 \in 1..work.policy.max
    BY <1>0, <1>2 DEF Post, AtAttempt, IInv, Progress
  <2> QED
    BY <2>1, <2>2, <2>3 DEF UnsentCause
<1>3. CASE TimeOut \/ Disconnect \/ Reject
  <2>1. phase = "waiting" /\ phase' \in {"backoff", "failed"}
        /\ UNCHANGED <<work, step, sent>>
    BY <1>3 DEF TimeOut, Disconnect, Reject, AttemptFailed
  <2> QED
    BY <2>1 DEF UnsentCause
<1>4. CASE Accept \/ Cancel
  BY <1>4 DEF Accept, Cancel, UnsentCause
<1>5. CASE Execute \/ ServeCached \/ Refuse \/ Garble \/ Tick \/ UNCHANGED vars
  <2>1. UNCHANGED <<work, step, attempt, phase, sent>> /\ now' \in {now, now + 1}
    BY <1>5 DEF Execute, ServeCached, Refuse, Garble, Tick, vars, client, gate
  <2> QED
    BY <2>1, UnsendableStays DEF UnsentCause
<1> QED
  BY <1>1, <1>2, <1>3, <1>4, <1>5 DEF Next

\* A workflow fails at a step of which nothing was posted only for a reason of
\* its packet's or its client's, provided that no signature is None.
THEOREM UnsentHasCause ==
  ASSUME \A key, over : None # [key |-> key, over |-> over]
  PROVE  Spec => []UnsentOnlyForCause
<1>1. Init => UnsentCause
  BY DEF Init, UnsentCause
<1>2. IInv /\ IInv' /\ UnsentCause /\ [Next]_vars => UnsentCause'
  BY UnsentCauseStep
<1>3. UnsentCause => UnsentOnlyForCause
  BY DEF UnsentCause, UnsentOnlyForCause
<1>4. Spec => []IInv
  BY IInvariant
<1> QED
  BY <1>1, <1>2, <1>3, <1>4, PTL DEF Spec

-----------------------------------------------------------------------------
(* Progress.                                                                *)

\* How far the workflow is: how many turns of the handler it has taken at most.
\* A step has room for two turns an attempt and one to end.
Room == 2 * work.policy.max + 1
Turns ==
  (step - 1) * Room +
    CASE phase = "ready" -> 0
      [] phase = "waiting" -> 2 * attempt - 1
      [] phase = "backoff" -> 2 * attempt
      [] OTHER -> 2 * attempt + 1

\* The handler's turns; the other steps are Gate's, the network's and the clock's.
Turn == BuildFails \/ SendFails \/ Post \/ TimeOut \/ Disconnect \/ Accept \/ Reject \/ Cancel

\* Of two numbers of steps, the room of the smaller is the smaller.
LEMMA MoreRoom ==
  ASSUME NEW m \in Nat, NEW n \in Nat, m <= n, NEW r \in Nat
  PROVE  /\ m * r \in Nat /\ n * r \in Nat
         /\ m * r <= n * r /\ (m + 1) * r = m * r + r
OBVIOUS

\* How the state of the handler changes in its turns.
LEMMA TurnForms ==
  ASSUME IInv, Turn
  PROVE  /\ work' = work /\ work.policy.max \in Nat
         /\ step \in Nat /\ step > 0 /\ attempt \in Nat /\ attempt <= work.policy.max
         /\ phase = "waiting" => attempt > 0
         /\ phase = "ready" => attempt = 0
         /\ \/ /\ phase \in {"ready", "backoff"} /\ step' = step /\ attempt' = attempt + 1
               /\ phase' \in {"waiting", "backoff", "failed", "raised"}
            \/ /\ phase = "waiting" /\ UNCHANGED <<step, attempt>>
               /\ phase' \in {"backoff", "failed", "done"}
            \/ /\ phase = "waiting" /\ step' = step + 1 /\ attempt' = 0 /\ phase' = "ready"
            \/ /\ phase \in Live /\ UNCHANGED <<step, attempt>> /\ phase' = "cancelled"
<1>1. /\ work \in Setups /\ work.policy.max \in Nat
      /\ step \in Nat /\ step > 0 /\ attempt \in Nat /\ attempt <= work.policy.max
  BY StepAssumption DEF IInv, TypeOK
<1>2. (phase = "waiting" => attempt > 0) /\ (phase = "ready" => attempt = 0)
  BY DEF IInv, Progress
<1>3. CASE BuildFails \/ SendFails \/ Post
  BY <1>1, <1>2, <1>3 DEF BuildFails, SendFails, Post, AtAttempt, AttemptFailed
<1>4. CASE TimeOut \/ Disconnect \/ Reject
  BY <1>1, <1>2, <1>4 DEF TimeOut, Disconnect, Reject, AttemptFailed
<1>5. CASE Accept
  BY <1>1, <1>2, <1>5 DEF Accept
<1>6. CASE Cancel
  BY <1>1, <1>2, <1>6 DEF Cancel, Due
<1> QED BY <1>3, <1>4, <1>5, <1>6 DEF Turn

\* Each turn of the handler takes the workflow further and nothing else moves it.
LEMMA TurnCounts ==
  ASSUME IInv, [Next]_vars
  PROVE  (Turn => Turns' > Turns) /\ (~Turn => Turns' = Turns)
<1>1. CASE Turn
  <2>1. /\ work' = work /\ work.policy.max \in Nat
        /\ step \in Nat /\ step > 0 /\ attempt \in Nat /\ attempt <= work.policy.max
        /\ phase = "waiting" => attempt > 0
        /\ phase = "ready" => attempt = 0
    BY <1>1, TurnForms
  <2>2. PICK room \in Nat : room = Room /\ Room' = room /\ room = 2 * work.policy.max + 1
    BY <2>1 DEF Room
  <2>3. PICK before \in Nat : before = (step - 1) * room /\ step * room = before + room
    <3>1. step - 1 \in Nat /\ (step - 1) + 1 = step
      BY <2>1
    <3> QED BY <2>2, <3>1, MoreRoom
  <2>4. CASE phase \in {"ready", "backoff"} /\ step' = step /\ attempt' = attempt + 1
               /\ phase' \in {"waiting", "backoff", "failed", "raised"}
    <3>1. Turns = before + (IF phase = "ready" THEN 0 ELSE 2 * attempt)
      BY <2>2, <2>3, <2>4 DEF Turns
    <3>2. Turns' \in Int /\ Turns' >= before + 2 * (attempt + 1) - 1
      BY <2>1, <2>2, <2>3, <2>4 DEF Turns
    <3> QED BY <1>1, <2>1, <2>3, <2>4, <3>1, <3>2
  <2>5. CASE phase = "waiting" /\ UNCHANGED <<step, attempt>>
               /\ phase' \in {"backoff", "failed", "done"}
    <3>1. Turns = before + 2 * attempt - 1
      BY <2>1, <2>2, <2>3, <2>5 DEF Turns
    <3>2. Turns' \in Int /\ Turns' >= before + 2 * attempt
      BY <2>1, <2>2, <2>3, <2>5 DEF Turns
    <3> QED BY <1>1, <2>1, <2>3, <2>5, <3>1, <3>2
  <2>6. CASE phase = "waiting" /\ step' = step + 1 /\ attempt' = 0 /\ phase' = "ready"
    <3>1. Turns = before + 2 * attempt - 1
      BY <2>1, <2>2, <2>3, <2>6 DEF Turns
    <3>2. Turns' = before + room
      <4>1. (step + 1) - 1 = step
        BY <2>1
      <4> QED BY <2>2, <2>3, <2>6, <4>1 DEF Turns
    <3> QED BY <1>1, <2>1, <2>2, <2>6, <3>1, <3>2
  <2>7. CASE phase \in Live /\ UNCHANGED <<step, attempt>> /\ phase' = "cancelled"
    <3>1. Turns <= before + 2 * attempt
      BY <2>1, <2>2, <2>3, <2>7 DEF Turns, Live
    <3>2. Turns' = before + 2 * attempt + 1
      BY <2>1, <2>2, <2>3, <2>7 DEF Turns
    <3>3. Turns \in Int
      BY <2>1, <2>2, <2>3, <2>7 DEF Turns, Live
    <3> QED BY <1>1, <2>1, <2>7, <3>1, <3>2, <3>3
  <2> QED BY <1>1, <2>4, <2>5, <2>6, <2>7, TurnForms
<1>2. CASE ~Turn
  <2>1. UNCHANGED <<work, step, attempt, phase>>
    BY <1>2 DEF Next, Turn, Execute, ServeCached, Refuse, Garble, Tick, vars, client, gate
  <2> QED BY <1>2, <2>1 DEF Turns, Room
<1> QED BY <1>1, <1>2

\* There is an end to it.
LEMMA TurnsBounded == IInv => Turns \in 0..Steps * Room
<1> SUFFICES ASSUME IInv PROVE Turns \in 0..Steps * Room
  OBVIOUS
<1>1. /\ work.policy.max \in Nat /\ step \in 1..Steps /\ Steps \in Nat
      /\ attempt \in Nat /\ attempt <= work.policy.max
  BY StepAssumption DEF IInv, TypeOK
<1>2. phase \in Live \cup Over /\ (phase = "waiting" => attempt > 0)
  BY DEF IInv, TypeOK, Progress
<1>3. PICK room \in Nat : room = Room /\ room = 2 * work.policy.max + 1
  BY <1>1 DEF Room
<1>4. PICK before \in Nat, all \in Nat :
        before = (step - 1) * room /\ all = Steps * room /\ before + room <= all
  <2>1. step - 1 \in Nat /\ step \in Nat /\ (step - 1) + 1 = step /\ step <= Steps
    BY <1>1
  <2>2. (step - 1) * room \in Nat /\ step * room = (step - 1) * room + room
    <3>1. PICK m \in Nat : m = step - 1 /\ m + 1 = step
      BY <2>1
    <3>2. m * room \in Nat /\ (m + 1) * room = m * room + room
      BY <1>3, MoreRoom
    <3> QED BY <3>1, <3>2
  <2>3. Steps * room \in Nat /\ step * room <= Steps * room
    BY <1>1, <1>3, <2>1, MoreRoom
  <2> QED BY <2>2, <2>3
<1>5. Turns \in before..(before + 2 * attempt + 1)
  BY <1>1, <1>2, <1>3, <1>4 DEF Turns, Live, Over
<1> QED BY <1>1, <1>3, <1>4, <1>5

\* A workflow has at most Steps times two turns an attempt and one: each turn of
\* execute_step's loop takes it further, and none comes back.  What the clock and
\* the scheduler add to this is WorkflowEnds.
THEOREM WorkflowAdvances ==
  Spec => /\ [](Turns \in 0..Steps * Room)
          /\ [][(Turn => Turns' > Turns) /\ (~Turn => Turns' = Turns)]_vars
<1>1. IInv => Turns \in 0..Steps * Room
  BY TurnsBounded
<1>2. IInv /\ [Next]_vars => [(Turn => Turns' > Turns) /\ (~Turn => Turns' = Turns)]_vars
  BY TurnCounts
<1> QED
  BY <1>1, <1>2, IInvariant, PTL DEF Spec
=============================================================================

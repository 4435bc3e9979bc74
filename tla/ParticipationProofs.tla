------------------------- MODULE ParticipationProofs -------------------------
(***************************************************************************)
(* Participation, proved for every set of settings, every number of tries  *)
(* and every number of faults.  What the invariants of the runs leave out, *)
(* and induction needs, is how far the lifespan is against the status and  *)
(* the call in flight (Phases), and that an acceptance is never on the     *)
(* wire of a process Gate has not heard (Acceptances).                     *)
(***************************************************************************)
EXTENDS Participation, TLAPS

\* The lifespan, the status and the call agree.
Phases ==
  /\ started <=> life \in {"registering", "serving"}
  /\ state = "disabled" <=> ~opts.enabled
  /\ life = "booting" => state \in {"not_attempted", "disabled"}
  /\ life = "registering" => state = "registering"
  /\ call.phase # "none" => state \in {"registering", "active"}
  /\ call.phase = "backoff" => call.tries < Retries
  /\ call.phase = "none" => call.tries = 0

\* A reply takes its request's place on the wire; an acceptance, on the wire or
\* recorded, is one Gate gave this process.
Acceptances ==
  /\ net.request => net.reply = "none"
  /\ net.reply = "accepted" => heard
  /\ state = "active" /\ life # "down" => heard

IInv == /\ TypeOK
        /\ Phases
        /\ Acceptances
        /\ ReadyCoherent
        /\ StatusCounts
        /\ OneAttemptAtATime

\* A saturating counter stays in its range, is positive once counted, and keeps
\* the order of two counters.
LEMMA CountBounds ==
  ASSUME NEW m \in 0..CounterCap, NEW n \in 0..CounterCap
  PROVE  /\ Count(n) \in 0..CounterCap
         /\ Count(n) > 0
         /\ m <= n => Count(m) <= Count(n)
BY ParticipationAssumption DEF Count

\* The wire keeps its type when a request is abandoned, and carries nothing more.
LEMMA AbandonType ==
  ASSUME NEW n \in [request : BOOLEAN, reply : Replies, old : SUBSET {"mine", "earlier"}],
         NEW owner \in {"mine", "earlier"}
  PROVE  /\ Abandon(n, owner) \in
              [request : BOOLEAN, reply : Replies, old : SUBSET {"mine", "earlier"}]
         /\ ~Abandon(n, owner).request
         /\ Abandon(n, owner).reply = "none"
BY DEF Abandon, Replies

\* No call is a call, and a fault is counted within its bound.
LEMMA NoCallType == NoCall \in [phase : {"none", "waiting", "backoff"}, tries : 0..Retries]
BY ParticipationAssumption DEF NoCall

LEMMA FaultBound ==
  ASSUME faults \in 0..MaxFaults, Fault
  PROVE  faults' \in 0..MaxFaults /\ faults' = faults + 1 /\ faults' # faults
BY ParticipationAssumption DEF Fault

LEMMA InitIInv == Init => IInv
<1> SUFFICES ASSUME Init PROVE IInv
  OBVIOUS
<1>1. TypeOK
  <2>1. net \in [request : BOOLEAN, reply : Replies, old : SUBSET {"mine", "earlier"}]
    BY DEF Init, NoNet, Replies
  <2>2. call \in [phase : {"none", "waiting", "backoff"}, tries : 0..Retries]
    BY NoCallType DEF Init
  <2>3. attempts \in 0..CounterCap /\ failures \in 0..CounterCap /\ faults \in 0..MaxFaults
    BY ParticipationAssumption DEF Init
  <2> QED
    BY <2>1, <2>2, <2>3 DEF Init, TypeOK, States
<1>2. opts.enabled \in BOOLEAN
  BY ParticipationAssumption DEF Init
<1>3. Phases /\ Acceptances
  BY <1>2 DEF Init, Phases, Acceptances, NoCall, NoNet
<1>4. ReadyCoherent
  BY DEF Init, ReadyCoherent, Ready
<1>5. StatusCounts /\ OneAttemptAtATime
  BY DEF Init, StatusCounts, OneAttemptAtATime, NoCall, NoNet
<1> QED
  BY <1>1, <1>3, <1>4, <1>5 DEF IInv

\* The end of an attempt, accepted or not: a status that counts, and no call.
LEMMA EndOfAttempt ==
  ASSUME TypeOK, failures <= attempts, NEW accepted \in BOOLEAN, EndAttempt(accepted)
  PROVE  /\ state' = IF accepted THEN "active" ELSE "degraded"
         /\ ready' = Ready(started', state')
         /\ call' = NoCall
         /\ attempts' \in 0..CounterCap /\ failures' \in 0..CounterCap
         /\ StatusCounts'
<1>1. attempts \in 0..CounterCap /\ failures \in 0..CounterCap
  BY DEF TypeOK
<1>2. Count(attempts) \in 0..CounterCap /\ Count(attempts) > 0
  BY <1>1, CountBounds
<1>3. Count(failures) \in 0..CounterCap /\ Count(failures) > 0
  BY <1>1, CountBounds
<1>4. Count(failures) <= Count(attempts)
  BY <1>1, CountBounds
<1>5. attempts' = Count(attempts)
  BY DEF EndAttempt
<1>6. failures' = IF accepted THEN 0 ELSE Count(failures)
  BY DEF EndAttempt
<1>7. /\ state' = IF accepted THEN "active" ELSE "degraded"
      /\ ready' = Ready(started', state')
      /\ call' = NoCall
  BY DEF EndAttempt, SetState
<1>8. StatusCounts'
  BY <1>2, <1>3, <1>4, <1>5, <1>6, <1>7, ParticipationAssumption DEF StatusCounts
<1> QED
  BY <1>2, <1>3, <1>5, <1>6, <1>7, <1>8, ParticipationAssumption

\* The start of an attempt: one POST on the wire, and the status as it may be.
LEMMA StartOfAttempt ==
  ASSUME IInv, state # "disabled", BeginAttempt
  PROVE  /\ state' = IF state = "active" THEN "active" ELSE "registering"
         /\ ready' = IF state = "active" THEN ready ELSE Ready(started', state')
         /\ call' = [phase |-> "waiting", tries |-> 1]
         /\ call' \in [phase : {"none", "waiting", "backoff"}, tries : 0..Retries]
         /\ net' \in [request : BOOLEAN, reply : Replies, old : SUBSET {"mine", "earlier"}]
         /\ net'.reply = "none"
         /\ UNCHANGED <<attempts, failures>>
         /\ StatusCounts'
<1>1. /\ state' = IF state = "active" THEN "active" ELSE "registering"
      /\ ready' = IF state = "active" THEN ready ELSE Ready(started', state')
  BY DEF BeginAttempt, Ask, SetState
<1>2. /\ call' = [phase |-> "waiting", tries |-> 1]
      /\ UNCHANGED <<attempts, failures>>
      /\ net' = [net EXCEPT !.request = TRUE, !.reply = "none"]
  BY DEF BeginAttempt
<1>3. net \in [request : BOOLEAN, reply : Replies, old : SUBSET {"mine", "earlier"}]
  BY DEF IInv, TypeOK
<1>4. /\ net' \in [request : BOOLEAN, reply : Replies, old : SUBSET {"mine", "earlier"}]
      /\ net'.reply = "none"
  BY <1>2, <1>3 DEF Replies
<1>5. call' \in [phase : {"none", "waiting", "backoff"}, tries : 0..Retries]
  BY <1>2, ParticipationAssumption
<1>6. StatusCounts'
  BY <1>1, <1>2 DEF IInv, StatusCounts
<1> QED
  BY <1>1, <1>2, <1>4, <1>5, <1>6

\* The lifespan's own steps preserve the invariant.
LEMMA LifespanStep ==
  ASSUME IInv, Boot \/ ServeDisabled \/ Shutdown \/ Exit \/ Crash
  PROVE  IInv'
<1> USE DEF IInv
<1>1. CASE Boot
  <2>1. opts.enabled \in BOOLEAN
    BY ParticipationAssumption DEF TypeOK
  <2>2. TypeOK'
    <3>1. attempts' \in 0..CounterCap /\ failures' \in 0..CounterCap
      BY <1>1, ParticipationAssumption DEF Boot
    <3>2. state' \in States
      BY <1>1 DEF Boot, States
    <3> QED
      BY <1>1, <3>1, <3>2, NoCallType DEF Boot, TypeOK
  <2>3. net.reply = "none" /\ ~net.request
    BY <1>1 DEF Boot, Phases, OneAttemptAtATime
  <2>4. Phases' /\ Acceptances'
    BY <1>1, <2>1, <2>3 DEF Boot, Phases, Acceptances, NoCall
  <2>5. ReadyCoherent' /\ StatusCounts' /\ OneAttemptAtATime'
    BY <1>1, <2>3 DEF Boot, ReadyCoherent, Ready, StatusCounts, OneAttemptAtATime, NoCall
  <2> QED
    BY <2>2, <2>4, <2>5
<1>2. CASE ServeDisabled
  BY <1>2 DEF ServeDisabled, TypeOK, Phases, Acceptances, ReadyCoherent, Ready, ReadyStates,
              StatusCounts, OneAttemptAtATime
<1>3. CASE Shutdown
  <2>1. /\ net' \in [request : BOOLEAN, reply : Replies, old : SUBSET {"mine", "earlier"}]
        /\ ~net'.request /\ net'.reply = "none"
    BY <1>3, AbandonType DEF Shutdown, TypeOK
  <2>2. ready' = FALSE /\ call' = NoCall /\ life' = "stopped" /\ started' = FALSE
    BY <1>3 DEF Shutdown, Ready
  <2>3. TypeOK'
    BY <1>3, <2>1, <2>2, NoCallType DEF Shutdown, TypeOK
  <2>4. Phases' /\ Acceptances'
    BY <1>3, <2>1, <2>2 DEF Shutdown, Phases, Acceptances, NoCall
  <2>5. ReadyCoherent' /\ StatusCounts' /\ OneAttemptAtATime'
    BY <1>3, <2>1, <2>2 DEF Shutdown, ReadyCoherent, Ready, StatusCounts, OneAttemptAtATime, NoCall
  <2> QED
    BY <2>3, <2>4, <2>5
<1>4. CASE Exit
  <2>1. /\ net' \in [request : BOOLEAN, reply : Replies, old : SUBSET {"mine", "earlier"}]
        /\ net'.request = net.request /\ net'.reply = net.reply
    BY <1>4 DEF Exit, TypeOK
  <2> QED
    BY <1>4, <2>1 DEF Exit, TypeOK, Phases, Acceptances, ReadyCoherent, StatusCounts,
                      OneAttemptAtATime
<1>5. CASE Crash
  <2>1. /\ net' \in [request : BOOLEAN, reply : Replies, old : SUBSET {"mine", "earlier"}]
        /\ ~net'.request /\ net'.reply = "none"
    BY <1>5, AbandonType DEF Crash, TypeOK
  <2>2. /\ ready' = FALSE /\ call' = NoCall /\ life' = "down" /\ started' = FALSE
        /\ faults' \in 0..MaxFaults
    BY <1>5, FaultBound DEF Crash, TypeOK, Ready
  <2>3. TypeOK'
    BY <1>5, <2>1, <2>2, NoCallType DEF Crash, TypeOK
  <2>4. Phases' /\ Acceptances'
    BY <1>5, <2>1, <2>2 DEF Crash, Phases, Acceptances, NoCall
  <2>5. ReadyCoherent' /\ StatusCounts' /\ OneAttemptAtATime'
    BY <1>5, <2>1, <2>2 DEF Crash, ReadyCoherent, Ready, StatusCounts, OneAttemptAtATime, NoCall
  <2> QED
    BY <2>3, <2>4, <2>5
<1> QED
  BY <1>1, <1>2, <1>3, <1>4, <1>5

\* Gate and the network preserve the invariant: an acceptance on the wire is one
\* of this process, and a reply answers a request that was there.
LEMMA GateLemma ==
  ASSUME IInv, GateStep
  PROVE  IInv'
<1> USE DEF IInv
<1>1. net \in [request : BOOLEAN, reply : Replies, old : SUBSET {"mine", "earlier"}]
  BY DEF TypeOK
<1>2. UNCHANGED <<opts, nodeVars>>
  BY DEF GateStep, GateAccepts, GateRefuses, GateFaults, Garble, LateRequest, Lose, GateRestart
<1>3. UNCHANGED <<opts, life, started, ready, state, attempts, failures, call>>
  BY <1>2 DEF nodeVars
<1>4. /\ net' \in [request : BOOLEAN, reply : Replies, old : SUBSET {"mine", "earlier"}]
      /\ net'.request => net.request /\ net'.reply = "none"
      /\ net'.reply # "none" => net.request \/ net.reply # "none"
      /\ net'.reply = "accepted" => heard'
      /\ heard => heard'
  <2>1. CASE GateAccepts
    BY <1>1, <2>1 DEF GateAccepts, Replies
  <2>2. CASE GateRefuses
    BY <1>1, <2>2 DEF GateRefuses, Replies
  <2>3. CASE GateFaults
    BY <1>1, <2>3 DEF GateFaults, Replies
  <2>4. CASE LateRequest
    BY <1>1, <2>4 DEF LateRequest, Acceptances
  <2>5. CASE Lose
    BY <1>1, <2>5 DEF Lose, Replies, Acceptances
  <2>6. CASE GateRestart
    BY <1>1, <2>6 DEF GateRestart, Acceptances
  <2>7. CASE Garble
    BY <1>1, <2>7 DEF Garble, Replies, Acceptances
  <2> QED
    BY <2>1, <2>2, <2>3, <2>4, <2>5, <2>6, <2>7 DEF GateStep
<1>5. /\ gate' \in {"unknown", "known", "forgotten"}
      /\ heard' \in BOOLEAN
      /\ faults' \in 0..MaxFaults
  <2>1. gate' \in {"unknown", "known", "forgotten"}
    BY DEF GateStep, GateAccepts, GateRefuses, GateFaults, Garble, LateRequest, Lose, GateRestart, TypeOK
  <2>2. heard' \in BOOLEAN
    BY DEF GateStep, GateAccepts, GateRefuses, GateFaults, Garble, LateRequest, Lose, GateRestart, TypeOK
  <2>3. faults' \in 0..MaxFaults
    <3>1. CASE Fault
      BY <3>1, FaultBound DEF TypeOK
    <3>2. CASE UNCHANGED faults
      BY <3>2 DEF TypeOK
    <3> QED
      BY <3>1, <3>2
      DEF GateStep, GateAccepts, GateRefuses, GateFaults, Garble, LateRequest, Lose, GateRestart
  <2> QED
    BY <2>1, <2>2, <2>3
<1>6. TypeOK'
  BY <1>3, <1>4, <1>5 DEF TypeOK
<1>7. Phases' /\ Acceptances'
  BY <1>3, <1>4 DEF Phases, Acceptances
<1>8. ReadyCoherent' /\ StatusCounts' /\ OneAttemptAtATime'
  BY <1>3, <1>4 DEF ReadyCoherent, Ready, StatusCounts, OneAttemptAtATime
<1> QED
  BY <1>6, <1>7, <1>8

\* A node that serves once an attempt has ended is in the invariant again.
LEMMA ServesAfterAttempt ==
  ASSUME IInv, NEW accepted \in BOOLEAN, EndAttempt(accepted), accepted => heard',
         life' = "serving", started', started' \in BOOLEAN, state # "disabled",
         UNCHANGED <<opts, gate, heard>>, faults' \in 0..MaxFaults,
         net' \in [request : BOOLEAN, reply : Replies, old : SUBSET {"mine", "earlier"}],
         ~net'.request, net'.reply = "none"
  PROVE  IInv'
<1> USE DEF IInv
<1>1. /\ state' = IF accepted THEN "active" ELSE "degraded"
      /\ ready' = Ready(started', state')
      /\ call' = NoCall
      /\ attempts' \in 0..CounterCap /\ failures' \in 0..CounterCap
      /\ StatusCounts'
  BY EndOfAttempt DEF StatusCounts
<1>2. ready' \in BOOLEAN
  BY <1>1 DEF Ready
<1>3. TypeOK'
  BY <1>1, <1>2, NoCallType DEF TypeOK, States
<1>4. Phases'
  BY <1>1 DEF Phases, NoCall
<1>5. Acceptances'
  BY <1>1 DEF Acceptances
<1>6. ReadyCoherent' /\ OneAttemptAtATime'
  BY <1>1 DEF ReadyCoherent, OneAttemptAtATime, NoCall
<1> QED
  BY <1>1, <1>3, <1>4, <1>5, <1>6

\* A failed try, the last one or not, preserves the invariant.
LEMMA FailedTry ==
  ASSUME IInv, TryFailed, call.phase = "waiting",
         UNCHANGED <<opts, gate, heard>>, faults' \in 0..MaxFaults,
         net' \in [request : BOOLEAN, reply : Replies, old : SUBSET {"mine", "earlier"}],
         ~net'.request, net'.reply = "none"
  PROVE  IInv'
<1> USE DEF IInv
<1>1. /\ life \in {"registering", "serving"} /\ started
      /\ state \in {"registering", "active"}
  BY DEF Phases, OneAttemptAtATime
<1>2. CASE call.tries < Retries
  <2>1. /\ call' = [call EXCEPT !.phase = "backoff"]
        /\ UNCHANGED <<life, started, ready, state, attempts, failures>>
    BY <1>2 DEF TryFailed
  <2>2. /\ call' \in [phase : {"none", "waiting", "backoff"}, tries : 0..Retries]
        /\ call'.phase = "backoff" /\ call'.tries = call.tries
    BY <2>1 DEF TypeOK
  <2>3. TypeOK'
    BY <2>1, <2>2 DEF TypeOK
  <2>4. Phases' /\ Acceptances'
    BY <1>1, <1>2, <2>1, <2>2 DEF Phases, Acceptances
  <2>5. ReadyCoherent' /\ StatusCounts' /\ OneAttemptAtATime'
    BY <2>1, <2>2 DEF ReadyCoherent, Ready, StatusCounts, OneAttemptAtATime
  <2> QED
    BY <2>3, <2>4, <2>5
<1>3. CASE ~(call.tries < Retries)
  <2>1. life' = "serving" /\ UNCHANGED started /\ EndAttempt(FALSE)
    BY <1>3 DEF TryFailed, Resume
  <2>2. started' /\ started' \in BOOLEAN
    BY <1>1, <2>1 DEF TypeOK
  <2> QED
    BY <1>1, <2>1, <2>2, ServesAfterAttempt
<1> QED
  BY <1>2, <1>3

\* The attempt's steps preserve the invariant.
LEMMA AttemptStep ==
  ASSUME IInv, FirstAttempt \/ Reregister \/ Unbuildable \/ Accepted \/ Decided
                 \/ Raises \/ Failed \/ Unreachable \/ Retry
  PROVE  IInv'
<1> USE DEF IInv
<1>1. net \in [request : BOOLEAN, reply : Replies, old : SUBSET {"mine", "earlier"}]
  BY DEF TypeOK
<1>2. faults \in 0..MaxFaults
  BY DEF TypeOK
<1>3. CASE FirstAttempt \/ Reregister
  <2>1. state # "disabled" /\ BeginAttempt /\ started' /\ started' \in BOOLEAN
    BY <1>3 DEF FirstAttempt, Reregister, Phases, TypeOK
  <2>2. UNCHANGED <<opts, gate, heard, faults>>
    BY <1>3 DEF FirstAttempt, Reregister
  <2>3. life' = (IF life = "booting" THEN "registering" ELSE "serving")
    BY <1>3 DEF FirstAttempt, Reregister
  <2>4. life' = "registering" => state = "not_attempted"
    BY <1>3, <2>1, <2>3 DEF FirstAttempt, Reregister, Phases
  <2>5. life # "down"
    BY <1>3 DEF FirstAttempt, Reregister
  <2>6. state = "active" => started
    BY <1>3, <2>4 DEF FirstAttempt, Reregister, Phases
  <2>7. /\ state' = IF state = "active" THEN "active" ELSE "registering"
        /\ ready' = IF state = "active" THEN ready ELSE Ready(started', state')
        /\ call' = [phase |-> "waiting", tries |-> 1]
        /\ call' \in [phase : {"none", "waiting", "backoff"}, tries : 0..Retries]
        /\ net' \in [request : BOOLEAN, reply : Replies, old : SUBSET {"mine", "earlier"}]
        /\ net'.reply = "none"
        /\ UNCHANGED <<attempts, failures>>
        /\ StatusCounts'
    BY <2>1, StartOfAttempt
  <2>8. ready' \in BOOLEAN
    BY <2>7 DEF Ready, TypeOK
  <2>9. TypeOK'
    BY <2>1, <2>2, <2>3, <2>7, <2>8 DEF TypeOK, States
  <2>10. Phases' /\ Acceptances'
    <3>1. opts'.enabled /\ state' # "disabled" /\ state' \in {"registering", "active"}
      BY <2>1, <2>2, <2>7 DEF Phases
    <3>2. life' \in {"registering", "serving"} /\ call'.phase = "waiting"
      BY <2>3, <2>7
    <3>3. life' = "registering" => state' = "registering"
      BY <2>4, <2>7
    <3>4. Phases'
      BY <2>1, <3>1, <3>2, <3>3 DEF Phases
    <3>5. Acceptances'
      BY <2>2, <2>5, <2>7 DEF Acceptances
    <3> QED
      BY <3>4, <3>5
  <2>11. ReadyCoherent'
    <3>1. CASE state = "active"
      <4>1. ready' = ready /\ state' = state
        BY <2>7, <3>1
      <4> QED
        BY <2>1, <2>6, <3>1, <4>1 DEF ReadyCoherent, Ready
    <3>2. CASE state # "active"
      <4>1. ready' = Ready(started', state')
        BY <2>7, <3>2
      <4> QED
        BY <4>1 DEF ReadyCoherent
    <3> QED
      BY <3>1, <3>2
  <2>12. OneAttemptAtATime'
    BY <2>3, <2>7 DEF OneAttemptAtATime
  <2> QED
    BY <2>7, <2>9, <2>10, <2>11, <2>12
<1>4. CASE Unbuildable
  <2>1. /\ state # "disabled" /\ started' /\ started' \in BOOLEAN
        /\ call.phase = "none"
    <3>1. CASE life = "booting"
      BY <1>4, <3>1 DEF Unbuildable, Phases, OneAttemptAtATime
    <3>2. CASE life = "serving"
      BY <1>4, <3>2 DEF Unbuildable, Phases, TypeOK
    <3> QED
      BY <1>4, <3>1, <3>2 DEF Unbuildable
  <2>2. net' \in [request : BOOLEAN, reply : Replies, old : SUBSET {"mine", "earlier"}]
        /\ ~net'.request /\ net'.reply = "none"
    BY <1>1, <1>4, <2>1 DEF Unbuildable, OneAttemptAtATime
  <2>3. /\ EndAttempt(FALSE) /\ life' = "serving" /\ UNCHANGED <<opts, gate, heard>>
        /\ faults' \in 0..MaxFaults
    BY <1>2, <1>4, FaultBound DEF Unbuildable
  <2> QED
    BY <2>1, <2>2, <2>3, ServesAfterAttempt
<1>5. CASE Accepted \/ Decided \/ Raises
  <2>1. /\ life' = "serving" /\ UNCHANGED <<opts, started, gate, heard, faults>>
        /\ net' = [net EXCEPT !.reply = "none"]
        /\ call.phase = "waiting" /\ net.reply # "none"
    BY <1>5 DEF Accepted, Decided, Raises, Resume
  <2>2. started' /\ started' \in BOOLEAN /\ state # "disabled"
    BY <2>1 DEF Phases, TypeOK, OneAttemptAtATime
  <2>3. ~net.request
    BY <2>1 DEF Acceptances
  <2>4. net' \in [request : BOOLEAN, reply : Replies, old : SUBSET {"mine", "earlier"}]
        /\ ~net'.request /\ net'.reply = "none"
    BY <1>1, <2>1, <2>3 DEF Replies
  <2>5. CASE Accepted
    <3>1. EndAttempt(TRUE)
      BY <2>5 DEF Accepted
    <3>2. heard
      BY <2>5 DEF Accepted, Acceptances
    <3>3. heard' = heard
      BY <2>1
    <3>4. heard'
      BY <3>2, <3>3
    <3> QED
      BY <1>2, <2>1, <2>2, <2>4, <3>1, <3>4, ServesAfterAttempt
  <2>6. CASE Decided \/ Raises
    <3>1. EndAttempt(FALSE)
      BY <2>6 DEF Decided, Raises
    <3> QED
      BY <1>2, <2>1, <2>2, <2>4, <3>1, ServesAfterAttempt
  <2> QED
    BY <1>5, <2>5, <2>6
<1>6. CASE Failed
  <2>1. /\ TryFailed /\ call.phase = "waiting" /\ UNCHANGED <<opts, gate, heard, faults>>
        /\ net' = [net EXCEPT !.reply = "none"] /\ net.reply # "none"
    BY <1>6 DEF Failed
  <2>2. net' \in [request : BOOLEAN, reply : Replies, old : SUBSET {"mine", "earlier"}]
        /\ ~net'.request /\ net'.reply = "none"
    BY <1>1, <2>1 DEF Acceptances, Replies
  <2> QED
    BY <1>2, <2>1, <2>2, FailedTry
<1>7. CASE Unreachable
  <2>1. /\ TryFailed /\ call.phase = "waiting" /\ UNCHANGED <<opts, gate, heard>>
        /\ net' = Abandon(net, "mine")
    BY <1>7 DEF Unreachable
  <2>2. faults' \in 0..MaxFaults
    BY <1>2, <1>7, FaultBound DEF Unreachable
  <2>3. net' \in [request : BOOLEAN, reply : Replies, old : SUBSET {"mine", "earlier"}]
        /\ ~net'.request /\ net'.reply = "none"
    BY <1>1, <2>1, AbandonType
  <2> QED
    BY <2>1, <2>2, <2>3, FailedTry
<1>8. CASE Retry
  <2>1. /\ call.phase = "backoff" /\ call.tries \in 0..Retries /\ call.tries < Retries
        /\ UNCHANGED <<opts, life, started, ready, state, attempts, failures, gate, heard, faults>>
    BY <1>8 DEF Retry, TypeOK, Phases
  <2>2. /\ call' = [phase |-> "waiting", tries |-> call.tries + 1]
        /\ net' = [net EXCEPT !.request = TRUE, !.reply = "none"]
    BY <1>8 DEF Retry
  <2>3. call.tries + 1 \in 0..Retries /\ call.tries + 1 > 0
    BY <2>1, ParticipationAssumption
  <2>4. /\ call' \in [phase : {"none", "waiting", "backoff"}, tries : 0..Retries]
        /\ call'.phase = "waiting" /\ call'.tries > 0
    BY <2>2, <2>3
  <2>5. /\ net' \in [request : BOOLEAN, reply : Replies, old : SUBSET {"mine", "earlier"}]
        /\ net'.reply = "none"
    BY <1>1, <2>2 DEF Replies
  <2>6. TypeOK'
    BY <2>1, <2>4, <2>5 DEF TypeOK
  <2>7. Phases' /\ Acceptances'
    BY <2>1, <2>4, <2>5 DEF Phases, Acceptances
  <2>8. ReadyCoherent' /\ StatusCounts' /\ OneAttemptAtATime'
    BY <2>1, <2>4, <2>5 DEF ReadyCoherent, Ready, StatusCounts, OneAttemptAtATime
  <2> QED
    BY <2>6, <2>7, <2>8
<1> QED
  BY <1>3, <1>4, <1>5, <1>6, <1>7, <1>8

\* IInv is inductive, and holds in every reachable state.
LEMMA IInvStep == IInv /\ [Next]_vars => IInv'
<1> SUFFICES ASSUME IInv, [Next]_vars PROVE IInv'
  OBVIOUS
<1>1. CASE NodeStep \/ ProcessStep \/ GateStep
  BY <1>1, LifespanStep, AttemptStep, GateLemma DEF NodeStep, ProcessStep
<1>2. CASE UNCHANGED vars
  BY <1>2 DEF vars, IInv, TypeOK, Phases, Acceptances, ReadyCoherent, Ready, StatusCounts,
              OneAttemptAtATime
<1> QED
  BY <1>1, <1>2 DEF Next

LEMMA IInvariant == Spec => []IInv
BY InitIInv, IInvStep, PTL DEF Spec

\* Every variable keeps its type, through any behaviour of node, network and Gate.
THEOREM TypeCorrect == Spec => []TypeOK
<1>1. IInv => TypeOK
  BY DEF IInv
<1> QED
  BY <1>1, IInvariant, PTL

\* GET /v1/ready is never stale: on_change misses no change of the lifespan or of
\* the status.
THEOREM ReadinessCoherent == Spec => []ReadyCoherent
<1>1. IInv => ReadyCoherent
  BY DEF IInv
<1> QED
  BY <1>1, IInvariant, PTL

\* A node that takes part and reports ready was accepted by Gate in this process.
THEOREM ReadinessIsAccepted == Spec => []ReadyMeansAccepted
<1>1. ASSUME IInv PROVE ReadyMeansAccepted
  BY <1>1 DEF IInv, Phases, Acceptances, ReadyCoherent, Ready, ReadyStates, ReadyMeansAccepted
<1> QED
  BY <1>1, IInvariant, PTL

\* The counters of ParticipationStatus agree with its state.
THEOREM StatusIsCounted == Spec => []StatusCounts
<1>1. IInv => StatusCounts
  BY DEF IInv
<1> QED
  BY <1>1, IInvariant, PTL

\* A process has one attempt, and on the wire one POST, at a time.
THEOREM AttemptsAreSerial == Spec => []OneAttemptAtATime
<1>1. IInv => OneAttemptAtATime
  BY DEF IInv
<1> QED
  BY <1>1, IInvariant, PTL

\* Only an attempt's own steps change the status of a process that is up.
LEMMA OthersKeepStatus ==
  ASSUME Boot \/ ServeDisabled \/ Shutdown \/ Exit \/ Crash \/ GateStep
  PROVE  state' = state \/ life' = "booting"
BY DEF Boot, ServeDisabled, Shutdown, Exit, Crash, GateStep, GateAccepts, GateRefuses, GateFaults,
       Garble, LateRequest, Lose, GateRestart, nodeVars

\* A node leaves "active" only while it serves, for "degraded", and because Gate
\* decided, its tries were spent, it had nothing to ask with or its POST raised what
\* is no transport error.
THEOREM ActiveIsLeftForCause == Spec => LeavesActiveForCause
<1>1. ASSUME IInv, Next PROVE Cause
  <2>1. SUFFICES ASSUME state = "active", state' # "active", life' # "booting"
                 PROVE  /\ life = "serving" /\ state' = "degraded"
                        /\ net.reply \in {"decided", "raises"} \/ call.tries = Retries \/ call.phase = "none"
    BY DEF Cause
  <2> USE <1>1, <2>1
  <2>2. life # "booting" /\ life # "registering"
    BY DEF IInv, Phases
  <2>3. call.phase = "waiting" => life = "serving"
    BY <2>2 DEF IInv, OneAttemptAtATime
  <2>4. CASE FirstAttempt \/ Reregister \/ Retry \/ Accepted
    BY <2>2, <2>4 DEF FirstAttempt, Reregister, BeginAttempt, Ask, Retry, Accepted, EndAttempt, SetState
  <2>5. CASE Unbuildable
    BY <2>2, <2>5 DEF Unbuildable, EndAttempt, SetState
  <2>6. CASE Decided \/ Raises
    BY <2>3, <2>6 DEF Decided, Raises, EndAttempt, SetState
  <2>7. CASE Failed \/ Unreachable
    <3>1. TryFailed /\ call.phase = "waiting"
      BY <2>7 DEF Failed, Unreachable
    <3>2. ~(call.tries < Retries) /\ state' = "degraded"
      BY <3>1 DEF TryFailed, EndAttempt, SetState
    <3>3. call.tries = Retries
      BY <3>2, ParticipationAssumption DEF IInv, TypeOK
    <3> QED
      BY <2>3, <3>1, <3>2, <3>3
  <2> QED
    BY <2>4, <2>5, <2>6, <2>7, OthersKeepStatus DEF Next, NodeStep, ProcessStep
<1>2. IInv /\ [Next]_vars => [Cause]_vars
  BY <1>1
<1> QED
  BY <1>2, IInvariant, PTL DEF Spec, LeavesActiveForCause

\* A process that neither registers nor serves is not ready, and asks nothing.
LEMMA Quiet ==
  ASSUME IInv, life \notin {"registering", "serving"}
  PROVE  started = FALSE /\ ready = FALSE /\ call.tries = 0 /\ net.reply = "none" /\ ~net.request
<1>1. call.phase = "none" /\ call.tries = 0
  BY DEF IInv, TypeOK, Phases, OneAttemptAtATime
<1>2. started = FALSE /\ ready = FALSE
  BY DEF IInv, TypeOK, Phases, ReadyCoherent, Ready
<1> QED
  BY <1>1, <1>2 DEF IInv, OneAttemptAtATime

\* The node's and the process's steps are steps of the contract.
LEMMA ContractLifespan ==
  ASSUME IInv, Boot \/ ServeDisabled \/ Shutdown \/ Exit \/ Crash
  PROVE  Contract!Next \/ UNCHANGED Contract!vars
<1>1. CASE Boot
  <2>1. Contract!Launch
    BY <1>1, Quiet DEF Boot, NoCall, Contract!Launch
  <2> QED BY <2>1 DEF Contract!Next
<1>2. CASE ServeDisabled
  <2>1. ~opts.enabled /\ ready' = TRUE
    BY <1>2 DEF ServeDisabled, IInv, Phases, Ready, ReadyStates
  <2>2. Contract!Start
    BY <1>2, <2>1, Quiet DEF ServeDisabled, Contract!Start
  <2> QED BY <2>2 DEF Contract!Next
<1>3. CASE Shutdown \/ Crash
  <2>1. net'.reply = "none" /\ call' = NoCall /\ started' = FALSE /\ ready' = FALSE
    <3>1. CASE Shutdown
      BY <3>1 DEF Shutdown, Ready, Abandon
    <3>2. CASE Crash
      <4>1. Abandon(net, "mine").reply = "none"
        BY DEF Abandon
      <4>2. net'.reply = "none"
        BY <3>2, <4>1 DEF Crash, Abandon
      <4> QED BY <3>2, <4>2 DEF Crash
    <3> QED BY <1>3, <3>1, <3>2
  <2>2. UNCHANGED <<opts, heard>>
    BY <1>3 DEF Shutdown, Crash
  <2>3. Contract!Stop
    BY <2>1, <2>2 DEF NoCall, Contract!Stop
  <2> QED BY <2>3 DEF Contract!Next
<1>4. CASE Exit
  <2>1. net'.reply = net.reply
    BY <1>4 DEF Exit, IInv, TypeOK
  <2> QED BY <1>4, <2>1 DEF Exit, Contract!vars
<1> QED BY <1>1, <1>2, <1>3, <1>4

\* So are those of Gate and the network.
LEMMA ContractGate ==
  ASSUME IInv, GateStep
  PROVE  Contract!Next \/ UNCHANGED Contract!vars
<1>1. net \in [request : BOOLEAN, reply : Replies, old : SUBSET {"mine", "earlier"}]
  BY DEF IInv, TypeOK
<1>2. UNCHANGED <<opts, started, ready, call>>
  BY DEF GateStep, GateAccepts, GateRefuses, GateFaults, Garble, LateRequest, Lose, GateRestart, nodeVars
<1>3. CASE net.request /\ (GateAccepts \/ GateRefuses \/ GateFaults)
  <2>1. started = TRUE /\ call.tries > 0 /\ net.reply = "none"
    BY <1>3 DEF IInv, TypeOK, Phases, Acceptances, OneAttemptAtATime
  <2>2. \/ net'.reply = "accepted" /\ heard' = TRUE
        \/ net'.reply \in {"decided", "failed", "raises"} /\ heard' = heard
    BY <1>1, <1>3 DEF GateAccepts, GateRefuses, GateFaults
  <2>3. Contract!Answer
    BY <1>2, <2>1, <2>2 DEF Contract!Answer
  <2> QED BY <2>3 DEF Contract!Next
<1>4. CASE LateRequest
  <2>1. net'.reply = net.reply
    BY <1>1, <1>4 DEF LateRequest
  <2>2. CASE heard' = TRUE
    <3>1. Contract!AcceptLate
      BY <1>2, <2>1, <2>2 DEF Contract!AcceptLate
    <3> QED BY <3>1 DEF Contract!Next
  <2>3. CASE heard' = heard
    BY <1>2, <2>1, <2>3 DEF Contract!vars
  <2>4. heard' \in BOOLEAN /\ heard \in BOOLEAN /\ (heard => heard')
    BY <1>4 DEF LateRequest, IInv, TypeOK
  <2> QED BY <2>2, <2>3, <2>4
<1>5. CASE Lose
  <2>1. Contract!Drop
    BY <1>1, <1>2, <1>5 DEF Lose, Contract!Drop
  <2> QED BY <2>1 DEF Contract!Next
<1>6. CASE GateRestart
  BY <1>2, <1>6 DEF GateRestart, Contract!vars
<1>7. CASE Garble
  <2>1. net.reply # "none" /\ net'.reply = "raises" /\ UNCHANGED <<opts, started, ready, call, heard>>
    BY <1>1, <1>2, <1>7 DEF Garble
  <2>2. Contract!Garble
    BY <2>1 DEF Contract!Garble
  <2> QED BY <2>2 DEF Contract!Next
<1> QED
  BY <1>3, <1>4, <1>5, <1>6, <1>7 DEF GateStep, GateAccepts, GateRefuses, GateFaults

\* A failed try: the last one ends the attempt, and the contract allows that.
LEMMA ContractTry ==
  ASSUME IInv, TryFailed, call.phase = "waiting", net'.reply = "none", UNCHANGED <<opts, heard>>
  PROVE  Contract!Next
<1>1. started = TRUE /\ opts.enabled
  BY DEF IInv, TypeOK, Phases, OneAttemptAtATime
<1>2. CASE call.tries < Retries
  <2>1. call'.tries = call.tries /\ UNCHANGED <<started, ready>>
    BY <1>2 DEF TryFailed, IInv, TypeOK
  <2>2. Contract!Drop
    BY <2>1 DEF Contract!Drop
  <2> QED BY <2>2 DEF Contract!Next
<1>3. CASE ~(call.tries < Retries)
  <2>1. call.tries = Retries
    BY <1>3, ParticipationAssumption DEF IInv, TypeOK
  <2>2. ready' = FALSE /\ started' = started /\ call' = NoCall
    BY <1>3 DEF TryFailed, Resume, EndAttempt, SetState, Ready, ReadyStates
  <2>3. Contract!Withdraw
    BY <1>1, <2>1, <2>2 DEF NoCall, Contract!Withdraw
  <2> QED BY <2>3 DEF Contract!Next
<1> QED BY <1>2, <1>3

\* And so are the attempt's.
LEMMA ContractAttempt ==
  ASSUME IInv, FirstAttempt \/ Reregister \/ Unbuildable \/ Accepted \/ Decided
                 \/ Raises \/ Failed \/ Unreachable \/ Retry
  PROVE  Contract!Next
<1>1. net \in [request : BOOLEAN, reply : Replies, old : SUBSET {"mine", "earlier"}]
  BY DEF IInv, TypeOK
<1>2. /\ state # "disabled" => opts.enabled
      /\ life = "serving" => started = TRUE
      /\ call.phase = "waiting" => started = TRUE /\ opts.enabled
      /\ Retries > 0
  BY ParticipationAssumption DEF IInv, TypeOK, Phases, OneAttemptAtATime
<1>3. CASE FirstAttempt
  <2>1. opts.enabled /\ state = "not_attempted"
    BY <1>3 DEF FirstAttempt, IInv, Phases
  <2>2. ready' = FALSE /\ call'.tries = 1 /\ net'.reply = "none" /\ started' = TRUE
    BY <1>1, <1>3, <2>1 DEF FirstAttempt, BeginAttempt, Ask, SetState, Ready, ReadyStates
  <2>3. UNCHANGED <<opts, heard>>
    BY <1>3 DEF FirstAttempt
  <2>4. Contract!Start
    BY <1>3, <2>1, <2>2, <2>3, Quiet DEF FirstAttempt, Contract!Start
  <2> QED BY <2>4 DEF Contract!Next
<1>4. CASE Reregister
  <2>1. /\ started = TRUE /\ opts.enabled /\ call.tries = 0 /\ net.reply = "none"
        /\ UNCHANGED <<opts, started, heard>>
    BY <1>2, <1>4 DEF Reregister, IInv, Phases, OneAttemptAtATime
  <2>2. call'.tries = 1 /\ net'.reply = "none"
    BY <1>1, <1>4 DEF Reregister, BeginAttempt
  <2>3. ready' = ready
    <3>1. CASE state = "active"
      BY <1>4, <3>1 DEF Reregister, BeginAttempt, Ask
    <3>2. CASE state # "active"
      <4>1. ready = FALSE
        BY <1>4, <3>2 DEF Reregister, IInv, TypeOK, ReadyCoherent, Ready, ReadyStates
      <4>2. ready' = FALSE
        BY <1>4, <3>2 DEF Reregister, BeginAttempt, Ask, SetState, Ready, ReadyStates
      <4> QED BY <4>1, <4>2
    <3> QED BY <3>1, <3>2
  <2>4. call.tries < Retries /\ call'.tries = call.tries + 1
    BY <2>1, <2>2, ParticipationAssumption
  <2>5. Contract!Ask
    BY <2>1, <2>2, <2>3, <2>4 DEF Contract!Ask
  <2> QED BY <2>5 DEF Contract!Next
<1>5. CASE Unbuildable
  <2>1. /\ ready' = FALSE /\ call'.tries = 0 /\ UNCHANGED <<opts, net, heard>>
        /\ opts.enabled
    BY <1>2, <1>5 DEF Unbuildable, EndAttempt, SetState, Ready, ReadyStates, NoCall
  <2>2. CASE life = "booting"
    <3>1. started' = TRUE
      BY <1>5, <2>2 DEF Unbuildable
    <3>2. Contract!Start
      BY <2>1, <2>2, <3>1, Quiet DEF Contract!Start
    <3> QED BY <3>2 DEF Contract!Next
  <2>3. CASE life = "serving"
    <3>1. started' = started /\ call.tries = 0 /\ net.reply = "none"
      BY <1>5, <2>3 DEF Unbuildable, IInv, Phases, OneAttemptAtATime
    <3>2. Contract!Withdraw
      BY <1>2, <2>1, <2>3, <3>1 DEF Contract!Withdraw
    <3> QED BY <3>2 DEF Contract!Next
  <2> QED BY <1>5, <2>2, <2>3 DEF Unbuildable
<1>6. CASE Accepted
  <2>1. net.reply = "accepted" /\ started = TRUE /\ UNCHANGED <<opts, started, heard>>
    BY <1>2, <1>6 DEF Accepted, Resume
  <2>2. ready' = TRUE /\ call'.tries = 0 /\ net'.reply = "none"
    BY <1>1, <1>6, <2>1 DEF Accepted, EndAttempt, SetState, Ready, ReadyStates, NoCall
  <2>3. Contract!Admit
    BY <2>1, <2>2 DEF Contract!Admit
  <2> QED BY <2>3 DEF Contract!Next
<1>7. CASE Decided \/ Raises
  <2>1. /\ net.reply \in {"decided", "raises"} /\ started = TRUE /\ opts.enabled
        /\ UNCHANGED <<opts, started, heard>>
    BY <1>2, <1>7 DEF Decided, Raises, Resume
  <2>2. ready' = FALSE /\ call'.tries = 0 /\ net'.reply = "none"
    <3>1. EndAttempt(FALSE) /\ net' = [net EXCEPT !.reply = "none"]
      BY <1>7 DEF Decided, Raises
    <3> QED
      BY <1>1, <3>1 DEF EndAttempt, SetState, Ready, ReadyStates, NoCall
  <2>3. Contract!Withdraw
    BY <2>1, <2>2 DEF Contract!Withdraw
  <2> QED BY <2>3 DEF Contract!Next
<1>8. CASE Failed \/ Unreachable
  <2>1. TryFailed /\ call.phase = "waiting" /\ UNCHANGED <<opts, heard>> /\ net'.reply = "none"
    BY <1>1, <1>8 DEF Failed, Unreachable, Abandon
  <2> QED BY <2>1, ContractTry
<1>9. CASE Retry
  <2>1. /\ started = TRUE /\ opts.enabled /\ net.reply = "none" /\ call.tries < Retries
        /\ UNCHANGED <<opts, started, ready, heard>>
    BY <1>9 DEF Retry, IInv, TypeOK, Phases, OneAttemptAtATime
  <2>2. call'.tries = call.tries + 1 /\ net'.reply = "none"
    BY <1>1, <1>9 DEF Retry
  <2>3. Contract!Ask
    BY <2>1, <2>2 DEF Contract!Ask
  <2> QED BY <2>3 DEF Contract!Next
<1> QED BY <1>3, <1>4, <1>5, <1>6, <1>7, <1>8, <1>9

\* Participation implements ReadinessContract, for every setting and any number of
\* tries and faults: every step is a step of the contract, or leaves it alone.
THEOREM ContractKept == Spec => KeepsContract
<1>1. Init => Contract!Init
  BY ParticipationAssumption DEF Init, NoCall, NoNet, Contract!Init
<1>2. IInv /\ [Next]_vars => [Contract!Next]_Contract!vars
  <2>1. ASSUME IInv, Next PROVE Contract!Next \/ UNCHANGED Contract!vars
    BY <2>1, ContractLifespan, ContractGate, ContractAttempt DEF Next, NodeStep, ProcessStep
  <2>2. UNCHANGED vars => UNCHANGED Contract!vars
    BY DEF vars, Contract!vars
  <2> QED BY <2>1, <2>2
<1> QED
  BY <1>1, <1>2, IInvariant, PTL DEF Spec, KeepsContract, Contract!Spec

\* Gate's decision ends the attempt it answers, and so does an exception of its POST:
\* no POST follows it.
THEOREM DecisionIsFinal == Spec => DecisionsAreFinal
<1>1. ASSUME IInv, Next PROVE Final
  <2>1. SUFFICES ASSUME net.reply \in {"decided", "raises"}, net'.reply = "none", life' = "serving",
                        faults' = faults
                 PROVE  call'.phase = "none"
    BY DEF Final
  <2> USE <1>1, <2>1
  <2>2. call.phase = "waiting" /\ faults \in 0..MaxFaults
    BY DEF IInv, OneAttemptAtATime, TypeOK
  <2>3. ~Fault
    BY <2>2, FaultBound
  <2>4. ~Lost(net)
    BY DEF Lost
  <2>5. CASE Decided \/ Raises
    BY <2>5 DEF Decided, Raises, EndAttempt, NoCall
  <2>6. CASE NodeStep /\ ~(Decided \/ Raises)
    BY <2>2, <2>3, <2>4, <2>6
    DEF NodeStep, ServeDisabled, FirstAttempt, Reregister, Unbuildable, Accepted, Failed,
        Unreachable, Retry
  <2>7. CASE ProcessStep
    BY <2>2, <2>3, <2>7 DEF ProcessStep, Boot, Shutdown, Exit, Crash
  <2>8. CASE GateStep
    <3>1. net \in [request : BOOLEAN, reply : Replies, old : SUBSET {"mine", "earlier"}]
      BY DEF IInv, TypeOK
    <3> QED
      BY <2>3, <2>8, <3>1
      DEF GateStep, GateAccepts, GateRefuses, GateFaults, Garble, LateRequest, Lose, GateRestart
  <2> QED
    BY <2>5, <2>6, <2>7, <2>8 DEF Next
<1>2. IInv /\ [Next]_vars => [Final]_vars
  BY <1>1
<1> QED
  BY <1>2, IInvariant, PTL DEF Spec, DecisionsAreFinal
=============================================================================

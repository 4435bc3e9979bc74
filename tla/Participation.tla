---------------------------- MODULE Participation ----------------------------
(***************************************************************************)
(* A node's participation in Gate: the lifespan of create_node_app, the    *)
(* NodeParticipation it owns, the bounded retry of register_node, and the  *)
(* readiness that GET /v1/ready reports, against a Gate that may restart   *)
(* and forget, a network that loses and delays, and a node that crashes.   *)
(*                                                                         *)
(* One action is what the node's event loop does between two awaits.  The  *)
(* Gate and the network are outside the repository: Gate is what           *)
(* register_node takes it to be, an in-memory registry that answers 200, a *)
(* decision (400, 401, 403, 409, 422), or anything else.                   *)
(***************************************************************************)
EXTENDS Integers

CONSTANTS
  Options,     \* the participation settings somebody deploys
  Retries,     \* register_node's retries
  CounterCap,  \* bound: attempts and consecutive failures saturate here
  MaxFaults    \* bound: faults of Gate, network and process in a behaviour

ASSUME ParticipationAssumption ==
  /\ Options \subseteq [enabled : BOOLEAN, reregister : BOOLEAN, overwrite : BOOLEAN]
  /\ Retries \in Nat \ {0}
  /\ CounterCap \in Nat \ {0}
  /\ MaxFaults \in Nat

VARIABLES
  opts,      \* enabled, reregistration_interval_seconds > 0, overwrite
  life,      \* how far the lifespan is
  started,   \* app.state.lifecycle_started
  ready,     \* app.state.runtime_ready
  state,     \* ParticipationStatus.state
  attempts,  \* ParticipationStatus.attempts
  failures,  \* ParticipationStatus.consecutive_failures
  call,      \* the register_node in flight: its phase and tries so far
  net,       \* the node's POST and Gate's reply on the wire
  gate,      \* what Gate's registry holds of this node
  heard,     \* history: Gate has accepted a POST of this process
  faults     \* faults so far

nodeVars == <<life, started, ready, state, attempts, failures, call>>
vars == <<opts, life, started, ready, state, attempts, failures, call, net, gate, heard, faults>>

States == {"disabled", "not_attempted", "registering", "active", "degraded"}
ReadyStates == {"active", "disabled"}
\* raises: what the POST ends in is an exception that is no httpx.TransportError.
Replies == {"none", "accepted", "decided", "failed", "raises"}

NoCall == [phase |-> "none", tries |-> 0]

\* lost: neither the request nor a reply is on the wire.  old: a request that
\* nobody waits for any more, from this process ("mine") or an earlier one.
NoNet == [request |-> FALSE, reply |-> "none", old |-> {}]
Lost(n) == ~n.request /\ n.reply = "none"

\* The node stops waiting for its request, which may still reach Gate.
Abandon(n, owner) ==
  [request |-> FALSE, reply |-> "none", old |-> n.old \cup (IF n.request THEN {owner} ELSE {})]

Count(n) == IF n < CounterCap THEN n + 1 ELSE n
Fault == faults < MaxFaults /\ faults' = faults + 1

-----------------------------------------------------------------------------
(* The status and what it does to readiness.                                *)

\* _apply_readiness.
Ready(hook, s) == hook /\ s \in ReadyStates

\* NodeParticipation._set with a status that differs: on_change is _apply_readiness.
SetState(s) ==
  /\ state' = s
  /\ ready' = Ready(started', s)

\* Variant for mutation: every attempt passes through "registering".
Ask_Flapping == SetState("registering")

\* The head of register_once: an active node stays active while it asks.
Ask == IF state = "active" THEN UNCHANGED <<state, ready>> ELSE SetState("registering")

\* register_once up to the POST of register_node.
BeginAttempt ==
  /\ Ask
  /\ call' = [phase |-> "waiting", tries |-> 1]
  /\ net' = [net EXCEPT !.request = TRUE, !.reply = "none"]
  /\ UNCHANGED <<attempts, failures>>

\* The tail of register_once.
EndAttempt(accepted) ==
  /\ SetState(IF accepted THEN "active" ELSE "degraded")
  /\ attempts' = Count(attempts)
  /\ failures' = IF accepted THEN 0 ELSE Count(failures)
  /\ call' = NoCall

\* What follows an attempt: start() returns and the app serves, or the loop sleeps.
Resume == life' = "serving" /\ UNCHANGED started

-----------------------------------------------------------------------------
(* The lifespan.                                                            *)

Init ==
  /\ opts \in Options
  /\ life = "down" /\ started = FALSE /\ ready = FALSE
  /\ state = IF opts.enabled THEN "not_attempted" ELSE "disabled"
  /\ attempts = 0 /\ failures = 0 /\ call = NoCall
  /\ net = NoNet /\ gate = "unknown" /\ heard = FALSE /\ faults = 0

\* A process is launched: a new NodeParticipation, and lifecycle_hook.startup.
Boot ==
  /\ life = "down"
  /\ life' = "booting" /\ started' = FALSE /\ ready' = FALSE
  /\ state' = IF opts.enabled THEN "not_attempted" ELSE "disabled"
  /\ attempts' = 0 /\ failures' = 0 /\ call' = NoCall /\ heard' = FALSE
  /\ UNCHANGED <<opts, net, gate, faults>>

\* The hook has started and participation is disabled: start() returns at once.
ServeDisabled ==
  /\ life = "booting" /\ state = "disabled"
  /\ started' = TRUE /\ life' = "serving"
  /\ ready' = Ready(TRUE, state)
  /\ UNCHANGED <<opts, state, attempts, failures, call, net, gate, heard, faults>>

\* The hook has started: participation.start() makes the first attempt.
FirstAttempt ==
  /\ life = "booting" /\ state # "disabled"
  /\ started' = TRUE /\ life' = "registering"
  /\ BeginAttempt
  /\ UNCHANGED <<opts, gate, heard, faults>>

\* Variant for mutation: the loop gives up after a failed attempt.
Reregister_GivesUp ==
  /\ life = "serving" /\ state = "active" /\ opts.reregister /\ call.phase = "none"
  /\ UNCHANGED <<opts, life, started, gate, heard, faults>>
  /\ BeginAttempt

\* _reregistration_loop wakes.
Reregister ==
  /\ life = "serving" /\ state # "disabled" /\ opts.reregister /\ call.phase = "none"
  /\ UNCHANGED <<opts, life, started, gate, heard, faults>>
  /\ BeginAttempt

\* The first attempt or a later one fails before its POST: no registration can
\* be built from the spec file, or it names another node.
Unbuildable ==
  /\ Fault
  /\ \/ life = "booting" /\ state # "disabled" /\ started' = TRUE
     \/ life = "serving" /\ state # "disabled" /\ opts.reregister /\ call.phase = "none"
          /\ UNCHANGED started
  /\ life' = "serving"
  /\ EndAttempt(FALSE)
  /\ UNCHANGED <<opts, net, gate, heard>>

\* Variants for mutation: an answer that is no decision counts as acceptance; a
\* try too many.
TryFailed_Optimistic ==
  IF call.tries < Retries
    THEN /\ call' = [call EXCEPT !.phase = "backoff"]
         /\ UNCHANGED <<life, started, ready, state, attempts, failures>>
    ELSE Resume /\ EndAttempt(TRUE)
TryFailed_Unbounded ==
  /\ call' = [call EXCEPT !.phase = "backoff"]
  /\ UNCHANGED <<life, started, ready, state, attempts, failures>>

\* Any other status, or httpx.TransportError: back off while tries remain.
TryFailed ==
  IF call.tries < Retries
    THEN /\ call' = [call EXCEPT !.phase = "backoff"]
         /\ UNCHANGED <<life, started, ready, state, attempts, failures>>
    ELSE Resume /\ EndAttempt(FALSE)

\* Gate accepts: 200.
Accepted ==
  /\ call.phase = "waiting" /\ net.reply = "accepted"
  /\ Resume /\ EndAttempt(TRUE)
  /\ net' = [net EXCEPT !.reply = "none"]
  /\ UNCHANGED <<opts, gate, heard, faults>>

\* Variant for mutation: a decision is retried like a failure.
Decided_Retried ==
  /\ call.phase = "waiting" /\ net.reply = "decided"
  /\ TryFailed
  /\ net' = [net EXCEPT !.reply = "none"]
  /\ UNCHANGED <<opts, gate, heard, faults>>

\* Gate decides against the node: never retried.
Decided ==
  /\ call.phase = "waiting" /\ net.reply = "decided"
  /\ Resume /\ EndAttempt(FALSE)
  /\ net' = [net EXCEPT !.reply = "none"]
  /\ UNCHANGED <<opts, gate, heard, faults>>

\* Variant for mutation: the exception counts as one more failed try.
Raises_Retried ==
  /\ call.phase = "waiting" /\ net.reply = "raises"
  /\ TryFailed
  /\ net' = [net EXCEPT !.reply = "none"]
  /\ UNCHANGED <<opts, gate, heard, faults>>

\* The POST raises what register_node does not catch, a reply that httpx cannot
\* decode say: register_once catches it, and the attempt is over, tries left or not.
Raises ==
  /\ call.phase = "waiting" /\ net.reply = "raises"
  /\ Resume /\ EndAttempt(FALSE)
  /\ net' = [net EXCEPT !.reply = "none"]
  /\ UNCHANGED <<opts, gate, heard, faults>>

Failed ==
  /\ call.phase = "waiting" /\ net.reply = "failed"
  /\ TryFailed
  /\ net' = [net EXCEPT !.reply = "none"]
  /\ UNCHANGED <<opts, gate, heard, faults>>

\* Nothing comes back: the connection fails or the client's ten seconds pass.
\* When the reply was only late, that is a fault of the network.
Unreachable ==
  /\ call.phase = "waiting"
  /\ IF Lost(net) THEN UNCHANGED faults ELSE Fault
  /\ TryFailed
  /\ net' = Abandon(net, "mine")
  /\ UNCHANGED <<opts, gate, heard>>

\* The backoff ends: the next POST.
Retry ==
  /\ call.phase = "backoff"
  /\ call' = [phase |-> "waiting", tries |-> call.tries + 1]
  /\ net' = [net EXCEPT !.request = TRUE, !.reply = "none"]
  /\ UNCHANGED <<opts, life, started, ready, state, attempts, failures, gate, heard, faults>>

\* Variants for mutation: readiness is not withdrawn; the loop is not cancelled.
Shutdown_StillReady ==
  /\ life = "serving"
  /\ started' = FALSE /\ UNCHANGED ready
  /\ life' = "stopped" /\ call' = NoCall
  /\ net' = Abandon(net, "mine")
  /\ UNCHANGED <<opts, state, attempts, failures, gate, heard, faults>>
Shutdown_LoopKept ==
  /\ life = "serving"
  /\ started' = FALSE /\ ready' = Ready(FALSE, state)
  /\ life' = "stopped"
  /\ UNCHANGED <<opts, state, attempts, failures, call, net, gate, heard, faults>>

\* The server shuts down: not ready, then the loop is cancelled wherever it
\* awaits.  The status keeps what it said, and Gate is not told.
Shutdown ==
  /\ life = "serving"
  /\ started' = FALSE /\ ready' = Ready(FALSE, state)
  /\ life' = "stopped" /\ call' = NoCall
  /\ net' = Abandon(net, "mine")
  /\ UNCHANGED <<opts, state, attempts, failures, gate, heard, faults>>

\* The stopped process exits.
Exit ==
  /\ life = "stopped" /\ life' = "down"
  /\ net' = [net EXCEPT !.old = IF "mine" \in @ THEN {"earlier"} ELSE @]
  /\ UNCHANGED <<opts, started, ready, state, attempts, failures, call, gate, heard, faults>>

\* The process dies, or its startup hook raises.
Crash ==
  /\ Fault
  /\ life \notin {"down", "stopped"}
  /\ life' = "down" /\ started' = FALSE /\ ready' = FALSE /\ call' = NoCall
  /\ net' = LET n == Abandon(net, "mine")
            IN  [n EXCEPT !.old = IF @ # {} THEN {"earlier"} ELSE {}]
  /\ UNCHANGED <<opts, state, attempts, failures, gate, heard>>

-----------------------------------------------------------------------------
(* Gate and the network (external).                                         *)

\* A registration of a node Gate remembers is refused unless it may overwrite.
Refuses == gate = "known" /\ ~opts.overwrite

GateAccepts ==
  /\ net.request /\ ~Refuses
  /\ gate' = "known" /\ heard' = TRUE
  /\ net' = [net EXCEPT !.request = FALSE, !.reply = "accepted"]
  /\ UNCHANGED <<opts, nodeVars, faults>>

GateRefuses ==
  /\ net.request /\ Refuses
  /\ net' = [net EXCEPT !.request = FALSE, !.reply = "decided"]
  /\ UNCHANGED <<opts, nodeVars, gate, heard, faults>>

\* Gate rejects the node (its token, its payload), or is not able to answer; or
\* the request is one the HTTP client cannot send.
GateFaults ==
  /\ Fault /\ net.request
  /\ \E reply \in {"decided", "failed", "raises"} :
       net' = [net EXCEPT !.request = FALSE, !.reply = reply]
  /\ UNCHANGED <<opts, nodeVars, gate, heard>>

\* A reply, whatever it says, arrives as something the HTTP client cannot decode.
Garble ==
  /\ Fault /\ net.reply \in {"accepted", "decided", "failed"}
  /\ net' = [net EXCEPT !.reply = "raises"]
  /\ UNCHANGED <<opts, nodeVars, gate, heard>>

\* A request nobody waits for arrives after all.
LateRequest ==
  \E owner \in net.old :
    /\ net' = [net EXCEPT !.old = @ \ {owner}]
    /\ gate' = "known"
    /\ heard' = (heard \/ (owner = "mine" /\ ~Refuses))
    /\ UNCHANGED <<opts, nodeVars, faults>>

Lose ==
  /\ Fault /\ ~Lost(net)
  /\ net' = [net EXCEPT !.request = FALSE, !.reply = "none"]
  /\ UNCHANGED <<opts, nodeVars, gate, heard>>

\* Gate restarts: its registry is in memory.
GateRestart ==
  /\ Fault /\ gate = "known"
  /\ gate' = "forgotten"
  /\ UNCHANGED <<opts, nodeVars, net, heard>>

-----------------------------------------------------------------------------

NodeStep == ServeDisabled \/ FirstAttempt \/ Reregister \/ Unbuildable \/ Accepted \/ Decided
              \/ Raises \/ Failed \/ Unreachable \/ Retry
ProcessStep == Boot \/ Shutdown \/ Exit \/ Crash
GateStep == GateAccepts \/ GateRefuses \/ GateFaults \/ Garble \/ LateRequest \/ Lose \/ GateRestart

Next == NodeStep \/ ProcessStep \/ GateStep

Spec == Init /\ [][Next]_vars

\* The event loop runs what is ready, its timers go off, and Gate answers what
\* reaches it.  Nothing makes a process start, stop or fail.
FairSpec ==
  /\ Spec
  /\ WF_vars(Reregister) /\ WF_vars(Retry)
  /\ WF_vars(Accepted) /\ WF_vars(Decided) /\ WF_vars(Raises) /\ WF_vars(Failed)
  /\ WF_vars(Lost(net) /\ Unreachable)
  /\ WF_vars(GateAccepts) /\ WF_vars(GateRefuses)

-----------------------------------------------------------------------------
(* Properties.                                                              *)

\* Every variable has its type.
TypeOK ==
  /\ opts \in Options
  /\ life \in {"down", "booting", "registering", "serving", "stopped"}
  /\ started \in BOOLEAN /\ ready \in BOOLEAN
  /\ state \in States
  /\ attempts \in 0..CounterCap /\ failures \in 0..CounterCap
  /\ call \in [phase : {"none", "waiting", "backoff"}, tries : 0..Retries]
  /\ net \in [request : BOOLEAN, reply : Replies, old : SUBSET {"mine", "earlier"}]
  /\ gate \in {"unknown", "known", "forgotten"}
  /\ heard \in BOOLEAN /\ faults \in 0..MaxFaults

\* What GET /v1/ready reports is what the lifespan and the status say, between
\* any two steps of the loop: on_change misses no change of either.
ReadyCoherent == ready <=> Ready(started, state)

\* A node that reports ready, and has not been told to keep out of it, has been
\* accepted: Gate answered 200 to this process, however many replies were lost.
ReadyMeansAccepted == ready /\ opts.enabled => state = "active" /\ heard

\* The status counts: an active node has no failure behind it, a degraded one
\* has, and an attempt in flight is not yet counted.
StatusCounts ==
  /\ state = "active" => failures = 0 /\ attempts > 0
  /\ state = "degraded" => failures > 0
  /\ failures <= attempts
  /\ state = "not_attempted" => attempts = 0

\* A process asks Gate only while it registers or serves, and only one POST of its
\* attempt is on the wire: none while it backs off, none after it has shut down.
OneAttemptAtATime ==
  /\ call.phase # "none" => life \in {"registering", "serving"} /\ call.tries > 0
  /\ net.request \/ net.reply # "none" => call.phase = "waiting"

\* A node leaves "active" only for "degraded", while it serves, and only because
\* Gate decided against it, all its tries were spent, no registration could be
\* built, or its POST raised what is no transport error: neither a re-registration
\* in flight nor a failed try with tries left makes readiness flap.
Cause ==
  state = "active" /\ state' # "active" /\ life' # "booting" =>
    /\ life = "serving" /\ state' = "degraded"
    /\ net.reply \in {"decided", "raises"} \/ call.tries = Retries \/ call.phase = "none"

\* The Cause above, of every step (register_once, NodeParticipation._set).
LeavesActiveForCause == [][Cause]_vars

\* Neither a decision nor an exception of the POST is ever retried: the attempt it
\* answers is the last POST until the loop wakes again.
Final ==
  net.reply \in {"decided", "raises"} /\ net'.reply = "none" /\ life' = "serving" /\ faults' = faults =>
    call'.phase = "none"

\* The Final above, of every step (register_node).
DecisionsAreFinal == [][Final]_vars

\* Readiness keeps ReadinessContract's promises: the lifespan, the status, the retry
\* and the re-registration loop together never break them (start, register_once,
\* register_node, _apply_readiness).
Contract == INSTANCE ReadinessContract WITH
  required <- opts.enabled, up <- started, accepted <- heard,
  verdict <- net.reply, tries <- call.tries
KeepsContract == Contract!Spec

\* A serving node that Gate does not know, after a restart of Gate or a crash of
\* its own, is known again and ready again, without anybody's help, when it
\* re-registers and may overwrite.
Recovers ==
  (life = "serving" /\ opts.enabled /\ opts.reregister) ~>
    (life # "serving" \/ (gate = "known" /\ (opts.overwrite => ready)))
=============================================================================

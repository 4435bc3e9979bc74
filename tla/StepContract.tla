---------------------------- MODULE StepContract ----------------------------
(***************************************************************************)
(* What an orchestrator may count on when it sends the steps of a workflow *)
(* through execute_step, whatever Gate, the network and the clock do:      *)
(*   - a step is posted at most once per attempt the policy allows, and    *)
(*     only while it is the current one;                                   *)
(*   - a step runs at most once per POST, at any time after it, and under  *)
(*     an idempotency key nothing runs twice;                              *)
(*   - an answered step has run, or the key's operation has;               *)
(*   - an outcome is final, and a failed step ends the workflow.           *)
(* A POST is <<step, attempt>>.  StepExecutor implements this.             *)
(***************************************************************************)
EXTENDS Integers

CONSTANT Steps    \* the number of steps

VARIABLES
  keyed,    \* the workflow's packet carries an idempotency key
  limit,    \* the attempts the policy allows
  posted,   \* the POSTs made
  ran,      \* the POSTs a worker has executed
  outcome   \* of each step: open, answered or failed

vars == <<keyed, limit, posted, ran, outcome>>

Init ==
  /\ keyed \in BOOLEAN
  /\ limit \in Nat \ {0}
  /\ posted = {} /\ ran = {}
  /\ outcome = [s \in 1..Steps |-> "open"]

Current(s) ==
  /\ outcome[s] = "open"
  /\ \A t \in 1..Steps : t < s => outcome[t] = "answered"

Post(s) ==
  /\ Current(s)
  /\ \E n \in 1..limit : <<s, n>> \notin posted /\ posted' = posted \cup {<<s, n>>}
  /\ UNCHANGED <<keyed, limit, ran, outcome>>

Run ==
  /\ keyed => ran = {}
  /\ \E id \in posted \ ran : ran' = ran \cup {id}
  /\ UNCHANGED <<keyed, limit, posted, outcome>>

Answer(s) ==
  /\ Current(s)
  /\ \E id \in ran : keyed \/ id[1] = s
  /\ outcome' = [outcome EXCEPT ![s] = "answered"]
  /\ UNCHANGED <<keyed, limit, posted, ran>>

Fail(s) ==
  /\ Current(s)
  /\ outcome' = [outcome EXCEPT ![s] = "failed"]
  /\ UNCHANGED <<keyed, limit, posted, ran>>

Next == Run \/ \E s \in 1..Steps : Post(s) \/ Answer(s) \/ Fail(s)

Spec == Init /\ [][Next]_vars
=============================================================================

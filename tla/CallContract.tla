---------------------------- MODULE CallContract ----------------------------
(***************************************************************************)
(* What an application may count on when it calls execute or activate,     *)
(* whatever Gate, the workers, the network and the clocks do:              *)
(*   - a call the client refuses itself never leaves it;                   *)
(*   - one call is posted once, dispatched at most once and run at most    *)
(*     once, at any time after, though the call may have failed long ago;  *)
(*   - a result is that of a run; a failure, or an error, says nothing;    *)
(*   - an admission probe is never dispatched, and only a probe is         *)
(*     answered with a receipt;                                            *)
(*   - an outcome is final.                                                *)
(* Rail implements this.                                                   *)
(***************************************************************************)

VARIABLES
  probe,       \* the call is an admission probe
  posted,      \* the POST to Gate was made
  dispatched,  \* the POST to a worker was made
  ran,         \* a worker has called its handler
  outcome      \* open; refused, failed; result, failure, receipt

vars == <<probe, posted, dispatched, ran, outcome>>

Init ==
  /\ probe \in BOOLEAN
  /\ posted = FALSE /\ dispatched = FALSE /\ ran = FALSE
  /\ outcome = "open"

Post ==
  /\ outcome = "open" /\ ~posted
  /\ posted' = TRUE
  /\ UNCHANGED <<probe, dispatched, ran, outcome>>

Dispatch ==
  /\ posted /\ ~probe /\ ~dispatched
  /\ dispatched' = TRUE
  /\ UNCHANGED <<probe, posted, ran, outcome>>

Run ==
  /\ dispatched /\ ~ran
  /\ ran' = TRUE
  /\ UNCHANGED <<probe, posted, dispatched, outcome>>

End(how) ==
  /\ outcome = "open"
  /\ outcome' = how
  /\ UNCHANGED <<probe, posted, dispatched, ran>>

Next ==
  \/ Post \/ Dispatch \/ Run
  \/ ~posted /\ End("refused")
  \/ posted /\ (End("failed") \/ (~probe /\ End("failure")))
  \/ ran /\ End("result")
  \/ posted /\ probe /\ End("receipt")

Spec == Init /\ [][Next]_vars
=============================================================================

-------------------------- MODULE ReadinessContract --------------------------
(***************************************************************************)
(* What an orchestrator that asks a node whether it is ready, and Gate,    *)
(* may count on, whatever Gate, the network and the process do:            *)
(*   - a node is ready only between its start and its stop, and one that   *)
(*     takes part in Gate turns ready only on an acceptance of Gate's,     *)
(*     given to this very process;                                         *)
(*   - while it is up it stops being ready only when Gate decides against  *)
(*     it, when the tries of an attempt are spent, when what comes of a    *)
(*     POST cannot be read at all, or when it has nothing to ask with: to  *)
(*     ask again, to wait, and to fail a try, leave it as it is;           *)
(*   - an attempt makes so many POSTs and no more, one at a time;          *)
(*   - a node that takes no part is ready as soon as it is up.             *)
(* Participation implements this.                                          *)
(***************************************************************************)
EXTENDS Integers

CONSTANT Retries    \* the POSTs of an attempt

VARIABLES
  required,  \* the node takes part in Gate
  up,        \* the process has started, and not stopped
  ready,     \* what it answers when it is asked
  accepted,  \* Gate has accepted this process
  verdict,   \* Gate's answer that the node has not read
  tries      \* the POSTs of the attempt, none between attempts

vars == <<required, up, ready, accepted, verdict, tries>>

Init ==
  /\ required \in BOOLEAN
  /\ up = FALSE /\ ready = FALSE /\ accepted = FALSE
  /\ verdict = "none" /\ tries = 0

\* A new process, that Gate has yet to accept.
Launch ==
  /\ ~up /\ accepted' = FALSE
  /\ UNCHANGED <<required, up, ready, verdict, tries>>

\* It is up: ready if that is all it takes, and else asking, unless it cannot.
Start ==
  /\ ~up /\ up' = TRUE
  /\ ready' = ~required
  /\ tries' = 0 \/ (required /\ tries' = 1)
  /\ UNCHANGED <<required, accepted, verdict>>

Ask ==
  /\ up /\ required /\ verdict = "none"
  /\ tries < Retries /\ tries' = tries + 1
  /\ UNCHANGED <<required, up, ready, accepted, verdict>>

\* Gate answers the POST.
Answer ==
  /\ up /\ tries > 0 /\ verdict = "none"
  /\ \/ verdict' = "accepted" /\ accepted' = TRUE
     \/ verdict' \in {"decided", "failed", "raises"} /\ UNCHANGED accepted
  /\ UNCHANGED <<required, up, ready, tries>>

\* An answer turns into one that cannot be read.
Garble ==
  /\ verdict # "none" /\ verdict' = "raises"
  /\ UNCHANGED <<required, up, ready, accepted, tries>>

\* Gate accepts a POST nobody waits for any more.
AcceptLate ==
  /\ accepted' = TRUE
  /\ UNCHANGED <<required, up, ready, verdict, tries>>

\* An answer is lost, or read as a failure while tries remain.
Drop ==
  /\ verdict' = "none"
  /\ UNCHANGED <<required, up, ready, accepted, tries>>

\* The attempt ends.
Admit ==
  /\ up /\ verdict = "accepted"
  /\ ready' = TRUE /\ tries' = 0 /\ verdict' = "none"
  /\ UNCHANGED <<required, up, accepted>>

Withdraw ==
  /\ up /\ required
  /\ tries \in {0, Retries} \/ verdict \in {"decided", "raises"}
  /\ ready' = FALSE /\ tries' = 0 /\ verdict' = "none"
  /\ UNCHANGED <<required, up, accepted>>

Stop ==
  /\ up' = FALSE /\ ready' = FALSE /\ tries' = 0 /\ verdict' = "none"
  /\ UNCHANGED <<required, accepted>>

Next ==
  Launch \/ Start \/ Ask \/ Answer \/ Garble \/ AcceptLate \/ Drop \/ Admit \/ Withdraw \/ Stop

Spec == Init /\ [][Next]_vars
=============================================================================

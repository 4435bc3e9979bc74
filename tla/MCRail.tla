------------------------------- MODULE MCRail -------------------------------
(***************************************************************************)
(* Instances of Rail for TLC: an application on the node "app" with the    *)
(* key "n", Gate with the key "g", and a worker with the key "k".  Each    *)
(* setup departs from an ordinary one in one respect, or in two that have  *)
(* nothing to do with each other.                                          *)
(***************************************************************************)
EXTENDS Rail

App == [local |-> "app", gate |-> Gate, key |-> None, keyId |-> TRUE, alg |-> "hmac-sha256",
        requireSig |-> FALSE, verifyResp |-> FALSE, verifying |-> {}, unloadable |-> None,
        ceiling |-> None, margin |-> 0, default |-> 2]
SignedApp == [App EXCEPT !.key = "n", !.requireSig = TRUE, !.verifyResp = TRUE,
                         !.verifying = {"g"}]

Authority == [gate |-> Gate, key |-> None, keyId |-> TRUE, alg |-> "hmac-sha256",
              requireSig |-> FALSE, verifyResp |-> FALSE, verifying |-> {},
              unloadable |-> None]
SignedAuthority == [Authority EXCEPT !.key = "g", !.requireSig = TRUE, !.verifyResp = TRUE,
                                     !.verifying = {"k"}]

Open == [prod |-> FALSE, dev |-> TRUE, requireSig |-> FALSE, execSig |-> None, relaySig |-> None,
         alg |-> "hmac-sha256", key |-> None, keyId |-> TRUE, verifying |-> {},
         unloadable |-> None, actions |-> {"act"}, execActions |-> {}, relayActions |-> {}, types |-> {"request"}, execTypes |-> {},
         relayTypes |-> {}, idem |-> {}, replay |-> FALSE, enforce |-> TRUE, relay |-> FALSE,
         requireRoute |-> TRUE, returnErrors |-> TRUE, expose |-> FALSE, skew |-> 1,
         maxBytes |-> 3, maxHops |-> 1, maxLinks |-> 1, attachable |-> {}]
Guarded == [Open EXCEPT !.prod = TRUE, !.dev = FALSE, !.requireSig = TRUE, !.key = "k",
                        !.verifying = {"g"}]

Ask == [timeout |-> 1, idem |-> None, tenant |-> "org", restricted |-> FALSE,
        payload |-> [status |-> "asked"], wellFormed |-> TRUE, serialisable |-> TRUE,
        required |-> {}]

\* A packet has the size its payload says, and one more for each hop; what Gate
\* answers the tenant "wordy" is more than a packet may hold.
Sized(status, n) == [status |-> status, error |-> None, size |-> n]
MCSize(p) ==
  IF p.core.id = <<"answer", 0>> /\ p.core.tenant = "wordy" THEN MaxBytes + 1
    ELSE Len(p.hops) + (IF "size" \in DOMAIN p.core.payload THEN p.core.payload.size ELSE 0)

\* What the worker's handler returns: a result, a failure, and more than Gate takes.
MCResults ==
  {[status |-> "completed", error |-> None], [status |-> "failed", error |-> None],
   Sized("completed", 3)}

\* The ordinary setups: nothing is signed, and everything is.
Plain == [action |-> "act", ask |-> Ask, client |-> App, authority |-> Authority, base |-> TRUE,
          slip |-> <<>>, granted |-> {}, pool |-> "given", worker |-> Open,
          handlers |-> [a \in {"act", "*"} |-> IF a = "act" THEN "async" ELSE None], drift |-> 0]
Secured == [Plain EXCEPT !.client = SignedApp, !.authority = SignedAuthority, !.worker = Guarded]

\* The client's side: budgets, and calls it refuses.
Calls ==
  { [Plain EXCEPT !.ask.timeout = None, !.client.ceiling = 1, !.ask.tenant = "wordy"],
    [Plain EXCEPT !.ask.timeout = 2, !.client.margin = 1, !.worker.returnErrors = FALSE],
    [Plain EXCEPT !.client.margin = 1],
    [Plain EXCEPT !.ask.timeout = 0],
    [Plain EXCEPT !.ask.wellFormed = FALSE],
    [Plain EXCEPT !.ask.restricted = TRUE],
    [Plain EXCEPT !.ask.serialisable = FALSE],
    [Plain EXCEPT !.ask.payload = Sized("asked", 4)],
    [Secured EXCEPT !.client.unloadable = "ValueError"],
    [Plain EXCEPT !.client.local = "client"],
    [Secured EXCEPT !.client.keyId = FALSE],
    [Secured EXCEPT !.client.unloadable = "TransportAuthenticationError"] }

\* Gate's side: a dispatch wrongly derived or addressed, and its keys.
Wrong(f, value) == [g \in {f} |-> value]
Dispatches ==
  { [Plain EXCEPT !.slip = slip] :
      slip \in {Wrong("src", "app"), Wrong("dst", "other"), Wrong("replyTo", "app"),
                Wrong("resolved", FALSE), Wrong("route", None), Wrong("links", 2),
                Wrong("until", -1), Wrong("until", 0)} }
  \cup
  { [Plain EXCEPT !.base = FALSE],
    [Plain EXCEPT !.slip = [f \in {"src", "replyTo"} |-> "other"], !.authority.gate = "other"],
    [Plain EXCEPT !.ask.payload = Sized("asked", 3)],
    [Plain EXCEPT !.slip = Wrong("audited", TRUE), !.worker.dev = FALSE,
                  !.worker.enforce = FALSE,
                  !.handlers = [a \in {"act", "*"} |-> IF a = "*" THEN "sync" ELSE None]],
    [Secured EXCEPT !.slip = Wrong("audited", TRUE), !.drift = -1],
    [Plain EXCEPT !.pool = "none", !.worker.actions = {"other"}],
    [Secured EXCEPT !.authority.unloadable = "ValueError"],
    [Secured EXCEPT !.authority.keyId = FALSE],
    [Secured EXCEPT !.authority.alg = "ed25519"],
    [Secured EXCEPT !.authority.verifying = {}],
    [Secured EXCEPT !.authority.key = None] }

\* The worker's side.
Workers ==
  { [Plain EXCEPT !.handlers = [a \in {"act", "*"} |-> None]],
    [Plain EXCEPT !.handlers = [a \in {"act", "*"} |-> IF a = "act" THEN "cleanup" ELSE None]],
    [Plain EXCEPT !.worker.maxBytes = 0],
    [Plain EXCEPT !.worker.maxLinks = 0, !.slip = Wrong("links", 1)],
    [Plain EXCEPT !.worker.maxHops = 0],
    [Secured EXCEPT !.worker.unloadable = "ValueError"],
    [Plain EXCEPT !.worker.idem = {"act"}],
    [Plain EXCEPT !.worker.idem = {"act"}, !.ask.idem = "key", !.worker.expose = TRUE],
    [Secured EXCEPT !.worker.verifying = {"x"}],
    [Secured EXCEPT !.drift = -2],
    [Secured EXCEPT !.drift = 1, !.client.verifying = {}], [Secured EXCEPT !.drift = 2] }

\* Probes: who signs the receipt, and what it grants.
Asking == [Secured EXCEPT !.action = Admission, !.ask.required = {"act"}, !.granted = {"act"}]
Probes ==
  { Asking, [Asking EXCEPT !.granted = {}], [Asking EXCEPT !.client.verifyResp = FALSE],
    [Asking EXCEPT !.client.verifying = {}],
    [Asking EXCEPT !.authority.key = None],
    [Asking EXCEPT !.authority.key = "n"],
    [Asking EXCEPT !.authority.key = "n", !.client.verifying = {"g", "n"}],
    [Asking EXCEPT !.authority.key = "x"] }

MCSetups == {Plain, Secured} \cup Calls \cup Dispatches \cup Workers \cup Probes

\* What a handler may hold: an answer it got from Gate for work of its own.
Foreign ==
  LET core == [RootCore(App, Ask, "act", <<"other", 0>>, 0) EXCEPT
                 !.type = "response", !.src = Gate, !.dst = Node, !.replyTo = Gate,
                 !.cause = <<"work", 9>>, !.payload = [status |-> "completed", error |-> None]]
  IN  Unsigned(core, FALSE)
MCElsewhere == {Foreign}
=============================================================================

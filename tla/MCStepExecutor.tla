--------------------------- MODULE MCStepExecutor ---------------------------
(***************************************************************************)
(* Instances of StepExecutor for TLC: the workflows of an orchestrator     *)
(* "orch" with the key "n", under a Gate that signs with "g".               *)
(***************************************************************************)
EXTENDS StepExecutor

\* A packet is as large as its payload says.
Asking(n) == [status |-> "asked", run |-> None, size |-> n]
MCSize(p) == IF "size" \in DOMAIN p.core.payload THEN p.core.payload.size ELSE 1

\* The workflow's packet, as Gate dispatched it.
Core == [id |-> <<0, 0>>, type |-> "request", action |-> 0, created |-> 0, expires |-> None,
         notBefore |-> None, timeout |-> 1, idem |-> None, corr |-> "corr", cause |-> None,
         replay |-> FALSE, src |-> Gate, dst |-> Node, replyTo |-> Gate, tenant |-> "org",
         payload |-> Asking(2), resolved |-> TRUE,
         route |-> "external_ingress", origin |-> "gate", asked |-> 0, original |-> "client",
         parent |-> None, root |-> <<0, 0>>, gen |-> 1, audited |-> FALSE, links |-> 0,
         until |-> None, attached |-> None, defects |-> {}]

Client == [local |-> Node, gate |-> Gate, key |-> None, keyId |-> TRUE, unloadable |-> None,
           alg |-> "hmac-sha256", requireSig |-> FALSE, verifyResp |-> FALSE, verifying |-> {},
           ceiling |-> None, margin |-> 0]
Signing == [Client EXCEPT !.key = "n", !.requireSig = TRUE, !.verifyResp = TRUE,
                          !.verifying = {"g"}]

\* RetryPolicy(): the default types, here with two attempts for three.
Default == [max |-> 2,
            retryable |-> {"TimeoutError", "TransportAuthenticationError",
                           "TransportAuthorizationError", "TransportValidationError",
                           "TransportIntegrityError", "GateClientError"}]
Policies == {Default, [Default EXCEPT !.max = 1], [Default EXCEPT !.retryable = {"TimeoutError"}]}

Workflow == [client |-> Client, policy |-> Default, parent |-> Unsigned(Core, FALSE),
             payloads |-> [s \in 1..Steps |-> Asking(1)], budget |-> None, gateKey |-> None]
Of(core) == [Workflow EXCEPT !.parent = Unsigned(core, FALSE)]
By(c) == [Workflow EXCEPT !.client = c]
Unloadable(raised) == By([Client EXCEPT !.key = "n", !.alg = "ed25519", !.verifying = {"n"},
                                       !.unloadable = raised])

\* Keyed or not, in a node or outside one, under each policy.
Orderly ==
  {[Of([Core EXCEPT !.idem = key, !.timeout = 2]) EXCEPT !.policy = policy, !.budget = budget,
                                                         !.client.ceiling = 1] :
     key \in {None, "key"}, policy \in Policies, budget \in {None, 2}}

\* What a packet or a configuration does to the exchange.
Particular ==
  { Of([Core EXCEPT !.notBefore = 0]), Of([Core EXCEPT !.notBefore = 1]),
    Of([Core EXCEPT !.type = "replay_request", !.replay = TRUE]),
    Of([Core EXCEPT !.defects = {"governance"}]), Of([Core EXCEPT !.links = 2]),
    Of([Core EXCEPT !.until = 0]), Of([Core EXCEPT !.attached = "doc"]),
    [Workflow EXCEPT !.parent = Unsigned(Core, TRUE)],
    [Workflow EXCEPT !.parent = Unsigned([Core EXCEPT !.audited = TRUE], TRUE)],
    [Workflow EXCEPT !.payloads[Steps] = None], [Workflow EXCEPT !.payloads[1] = Asking(2)],
    Unloadable("TransportAuthenticationError"), Unloadable("ValueError"),
    By([Client EXCEPT !.local = "other"]), By([Client EXCEPT !.gate = "other"]),
    By([Client EXCEPT !.key = "n", !.keyId = FALSE]),
    By([Client EXCEPT !.key = "n", !.alg = "ed25519"]),
    By([Client EXCEPT !.key = "n", !.alg = "ed25519", !.verifying = {"n"}]),
    By([Client EXCEPT !.requireSig = TRUE]), By([Client EXCEPT !.margin = 1]) }
  \cup {[By(Signing) EXCEPT !.gateKey = key] : key \in {None, "g", "x"}}

AllSetups == Orderly \cup {[w EXCEPT !.policy.max = 1] : w \in Particular}
               \cup {Of([Core EXCEPT !.expires = 1])}
OneSetup == {Workflow}
=============================================================================

# A TLA+ model of the Constellation Node SDK

This directory specifies, model-checks and proves parts of the SDK in
`src/constellation_node_sdk`: the packet that travels between Gate and the nodes, the runtime of
a worker node, the node's participation in Gate, the steps an orchestrator sends through
Gate, a call from end to end over both outbound rails, and the capability cache. The specifications are written from the
code; documents and tests were read to learn what the code promises.

## The system

Nodes talk only to Gate. Gate resolves an action to a node and dispatches a `TransportPacket` to
it; the node runs a handler and answers with a child packet; follow-up work goes back to Gate as
another child. Everything is HTTP and JSON, a node is one process with one asyncio event loop, and
nothing is persisted.

| Part | State it keeps | Operations | Talks to |
|---|---|---|---|
| Transport packet (`transport/`, `security/`) | none, packets are immutable | `derive`, `with_hop`, hop makers, sign, verify, `validate_transport_packet` | used by every part |
| Node runtime (`runtime/app.py`, `execution.py`, `handlers.py`, `inbound_policy.py`, `preflight.py`, `config.py`, `errors.py`) | handler registry, requests in flight, configuration | `/v1/execute`, `/v1/relay`, `register_handler`, `clear_handlers` | Gate (HTTP in), handlers (callbacks) |
| Participation (`runtime/participation.py`, `gate/registration.py`, the lifespan in `app.py`) | status, background task, readiness | start, re-registration loop, stop, `/v1/ready` | Gate (HTTP out), the runtime (`on_change`) |
| Gate client (`gate/client.py`, `policy.py`, `_packet_http.py`) | none per call | `execute`, `send_to_gate`, `activate` | Gate |
| Dispatch transport (`gate_authority/`) | pooled HTTP client | `send_gate_authored_packet` | workers |
| Step executor (`orchestrator/`) | attempt counter of one step | `execute_step` with `RetryPolicy` | Gate client |
| Capability client (`gate/capability_client.py`) | two caches with ETags and times to live | list, get, `invalidate` | Gate |
| Delegation, tenant, provenance, trace context, codec, observability | none | validation, formatting, metrics | - |

What is hard in it, and what makes each part correct:

* **Packet.** A child inherits some header fields and refreshes others, hops chain across nodes
  with different clocks, and many checks apply in one order. Correct: what one participant builds,
  the next accepts; a journal extended is a valid journal.
* **Runtime.** Seven configuration switches decide together what is trusted; a budget is enforced
  by a timer on a loop a handler may hold; the error path repeats the steps that may have failed.
  Correct: nothing unauthenticated reaches a handler of a node that trusts Gate's claims, every
  accepted request is answered, and the answer is one Gate accepts.
* **Participation.** Attempts overlap shutdowns; replies are lost or late; Gate forgets, the node
  crashes. Correct: readiness is never stale, ready means accepted, decisions are final, active is
  left only for cause, and a node comes back by itself.
* **Step executor.** A step whose outcome is unknown is repeated. Correct: bounded attempts, and no
  second execution of a step that may have happened unless the caller allows it.
* **Capability client.** Concurrent lookups, conditional requests and `invalidate` share a cache.
  Correct: no answer older than the time to live when it was asked for, none from before an
  invalidation unless a request was on its way; a forced lookup is fresh.
* **Outbound rails** (client and dispatch). One budget is measured on three clocks, four messages
  may be lost or damaged, and three participants with their own keys and settings check the same
  packet. Correct: one POST, dispatch and run per call, a result is the worker's, a call fails only
  for cause, work ends with the call, a receipt is Gate's.

`PROJECT.json` lists the components, the hazards of the code at their lines, and for each modelled
definition the source lines it stands for.

## Modules

| Module | What it is |
|---|---|
| `TransportPacket` | The packet as a record and the pure operations on it. No state. |
| `PacketProofs` | Theorems about `TransportPacket`: journals, signatures, validity, derivation; the proofs below use them. |
| `NodeRuntime` | One worker node: configuration, registry, requests, the event loop. |
| `MCNodeRuntime` | The packets and configurations TLC uses for it. |
| `NodeRuntimeProofs` | Theorems about `NodeRuntime`: what it executes. |
| `NodeAnswersProofs` | Theorems about `NodeRuntime`: what it answers, and when. |
| `ReadinessContract` | What an orchestrator and Gate may count on when a node says it is ready: the abstract specification. |
| `Participation` | The lifespan, the registration loop, readiness, Gate's registry and the wire. |
| `MCParticipation` | The settings TLC uses for it. |
| `ParticipationProofs` | Theorems about `Participation`, and that it implements `ReadinessContract`. |
| `GateExchange` | What `GateClient` and `GateDispatchTransport` do before and after their one POST, as pure operators. No state. |
| `StepContract` | What an orchestrator may count on when it sends steps: the abstract specification. |
| `StepExecutor` | `execute_step` and the exchange of the Gate client, over Gate and the network. |
| `MCStepExecutor` | The workflows TLC uses for it. |
| `StepExecutorProofs` | Theorems about `StepExecutor`, and that it implements `StepContract`. |
| `CallContract` | What an application may count on when it calls `execute` or `activate`: the abstract specification. |
| `Rail` | One call from end to end: the client, Gate's dispatch transport, an instance of `NodeRuntime` as the worker, and the network between them. |
| `MCRail` | The setups TLC uses for it. |
| `RailProofs` | Theorems about `Rail`, and that it implements `CallContract`. |
| `RailCauseProofs` | Theorems about why the rails refuse or fail a call. |
| `CapabilityCache` | `GateCapabilityClient` with concurrent lookups, and a Gate that changes what it says. |
| `MCCapabilityCache` | The symmetry and the constraint TLC uses for it. |
| `CapabilityCacheProofs` | Theorems about `CapabilityCache`. |

`GateExchange` extends `TransportPacket`; `StepExecutor` and `Rail` extend `GateExchange`; `Rail`
instantiates `NodeRuntime` with one request and the worker's own clock.

### TransportPacket

A packet is `[core, restricted, hash, sig, hops]`. The core holds every field the transport hash
covers, and the hash of a packet is its core: SHA-256 is taken as injective, so a tampered packet
is one whose hash is not its core, and a signature is a key with the core it signed. `restricted`
is `security.classification`, which `compute_transport_hash` leaves out (`hashing.py:63-74`) and
the signature with it: it can be changed on the wire without anybody's notice, and the model's
network does change it. Hop hashes are the pair they are computed from, so the chain of
`previous_hop_hash` is real. `Checks` has the checks of `validate_transport_packet` in their order,
since the first one that fails decides the error the caller sees.

How large a packet is, is an operator of the packet, `Size`, which each instance defines and the
theorems leave open: a child is measured for itself and not by its parent. Of a delegation chain a
packet has its length (`links`) and when its first link expires (`until`), of its attachments
whether a limit lets them pass (`attached`); each limit is a parameter of the validator. What is
wrong with a packet whenever it is looked at (its schema version, its governance, a delegation that
widens its scope or lacks its mandate) is in `core.defects`. Hop signatures are left out.

### NodeRuntime

`cfg` is a `NodeRuntimeConfig` that passes its validator and the preflight (`Startable`); `req`
has a record per HTTP request; `handlers` is the global registry; `now` the node's clock. Between
two awaits the event loop runs nothing else, so an action is what happens between them: `Start` is
everything from the decoded body to the call of the handler, `ReturnDict`, `ReturnPacket`,
`ReturnRequest`, `RaiseError` and `TimeOut` everything from the handler's end to the HTTP answer,
with the failure packet of the `except` clause when building the answer fails, and the bare HTTP
error when that fails too: its dates forbid it, the key cannot be loaded (`SignError`), or a blank
message is to be exposed (`expose_internal_errors`). A handler that has cleanup to await when
`wait_for` cancels it keeps `wait_for` waiting: `Cancel` marks it, and it ends in `EndCancelled` or,
if it swallows the cancellation, as any handler ends. A handler declared
with `def` does not suspend: while one runs (`Blocked`) no other request moves and no timer is
served. `Tick` lets time pass; a free loop serves a due timer before it waits again, which is what
asyncio does.

### Participation and ReadinessContract

`life` is how far the lifespan is, `state`, `attempts` and `failures` are the
`ParticipationStatus`, `ready` is `app.state.runtime_ready`, and `call` the `register_node` in
flight. Gate is external and is what `register_node` takes it to be: a registry in memory that
answers 200, a decision or something else. What the POST ends in may also be an exception that is no
`httpx.TransportError` (a reply that cannot be decoded, say): `register_node` does not catch it, and
`register_once` ends the attempt whatever tries are left (`Raises`). The wire carries a POST and its reply; either may be
lost, a POST abandoned by its client may still arrive, and Gate may restart. A new process starts
from `Boot`. `heard` is history: Gate accepted a POST of this process.

The code sets the state to registering for every attempt of a node that is not active, a
re-registration of a degraded node included, where `contracts/NODE_REGISTRATION_SPEC.md:105` has
"first attempt in flight"; `Ask` does what the code does, and both states answer 503.

`ReadinessContract` knows nothing of the lifespan's phases, the status, timers and the wire: a
process that is up or not, Gate's verdicts and the tries of an attempt. It says what may turn
readiness on (a verdict of Gate's for this process) and what may turn it off (a decision, spent
tries, no registration to send, an exception of the POST). `KeepsContract` is the refinement.

### StepExecutor and StepContract

An orchestrator's handler calls `execute_step` for the steps `1..Steps` of its workflow in turn.
`work` is the setup: the client's configuration, the retry policy, the workflow's packet, when the
runtime cancels the handler (`budget`, None outside a node), the payload of each step (None when no
packet can hold it, or the action is blank) and the key Gate signs with. `step`,
`attempt`, `phase` and `error` are where `execute_step` is and its `last_error`; `results` is what
it has returned. An attempt is one action up to the POST (`Post`, or `BuildFails` and `SendFails`
when building, policy, signing, validation or the deadline stops it) and one from the reply, the
timeout or the broken connection to the next await. `SendError` and `ReplyError` are the two halves of
`GateClient._exchange` with their checks in the order of the code, `Family` the class names that
`should_retry` matches. A backoff ends at any instant: nothing modelled depends on its length.

Gate, workers and network are external and do what the repository says of them. A POST stays on
the wire after its client has given up, and may be executed at any time after; Gate may refuse it
or, under an idempotency key, answer with the packet it keeps for the key
(`docs/transport-packet.md`, Idempotency; `tests/transport/test_idempotency_propagation.py`). Gate
is taken to look the key up and dispatch in one step, so two POSTs with one key never run at once:
what the SDK contributes, and what is checked, is that every attempt of an operation carries the
same key. A reply may be lost with its connection or replaced by a proxy's.

Since every step of a workflow inherits the key of the workflow's packet, a second step may be
answered with the packet of the first. The SDK does not generate or extend keys, so this is what
the model does; `ResultsAreRuns` and the contract's `Answer` say exactly how far it goes.

`StepContract` knows nothing of clocks, packets and errors: POSTs, executions and outcomes of
steps. `KeepsContract` is the refinement, with `sent` for the POSTs and an outcome computed from
`results` and `phase`.

### GateExchange, Rail and CallContract

`GateExchange` has the checks of both rails in the order of the code, each as the error it raises:
`ExecuteError`, `ActivateError` and `SendError` before the client's POST, `ReplyError` and
`ReceiptError` after it, `DispatchError` and `WorkerReplyError` for the dispatch transport. A
`Keyring` is shared by the two, because `resolve_verifying_key` is. A key is identified with its
key id. `SigningError` is what `_maybe_sign` raises: a key that cannot be loaded may raise what
neither rail makes an error of its own. `Untyped` are the errors that leak so: `TypeError` for a payload
that JSON cannot hold (against `docs/gate-client.md:115`), `ValueError` for such a key and `RuntimeError`
for a closed client; the run `dispatch_errors` shows the last two on the dispatch rail.

`Rail` makes one call of them. `call` and `dispatch` are the two calls of the SDK, with the packet
that was posted, the deadline and the result; `pool` is the transport's HTTP client, made by
`__aenter__` or given, and closed by `aclose` on both sides of its await; `handlers` and `req` are
the worker, whose steps are those of `NodeRuntime` at the time `now + setup.drift`. `wire` has the
message on each of the four legs. `setup` is everything that was decided before: the action (the
admission probe is one), what the application asks for, the configurations of the client, of Gate's
transport and of the worker, and what Gate gets wrong, or adds, when it derives the dispatch (`slip`).

Gate itself is external. It derives the dispatch as `docs/gate-authority-transport.md` and the
tests of the dispatch transport do: a child of the call, addressed, resolved and hopped by Gate,
with the budget that is left. `slip` lets it leave out or mistake each of the fields that the
transport's authority check looks at, and add a delegation, which may expire on the way, or an audit;
`AgreedDispatchRuns` then says what that check is for. `Damage` spoils a body, replaces a reply or
relabels a packet's classification.

A worker's handler may return a packet it holds from somewhere else (`Elsewhere`), which
`execute_transport_packet` hops and signs without a look. `ResultIsTheWorkers` shows that the
dispatch transport stops it; `FailsForCause` lists it among the causes of a failed dispatch.

`CallContract` knows nothing of packets and clocks: a call is posted, dispatched and run at most
once each, in this order and possibly long after it failed, and a result is that of a run.
`KeepsContract` is the refinement.

### CapabilityCache

`look` has a record per lookup: what it asked, the entry it named in `If-None-Match`, the reply and
how it ended. A lookup is `ServeCached`, or `Ask` and then one of `Confirm` (304), `Store` (200),
`Bare` (304 without an entry) and `Fail`; what lies between is the await. An entry carries its
writer, because the 304 of an action's lookup extends the entry only while it is the same object.
`replaced` is when Gate replaced each version of what it says.

The two lookups differ after the await. `get_capability` keeps the entry it found, and
`list_capabilities` reads the cache again: when another lookup has stored a different list in
between (another version, or the other `include_protected`), the 304 is taken for the wrong entry.
`crossed` says that the list's entry lives on by such a 304: from it until the next 200, a 304 about
that entry itself, or `invalidate`. `EntriesAreBounded` excepts the entry for that while, and
`AnswersAreBounded` the lookups answered with it; the run `list_age` states the bound without the
exception, as the module's docstring has it, and it is violated. `InvalidationHolds` needs no such
exception, and `force_refresh` is not affected. When the cache was
emptied in between, both raise the `ValueError` of parsing an empty body.

## What the runs check

| Run | Instance | Shows |
|---|---|---|
| `auth` | one request, 576 candidate profiles (`AuthConfigs`, less those that do not start), 11 packets | `AuthenticatedExecution`: preflight, ingress law and validation leave no combination of switches under which a packet whose signature does not verify is executed by a node that enforces Gate-only ingress, on either route |
| `answers` | one request; packets with each date, rule, limit and journal on both sides of its check; nine profiles; four instants | `TypeOK`; `ProcessingTraceValid`; `AnswersAccepted`: the node's own answers answer the dispatch, and pass Gate's validation but for their size and an expired delegation; `HttpOnlyWhenNoPacketCanBe`: the complete list of reasons for a bare HTTP error |
| `loop` | two requests, handlers that suspend, that have cleanup and that hold the loop, budgets of one instant | `LateOnlyBehindSync`: a handler overruns its budget, before it ends or is cancelled, only while some handler holds the loop; `EveryRequestAnswered` |
| `participation` | all eight settings, two tries an attempt, three faults | `TypeOK`, `ReadyCoherent`, `ReadyMeansAccepted`, `LeavesActiveForCause`, `DecisionsAreFinal`, `KeepsContract`, `Recovers` |
| `lost_result` | a packet that expires during its handler | `ExecutedIsAnswered` is violated |
| `steps` | two steps, up to two attempts, with and without a key, in a node and outside, three policies; packets and clients that cannot be built, signed or sent, one respect at a time | `TypeOK`, `ResultsAreRuns`, `NothingRunsTwice`, `UnsentOnlyForCause`, `RepeatedForCause`, `KeepsContract`, `WorkflowEnds` |
| `disconnected` | the default workflow | `DisconnectedMeansNotRun` is violated: a broken connection is reported as Gate never reached |
| `unkeyed_retry` | the default workflow, no key | `RepeatedOnlyUnderKey` is violated: the default policy repeats a step that timed out |
| `rail` | one call; 53 setups, two ordinary ones (nothing signed, everything signed) and those that depart from one of them in one respect, or in two that have nothing to do with each other | `TypeOK`; `ResultIsTheWorkers`; `ExecutesTheCall`: what a handler is called with is the action, the payload, the tenant and the keys of the application's call; `AgreedDispatchRuns`: what leaves Gate's transport is refused only by a worker that does not agree with Gate on its name, its key, the action, a limit or the time, or damaged, or when its delegation has run out, and executed only by one that agrees; `FailsForCause`: the complete list of reasons for which a posted call fails without a fault; `WorkEndsWithTheCall`; `ReceiptIsGates`; `KeepsContract`; `WaitsEnd` |
| `dispatch_errors` | the same | `DispatchErrorsTyped` is violated: a closing client and a key that cannot be loaded raise what is no `GateDispatchError` |
| `capabilities` | three lookups of the list or of one action, two versions | `TypeOK`, `EntriesAreBounded`, `AnswersAreBounded`, `ForcedIsFresh`, `InvalidationHolds` |
| `list_age` | the same | `NoAnswerIsOld` is violated: a 304 taken for an older list, stored while it was on its way |

The runs that are violated state what a document or test says and the code does not do; `PROJECT.json` quotes
the lines under "findings".

Two more such disagreements follow from the model and have no run. A handler that returns a dict with status
`failed` gets its payload replaced by a `ValidationError` failure, since `make_response_hop` names no
error for a failed hop (`execution.py:165`, against `docs/transport-packet.md:145`); and the answer to
a replay request inherits `replay_mode`, which every validator refuses (`packet.py:124`).
`AnswersAccepted` includes the first and leaves replay requests out.

### Bounds

* `MaxTime`, `LastArrival`: in `answers` and `lost_result` the clock ends at 3, budgets are 1 and dates
  lie in 0..2, so every order of arrival, start date, deadline, expiry and answer occurs, with an
  instant to spare. In `loop` it ends at 2 with the last arrival at 1: a deadline of 1 or 2 can be met,
  missed and met by a cancellation. In `auth` no date matters.
* `Requests`: one where requests do not interact (`auth`, `answers`), two where they do (`loop`):
  a request waits behind one other handler, and what a third would add is more of the same wait.
* Limits: Gate's are 1 hop, 1 link, a size of 2 (3 in `rail`) and no attachment; the worker's are the same or
  differ by one either way, so each limit is met, exceeded, and exceeded for one of the two only.
* `Retries = 2`: a first, a last and no middle try. `CounterCap = 3`: the counters saturate;
  the properties compare them with zero and with each other, which saturation keeps.
* `MaxFaults = 3`: enough for a lost reply, a restart of Gate and a crash in one behaviour.
* `Steps = 2`, two attempts, `MaxTime = 1` (the clock goes on while a deadline runs): a late POST
  meets the backoff, the second attempt, the next step and the end of the workflow. A step's
  relation to others is to an earlier one, which two steps have.
* `Rail`: `MaxTime = 0`, but the clock goes on while a deadline runs, so it ends two or three
  instants after the last POST. Budgets are 1 and 2, margins 0 and 1, drifts -2 to 2 with a
  tolerance of 1: within, at and beyond each. `MaxFaults = 1`: a message is damaged once or a
  connection broken; what a second fault could do after the first, the first can do on another leg.
* `CapabilityCache`: three lookups, so that two cross and a third reads what they left; a time to
  live of 1 and an instant more; two versions, since a property compares an answer with the one
  current at some instant. The constraint `OneKey` keeps a behaviour to one key: the keys have
  nothing in common but `invalidate`, which may come at any instant. Lookups are interchangeable,
  and no property names one, so the symmetry is sound (no liveness is checked). The theorems need
  none of these bounds.

Deadlock is checked in the runs of the node: handlers can always be registered, and a node can
always be started again. A workflow and a call end, and the cache's clock does, so the runs of `StepExecutor`,
`Rail` and `CapabilityCache` do not check it.

### Fairness

* `NodeRuntime`: the clock goes on, a due timer is served when the loop is free, and a handler that
  holds the loop returns. A suspended handler need never return: that is what the timer is for; nor
  need a cancelled one end its cleanup, so `EveryRequestAnswered` promises the answer or the cancellation.
  The assumption on holding handlers is needed, the code cannot interrupt one.
* `Participation`: the loop's timers go off (`Reregister`, `Retry`), a reply is handled, a client
  whose request is lost gives up (its ten seconds pass), an exception is caught, and Gate answers what reaches it. Nothing
  makes a process start, stop or fail, and no late request must arrive. Each is weak fairness of an
  action that stays enabled until it is taken.
* `StepExecutor`: the clock goes on, a timer that has gone off (the client's or the runtime's) is
  served, a reply is read, and the handler goes on to its next attempt. Gate, the workers and the
  network need never do anything: `WorkflowEnds` rests on the deadlines and the bounded attempts.
* `Rail`: the clock goes on, the timers of the client, of the transport and of the worker are
  served, and a call that can be begun is. Gate, the network and a suspended handler need never do
  anything, and no reply need be read before its deadline. A handler that holds the worker's loop
  may hold it for ever, which is why `WaitsEnd` promises the worker's answer, or the cancellation of
  its handler, for suspended handlers only; the caller's wait ends in any case, provided that a deadline is
  one (see Limits).
* `CapabilityCache` has no liveness property: a request of the capability client has no deadline of
  its own (it is the one httpx was configured with).

## What is proved

The proofs hold for every value of the constants that meets the named assumption of its module.

`PacketProofs` (each theorem names what it asks of the packet):

* The journal. `JournalIsExtended`: a hop extends a valid journal if and only if the node's clock is
  not behind the last hop's. `JournalIsOrdered`: though the validator compares neighbours, the
  times of a valid journal are in order throughout. `JournalIsEvidence`: two valid journals that end
  in the same hop hash are equal hop by hop, so one hash stands for the whole route. The last two are
  inductions over a journal, made with the least counterexample (`First`) since a rule of
  induction is out of the prover's reach.
* Signatures. `AcceptedIsSigned` and `SignatureBinds`: where a signature is asked for, what is
  accepted was signed under a key the validator resolves, and one signature is for one core. Of the
  classification, which is outside the hash, neither says anything.
* Validity. `ValidityIsAWindow`: the instants at which a packet is valid are an interval.
  `StricterAcceptsLess`: a configuration that asks for more never accepts what another refuses.
  Writing `Stricter` shows the one exception of the code: in development mode without any key every
  signature passes, so a key more is stricter there, and has to be named.
* Derivation. `WhenDerivable`: exactly when an answer's header can be built, which is the reason of
  `lost_result`.
* `ValidExactly` and `ChecksPass` say what a packet must have to pass every check; the proofs
  of the modules below rest on them.

`NodeRuntimeProofs` (from `RuntimeAssumption`, which says what shape packets have):

* `TypeCorrect`, `AuthenticationHolds`, `ProcessingTraces`: `Spec => []P` for `TypeOK`,
  `AuthenticatedExecution` and `ProcessingTraceValid`.
* The invariants that are checked are not inductive: a running request says nothing of why it was
  started. `IInv` adds that the configuration is one that starts and that every executed request was
  admitted when it arrived (`Admitted`): the ingress law, every check of the validator at that
  instant. `IInvStep` shows that no answer disturbs an admission and that `Start` establishes it.
  `AdmissionAuthenticates` then derives authentication from the preflight rule and the signature
  check, and `HopExtendsTrace` shows that an execution hop extends a valid chain.

`NodeAnswersProofs` (from `RuntimeAssumption`, `FieldAssumption`, which lists the fields packets
have, and `SignatureAssumption`: a signature is not `None`):

* `HttpErrorsForCause`, `AnswersAreAccepted`, `LateForCause`: `Spec => []P` for
  `HttpOnlyWhenNoPacketCanBe`, `AnswersAccepted` and `LateOnlyBehindSync`.
* The first two are settled in the step that answers: `AnswerFields` and `MadeParts` say what
  `derive`, the hop and the signature make of a request, `MadeAccepted` that it passes each of the
  validator's checks (`ChecksPass` in `PacketProofs`), and `DatesForbid` that a child that cannot be
  made has dates that forbid it. `Good` keeps both until the end; nothing touches an answer.
  A packet that is not to be answered to Gate gets an answer Gate has no use for, so
  `AnswersAccepted` is about those that are. It is an equivalence: `MadeAccepted` also shows that an
  answer that is too large, or whose delegation has expired, is refused.
* Lateness is of several requests: `OnTime` says that at each instant past its deadline a request has
  ended, been cancelled, or some handler held the loop, which the clock preserves since it waits for a timer that is due.

`ParticipationProofs` (from `ParticipationAssumption`):

* `TypeCorrect`, `ReadinessCoherent`, `ReadinessIsAccepted`, `StatusIsCounted`,
  `AttemptsAreSerial`, the action properties `ActiveIsLeftForCause`, `DecisionIsFinal`, and
  `ContractKept`: `Spec => KeepsContract`. `StatusIsCounted` and `AttemptsAreSerial` are parts of
  the invariant and no run checks them for their own sake: what they mean outside is in the contract.
* `IInv` adds to the checked invariants how the lifespan, the status and the call fit together
  (`Phases`: a node that is registering at startup has the state registering, a backoff has tries
  left, no tries are counted between attempts) and that an acceptance on the wire or in the status is
  one Gate gave this process (`Acceptances`). TLC was run on `IInv` before it was proved. For the
  refinement `ContractLifespan`, `ContractGate` and `ContractAttempt` map the actions of the
  process, of Gate and of the attempt.

`StepExecutorProofs` (from `StepAssumption`: at least one step and one attempt, packets with a key
and a budget):

* `TypeCorrect`, `ResultsWereRun`, `RunsOnce`, `UnsentHasCause` (which assumes that no signature
  record is `None`, and speaks of the size of every packet the step could have been), the action property `RepeatsHaveCause`, and `ContractKept`: `Spec => KeepsContract`, for any number of steps and attempts, every
  configuration of the client and every setup.
* `IInv` adds where the workflow is (`Progress`: a backoff has an attempt left and a retryable
  error, no POST is ahead of the current attempt), that a POST on the wire has not run and carries
  the workflow's key (`Wire`), and that what comes back, as far as it is intact, was made by Gate
  for a run (`Back`, `Kept`). `Accepted` shows that the client passes only intact packets that
  report no failure, so a result is a run. For the refinement, `OutcomeView` gives the outcomes as
  a function of the step and the phase, `CurrentStep` says how each way to leave a live phase
  changes them, and `ContractStep` maps each action to a step of the contract or a stutter.
* For `UnsentHasCause`, `OnlyUnsendableFails` goes through the checks of `send_to_gate` one by one:
  what the executor builds passes each unless `Unsendable` holds, and `UnsendableStays` shows that
  no such cause goes away, so it still holds when the workflow ends.
* `StepsInOrder` is drawn from the contract alone (`OrderStep` takes a step of `StepContract`): no
  step is posted before every earlier one is answered, and nothing is posted or answered after a
  failure, however late a POST arrives.
* `WorkflowAdvances` is what can be proved of `WorkflowEnds`: `Turns` counts what `execute_step` has
  done, every turn of its loop raises it, nobody else's step changes it, and it is at most
  `Steps * Room`. That a turn is always taken is a matter of fairness and stays with TLC.

`RailProofs` (from `RailAssumption`: what shape setups and the packets of other exchanges have, and
that no packet of another exchange is caused by this call's dispatch, since ids are unique):

* `TypeCorrect` (which assumes that `None` is no packet), `ResultsAreDelivered`,
  `ReceiptsAreGates`, `WorkIsBounded`, and `ContractKept`: `Spec => KeepsContract`, for every setup,
  clock drift and fault.
* None of it is inductive as it stands: a result is judged at the end of four legs. `IInv` follows
  the packet over each of them: `ClientLeg` and `DispatchLeg` say what was posted and when it is
  due, `WorkerLeg` that the worker runs the dispatch or a damaged form of it, `WorkerBack` and
  `ClientBack` what an intact reply on the way back is. `Travels` is the one idea: what is on the
  wire is what was sent, or is not intact. The budget goes down with it: what is left of the call's
  when Gate dispatches bounds the worker's.
* `OutcomesAreTrue` is drawn from the contract alone: a result was run, dispatched and posted; a
  receipt ran nothing; a call that was refused neither left the client nor runs at any time later.

`RailCauseProofs` (from `RailAssumption`, and that no signature record is `None`):

* `AgreedDispatchesRun`: `Spec => []AgreedDispatchRuns`, for every setup, in both directions:
  agreement is enough for an undamaged dispatch whose delegation has not run out, and what is executed was
  agreed on as it arrived (`TakenIsAgreed`).
* `TheCallIsExecuted`: `Spec => []ExecutesTheCall`, for every setup and fault. `Ordinary` carries the
  fields of the call through Gate's derivation; a damaged packet may be one of any shape, and the
  worker's own decoding is what stops it (`Decodable`: `model_validate` checks the hash).
* `Ordinary`, `CallMade` and `DispatchMade` say what the client and then Gate make of the call, as
  far as the worker looks; `Undamaged` that it arrives as it was sent. `AgreedIsTaken` goes through
  the worker's ingress rule, its validator and its registry. `Agreed` names what the two must agree on because the code has each
  twice: `NodeRuntimeConfig.gate_node_name` and `GateDispatchConfig.local_gate_node`, the keys, the
  limits, the actions. The proof found that the first was missing from it.

* `FailuresHaveCause`: `Spec => []FailsForCause`, for every setup. The way back mirrors the way
  down: `WorkerSaid` says what the SDK answers a dispatch with (`Replied`, which nothing but a handler
  that returns a packet of its own escapes), `Untouched` that it arrives, `GateSaid` what Gate makes
  of it. `ReplyTaken` and `GivenTaken` show that the transport and the client, which check the answer
  anew with keys and clocks of their own, then have nothing to refuse if they trust its signer.
  `DispatchCause` and `CallCause` are the two halves of the property, strengthened so that they
  last: a deadline stays passed, an answered request stays answered.

`CapabilityCacheProofs` (from `CacheAssumption`):

* `TypeCorrect`, `EntriesBounded`, `AnswersBounded`, `ForcedFresh`, `InvalidationKept`, for any
  number of lookups, keys and versions. The invariant adds what a waiting lookup knows: the entry it
  named was within its bound when it began, and a reply was true at some instant since.

Only model-checked: the liveness properties (`EveryRequestAnswered`, `Recovers`, `WorkflowEnds`,
`WaitsEnd`), which are out of the prover's reach, and the five runs that are violated.

## Limits

* Cryptography is ideal: hashes are injective and signatures are not forged, which is what
  `JournalIsEvidence` and `SignatureBinds` rest on. Hop signatures are off.
* The node's clock does not go backwards; the clocks of other nodes appear as dates of packets and
  hops ahead of it.
* A handler does what it likes with its result, and may await cleanup or swallow its cancellation, but does
  not mutate the packet it was given and does not cancel the request; a client that disconnects is not modelled.
* An ASGI server that runs the app's lifespan twice in one process is not modelled: a new process
  has a new status.
* Participation does not model what the node serves while it is ready, nor Gate's health monitor.
* The client's deadline, and that of the dispatch transport, is one instant. httpx applies its timeout to each
  phase of a request and restarts it with every chunk, so a reply that trickles in may outlast it.
  `WorkflowEnds`, `WaitsEnd` and the deadlines of `FailsForCause` are to be read with this.
* A workflow sends its steps one after the other; a handler that runs steps concurrently is several
  workflows with one key.
* `Rail` has one call. Calls share nothing in the client; in the dispatch transport they share the
  pooled HTTP client, of which a call sees only whether it is open.
* Gate looks at nothing of a packet that `Rail` needs beyond its integrity; what Gate checks at its
  own ingress is not in the repository.

## Not modelled

* Trace context, the codec and the readers of environment variables are stateless parsers and
  formatters: what they accept is text, and no property here is about text. A packet that does not
  decode is one the node cannot build (`RejectBody`, a page on the wire).
* `orchestrator/base.py`, `state.py` and `merge.py` are data helpers that nothing in the SDK calls.
* Metrics and logs are written and not read.
* Delegation chains and tenant rules are what they mean for a packet: a child keeps its tenant,
  provenance and delegations, a chain has a length and an expiry, and a scope that widens is in
  `core.defects`.
* `GateClient.health` is a GET whose answer is handed on.
* The scripts, the packaging and the release checks are not part of the running system.

## Plan

Done: the runtime, participation, the step executor, both rails composed with a worker, the cache;
every safety property that a run checks is a theorem. What is left:

1. Abstract specifications of the runtime (a request is admitted, run at most once and answered
   once) and of the cache (an answer is what Gate said at some instant not too long ago), with the
   refinements proved as those of the other three.
2. Several concurrent calls over one pooled client that is closed meanwhile.
3. The registry reader of `gate/registration.py` as a pure operator over what a spec file may lack.

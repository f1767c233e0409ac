# TLA+ models of the cache-invalidation client core

This directory holds TLA+ models of the client core in `src/google/cacheinvalidation`,
plus the TLC configurations that check them. The core is the part of the "Ticl"
(the invalidation client) that talks to the server.

## 1. Inventory

| Component | Source | State | Operations | Interacts with |
|---|---|---|---|---|
| ProtocolHandler | `v2/protocol-handler.cc` | `message_id_`, `last_known_server_time_ms_`, `next_message_send_time_ms_`, `pending_registrations_` (object → op), `acked_invalidations_` (set), `registration_subtrees_` (set), `client_version_` | constructor, `HandleIncomingMessage`, `CheckServerToken`, `SendInitializeMessage`, `SendInfoMessage`, `SendRegistrations`, `SendInvalidationAck`, `SendRegistrationSyncSubtree`, `SendMessageToServer`, `InitClientHeader`, `BatchingTask`, `MessageReceiver`, `NetworkStatusReceiver` (does nothing) | makes upcalls to the listener (token, invalidations, registration status, sync request, info request); reads the listener's token and summary; schedules the batching task on the OperationScheduler; sends bytes to the network; gets bytes through `MessageReceiver`, which posts them to the internal scheduler |
| OperationScheduler | `v2/operation-scheduler.cc` | `operations_`: closure → (delay, has_been_scheduled) | `SetOperation`, `ChangeDelayForTest`, `Schedule`, `RunAndClearScheduled` | posts wrapper closures to the internal scheduler; the wrapper runs the operation (here the batching task) |
| RegistrationManager | `v2/registration-manager.cc` | desired registrations (a digest-keyed store), `last_known_server_summary_` | `PerformOperations`, `GetRegistrations`, `HandleRegistrationStatus`, `GetClientSummary`, `ToString` | called by the listener; supplies the summary the ProtocolHandler puts in each header and the subtrees for sync requests |
| SafeStorage | `impl/safe-storage.cc` | none (holds its delegate and the scheduler) | `WriteKey`, `ReadKey`, `DeleteKey`, `ReadAllKeys` and their `*Callback` re-posting wrappers | the delegate store completes on any thread; SafeStorage re-posts each completion as a `CallbackWrapper` on the internal scheduler |
| NetworkManager | `network-manager.h` (declaration only) | `has_outbound_data_`, `outbound_listener_`, `last_poll_`, `last_send_`, `poll_delay_`, `heartbeat_delay_`, throttle | `HandleOutboundMessage`, `HandleInboundMessage`, `HeartbeatNeeded`, `OutboundDataReady`, `RegisterOutboundListener`, `InformOutboundListener`, `DoInformOutboundListener` | throttle, internal scheduler, the application's network callback |
| Throttle | not in the repository (spec 2 and 5) | time since the last firing, a deferred firing | a request to fire, the deferred firing | NetworkManager routes `InformOutboundListener` through it |
| logging stub | `v2/logging.h` | none | none (`#error`) | none |
| ProtocolListener (the Ticl) | not in the repository | client token, the application | `HandleTokenChanged`, `HandleInvalidations`, `HandleRegistrationStatus`, `HandleRegistrationSyncRequest`, `HandleInfoMessage`, `GetClientToken` | calls back into ProtocolHandler's `Send*` operations |

**Concurrency.** The ProtocolHandler, the OperationScheduler, the RegistrationManager and the
NetworkManager are touched only from the single internal scheduler thread. Each handler
therefore runs to completion, and each is one atomic step in the models. The concurrency that
matters is the *interleaving of closures* on that thread:
- server messages, which the network posts with no delay and in any order;
- the batching task, which fires `batching_delay` after it was scheduled;
- application calls, which the Ticl re-posts onto the thread;
- SafeStorage completions, which arrive from foreign threads and are re-posted.

**What is hard.**
- Ordering: messages arrive in any order. Registration statuses may be stale.
- Timing: the quiet period races the batching task. The batching delay races the closures
  that schedule it.
- Partial failure: the batches are drained before the outgoing validation.
- Session changes: the token can change inside the token-control upcall.
- Liveness: something must eventually send what was batched.
- Numeric edge: message ids.

**What makes each component correct.**
- **ProtocolHandler:**
  - no batched ack, registration or subtree is lost;
  - each sent message carries exactly what was batched, so nothing is sent twice;
  - the latest registration op wins;
  - nothing is sent in a quiet period, including one a later, shorter ConfigChangeMessage
    would cut short, and nothing but an initialize message is sent without a token;
  - the reported server time is monotone;
  - the listener sees only messages that passed the version, config and token gates;
  - batched data is eventually sent.
- **OperationScheduler:**
  - at most one outstanding wrapper per operation;
  - runs are at least the delay apart;
  - a scheduled operation eventually runs;
  - registering an operation never aborts.
- **RegistrationManager:**
  - the summary is a function of the desired set;
  - reconciliation removes exactly the objects whose status disagrees with the desired set,
    or whose status failed;
  - client and server converge.
- **SafeStorage:** every completion runs exactly once, on the internal thread, with the
  delegate's result.
- **NetworkManager:**
  - outbound data eventually reaches a registered listener, whatever the throttle and the
    order of registration;
  - heartbeats keep the client sending, and the messages it sends poll for invalidations.

## 2. Modules

### OperationScheduler.tla (+ MCOperationScheduler.tla)

**Variables:**
- `operations` is `operations_`: a function whose domain is the set of registered closures.
- `timers` holds the wrappers posted to the internal scheduler: the time each still waits
  and the delay it was posted with.
- `sinceRun` is a saturating history clock.
- `crashed` means a CHECK failed.

**Actions:**
- `SetOperation`, `ChangeDelayForTest`, `Schedule` and `RunAndClearScheduled` translate the
  four methods.
- `Tick` is one unit of the scheduler clock.

The closure an operation runs is abstract here. ProtocolHandler conjoins its effect.

**Refinement.** `DedupTask.tla` states what the scheduler promises its owner. A task is
idle or pending. Asking for a pending task changes nothing. A pending task eventually runs,
once, and a task never runs unless it is pending. `MCOperationScheduler` adds the history
variable `runParity`, which flips on every run so that each run is a visible step. It then
checks `Dedup!Spec` as the property `RefinesDedupTask`, under the mapping
`pending <- {op : has_been_scheduled}`.

`SetOperation` keeps the CHECK exactly as written: `find != end`, an inverted test. Because
of it, `SetupSpec` (where the owner registers each operation once) always aborts. The other
runs start from `InitConstructed`: the state the constructor would leave if the CHECK were
corrected.

### ProtocolHandler.tla (+ MCProtocolHandler.tla)

ProtocolHandler composes OperationScheduler through
`OS == INSTANCE OperationScheduler WITH Ops <- {BatchingTask}`. The two modules share the
scheduler variables.

| model | code |
|---|---|
| `quietLeft` | `next_message_send_time_ms_ - now`, floored at 0 (time is relative; `Tick` decrements it together with the scheduler timers) |
| `lastKnownServerTime`, `messageId`, `pendingRegistrations`, `ackedInvalidations`, `registrationSubtrees` | the members of the same names |
| `clientToken` | the listener's token (`GetClientToken`) |
| `network` | the sequence of messages handed to `SendMessage`: header fields and batched contents |
| `delivered` | invalidations handed to the application and not yet acked |
| `ackRequested`, `lastRequested`, `subtreesRequested` | history variables recording what the callers asked to send |
| `quietOwed` | history variable: the longest quiet period still owed to any ConfigChangeMessage handled so far (the maximum over all of them, counted down by `Tick`) |
| `events` | counts calls from the application and the server (bound `MaxEvents`) |

**Actions:**
- `HandleIncomingMessage(m)`: the gates on lines 75-133, then `Dispatch(m)` (lines 135-181).
  `Dispatch` covers the server time, the token-control upcall, the token re-check and the
  upcalls. A sync request makes the listener call `SendRegistrationSyncSubtree`. An info
  request makes it call `SendInfoMessage`, which sends at once.
- `SendInitializeMessage`, `SendRegistrations`, `SendInvalidationAck`.
- `BatchingTaskRuns`: the wrapper clears `has_been_scheduled` and runs `BatchingTask`, which
  calls `SendMessageToServer`.
- `Tick`.

`SendMessageToServer` covers the quiet and token checks (`SendBlocked`), the header and the
copy of the batches (`ClientMessage`), the clear of each batch (`DrainBatches`),
`message_id_ += 2`, and the validator's verdict (the constant `OutgoingVerdicts`). A
ConfigChangeMessage is handled by `HandleConfigChange`, and the server-time update by
`ServerTimeAfter`.

Receiving a message and handling it are merged into one step. `MessageReceiver` only posts
the handler with no delay, and arrival order is already arbitrary, so nothing is lost by
merging them.

**Data abstractions:**
- Tokens, invalidations, objects and subtrees are model values.
- An invalidation belongs to one session (`InvToken`). The server sends it only under that
  session's header token.
- Statistics, logging, `client_version_`, client time and the registration summary are left
  out: no property reads them.

**Refinement.** `BatchChannel.tla` states what the handler promises the callers of its
`Send*` operations (spec 3, 4.5 and invariant 4). It has three batches (acks, registrations
with the latest op per object, subtrees) and a wire of assembled messages. `Emit` appends
everything batched, plus any subtrees produced in the same step, and empties the batches.
When a message may be sent is not part of the promise. `MCProtocolHandler` maps the batches
to the three pending members and the wire to the batched contents of `network`, and checks
`Channel!Spec` as `RefinesBatchChannel`. The refinement says that no batched item is lost,
that each message carries exactly what was batched and nothing else, and that nothing is
sent twice. A `SendMessageToServer` that forgot to clear `acked_invalidations_` breaks it.
`NothingLost` states the first part alone; it is the property of `ph_outgoing_rejected`,
where the refinement cannot hold. Under `OutgoingVerdicts = {TRUE, FALSE}` the
refinement fails as well, for the reason of finding 3, so it is checked only in `ph_core`.
RegistrationManager.tla uses `BatchChannel` as the handler's stand-in on its outbound path.
The refinement checked here is what makes that substitution sound.

### SafeStorage.tla (+ MCSafeStorage.tla)

**Variables:**
- `issued`: the calls forwarded to the delegate.
- `queue`: the `CallbackWrapper`s posted to the internal scheduler, in FIFO order.
- `deletes` and `useAfterFree`: what has happened to each caller's completion.
- `produced` and `observed` (history): what the delegate passed back, and what the
  completion ran with.

**Actions:**
- `WriteKey`, `ReadKey`, `DeleteKey`, `ReadAllKeys`: forward to the delegate (lines 63-99).
- `WriteCallback` … `ReadAllCallback`: the delegate invokes the permanent callback from any
  thread, which posts `new CallbackWrapper(done, result)` (lines 21-32; the posting is on lines 70-71, 81-83, 92-93 and 103-105).
- `RunWrapper`: the internal scheduler runs the oldest wrapper, then deletes it, and the
  destructor deletes the completion (lines 34-53).

**Delegate contract.** The delegate is not in this repository, so its contract comes from
the spec (`Completions`). A write, read or delete completes once. A `ReadAllKeys` callback
is invoked once per key (`ReadAllResults`).

### RegistrationManager.tla

RegistrationManager is composed with the ProtocolHandler's outbound batching. It does not
instantiate the whole handler. It uses `Ch == INSTANCE BatchChannel`, the abstract spec that
`ph_core` shows the handler implements. This is the same `INSTANCE` idiom NetworkManager
uses for Throttle. Registration requests and sync subtrees therefore reach the server the way
the code sends them: batched, with the latest op per object winning, and drained together
into the next message. That message's header carries the summary of the desired set at
assembly time.

**Variables:**
- `desired` is `desired_registrations_`. The digest is taken to be collision-free, so
  `GetClientSummary` returns the size and the set itself.
- `pendingRegs` and `pendingSubtrees` are the handler's `pending_registrations_` and
  `registration_subtrees_`. Each batched op carries the number of the request it came from.
  That number is a history tag used by `LatestConfirmedReportedSuccess`; the code does not
  send it.
- The environment is modelled from the spec, because the Ticl and the server are not in this
  repository:
  - `serverRegs`: the server's registrations;
  - `toServer`: client messages in flight, in send order, at most `MaxInFlight` of them.
    Any one of them may be handled next, so they can be reordered.
  - `statusMsgs`, `syncRequested`: server messages in flight, as a set;
  - the history variables `latestReq`, `toldFailure` and `reports`.

**Actions:**
- `AppRequest`: the Ticl calls `PerformOperations`, then `SendRegistrations` (`Ch!Register`).
- `ClientSends`: the batching task, or a heartbeat, assembles a message. It drains the batches
  (`Ch!Drain`), and `InitClientHeader` adds `GetClientSummary` (protocol-handler.cc line 377).
- `HandleRegistrationStatus`: the RECURSIVE fold `Reconcile` of the per-status step
  `ReconcileOne` (lines 65-106, with the XOR on line 83), after which the Ticl reports each
  result to the application.
- `HandleSyncRequest`: the Ticl batches `GetRegistrations(kEmptyPrefix)` as a subtree
  (`Ch!AddSubtrees`).
- `ServerHandleMessage(i)`: the server handles one client message. It applies or fails each
  registration and answers with one status per registration. It adopts a subtree, before or
  after the registrations, since the spec leaves the order open. It asks for a sync when the
  header's summary differs from its own.
- `Lose`: up to `MaxLosses` messages are lost.

**Fairness.** The server, the network and the internal scheduler are fair: delivery and
handling. Fairness on the oldest client message in flight (`WF(ServerHandleMessage(1))`) means
every message is eventually handled or lost. With a set of messages and fairness on "some
message", TLC finds a lasso in which a resent identical message is absorbed and the repairing
subtree is never handled. The code's messages differ by message id, so they never merge.
`ClientSends` is not fair in `Spec`. No code in this repository makes the client send for
ever: the batching task runs only after a `Send*` call, and heartbeats are the v2 Ticl's,
which is not here (the v1 `NetworkManager` of `KeepsPolling` is not used by this handler).
`RegistrationsConverge` therefore takes `ClientKeepsSending == WF_vars(ClientSends)` as its
hypothesis. Without it the property fails: a REGISTER and an UNREGISTER handled by the
server in reverse order leave `desired = {}` and `serverRegs = {o1}` until another message
carries a summary. The application is not fair.

### NetworkManager.tla and Throttle.tla

The repository holds only the declaration of `NetworkManager`. `HeartbeatNeeded` is
translated from its inline body. Every other operation is translated from its documented
contract in the header, which spec 4.4 repeats. The header declares no "listener informed
since the last pull" member. The model uses `has_outbound_data_` as that state: its friend,
the Ticl, clears it when the application pulls a message, so the flag was already set exactly
when the listener has been told since the last pull. `Throttle.tla` is a component module,
composed like a buffer module: its actions change only its own variables, and
`InformOutboundListener` conjoins them with `DoInformOutboundListener`.

**Variables:**
- `hasOutboundData` is `has_outbound_data_`, and `outboundListener` is
  `outbound_listener_` (`NoListener` is null).
- `sinceSend` and `sincePoll` are `now - last_send_` and `now - last_poll_`, saturating at
  the largest interval. They compare with any interval exactly as the absolute times do.
- `pollDelay` and `heartbeatDelay` are the two intervals.
- `informTasks` counts the listener tasks posted to the internal scheduler and not yet run.
- `told` is a history variable: the listener has run while data was waiting.
- The Ticl's `haveSession` and its heartbeat timer `hbWait` are modelled from the spec.
- The throttle's `sinceFire`, `deferred` and `wait` are in `Throttle.tla`.

**Actions:**
- `DataReady`: the Ticl calls `OutboundDataReady`. This informs the listener through the
  throttle only if `has_outbound_data_` was clear.
- `RegisterOutboundListener`: informs at once if data is waiting.
- `InformOutboundListener` takes one of the throttle's outcomes:
  - `FireNow` posts a task at once;
  - `Defer` holds the request back to the window's end;
  - `Collapse` merges it into a pending deferred firing.
- `ThrottleFires` and `InformTaskRuns`: the deferred firing, and the posted task calling the
  listener.
- `TakeOutboundMessage`: the application pulls. The Ticl clears `has_outbound_data_`, and
  `HandleOutboundMessage` stamps a poll when `PollDue` (session, and at least `poll_delay_`
  since the last poll) and records the send.
- `HandleInboundMessage`: the server sets either interval.
- `HeartbeatTimer`: every `TimerDelay`, the Ticl announces a message if `HeartbeatNeeded`.
- `SessionChange`: the Ticl gains or loses its session.
- `Tick`: one unit of time passes once nothing is due on the internal scheduler.

## 3. Runs

| run | cfg | expect | what it shows |
|---|---|---|---|
| os_core | MCOperationScheduler.cfg | pass | Two operations, delays {1,2}. Checks `AtMostOneOutstanding` (the flag is TRUE iff one wrapper is posted), `RunsSpacedByDelay` (no two runs closer than the delay the second was scheduled with, across `ChangeDelayForTest`) and `RefinesDedupTask` (the scheduler implements `DedupTask`, liveness included). |
| os_setup | MCOperationSchedulerSetup.cfg | violation | `NoCheckFailure`: the first `SetOperation` aborts. |
| ph_core | MCProtocolHandler.cfg | pass | Two tokens, two invalidations, one object, one subtree, server times {1,2}, quiet delay 2, batching delay 1, 3 events. Checks `RefinesBatchChannel`: the handler implements `BatchChannel`, so no batched item is lost or sent twice and the latest op wins, across drops in quiet periods and without a token, info replies and batching runs. |
| ph_batch_liveness | MCProtocolHandlerLiveness.cfg | violation | `BatchedEventuallySent` (acks and registrations). The sequence: the server gives a token, the server starts a quiet period of 2, the application acks, the batching task fires while the period is still running and drops the message, and the period ends. The ack is then never sent. With `MaxEvents = 2` there is no room for a quiet period, and TLC reports the other early return instead: a registration made before any token is dropped with TOKEN_MISSING and never sent after the token arrives. |
| ph_quiet_shortened | MCProtocolHandlerQuiet.cfg | violation | `QuietPeriodHonoured` with quiet delays {1,2}. The sequence: a config change with delay 2, then one with delay 1, one tick, and an initialize message goes out one unit inside the first quiet period. |
| ph_outgoing_rejected | MCProtocolHandlerRejected.cfg | violation | `NothingLost` when the outgoing validator may reject: the drained batches are gone. |
| ss_core | MCSafeStorage.cfg | pass | One call of each kind, two results, each call completed once by the delegate. Checks `TypeOK` and fires every action; the ownership question is asked by `ss_read_all_twice`. Exactly-once delivery with the delegate's result is not stated as a property: each callback posts one wrapper holding its argument (lines 70-71 and the like), and a property would only restate that. |
| ss_read_all_twice | MCSafeStorageReadAll.cfg | violation | `CompletionOwnedOnce` when the delegate reports two keys to one `ReadAllKeys` call: two wrappers share `key_callback`. |
| rm_core | MCRegistrationManager.cfg | pass | Two objects (so status messages hold several statuses), two requests, two client messages in flight, one lost message; 484k states, about 105 s. Requests go through the batching channel. Checks `RegistrationsConverge`: if the client keeps sending, `<>[](desired = serverRegs)`. |
| nm_core | MCNetworkManager.cfg | pass | Two listeners, intervals {1,2,3}, throttle window 2, heartbeat timer period 2; 20.6k states. Checks `ListenerEventuallyInformed`: data announced before registration, or while the throttle defers, still reaches the listener. Also checks `KeepsPolling`: if the application pulls when told, a client that keeps its session sends polling messages infinitely often, however the server orders the intervals. |
| rm_stale_status | MCRegistrationManagerStale.cfg | violation | `LatestConfirmedReportedSuccess`. The sequence: REGISTER, a send, REGISTER again, a send; the server fails the first and confirms the second, and the statuses arrive in order. The application is told that the confirmed registration failed. |

**Why the bounds are enough.**
- Three events are enough for each property's interesting case:
  - a token, an ack and a quiet period;
  - a token plus two out-of-order server times with info requests;
  - a foreign token.
- One object is enough for latest-wins: register and unregister it.
- Two tokens are needed for a mismatch.
- The quiet delay (2) is longer than the batching delay (1), so the batching task can fire
  inside a quiet period.
- SafeStorage: one call of each kind covers every entry point. Two results are enough to
  tell a wrong argument from the right one.
- RegistrationManager: two objects give multi-status messages, and two requests give
  both a register followed by an unregister of one object (in one batch or in two
  messages) and one request per object. Two messages in flight let them be reordered.
  One loss is enough to need the sync. The stale-status violation needs only one object
  and two requests. Three requests with two objects do not finish in the time allowed.
- NetworkManager: intervals {1,2,3} let the server make the heartbeat interval shorter than,
  equal to or longer than the poll interval, and a timer period of 2 makes heartbeats late
  for the shortest interval. A window of 2 lets a request be deferred and a second one be
  collapsed into it. A second listener can replace the first while an inform is in flight. Time is bounded by saturation, not by a cap.
- Every mutant listed in PROJECT.json is caught under these bounds.

**Fairness.**
- Only the internal scheduler is fair: time passes (`WF(Tick)`) and a due batching task runs
  (`WF(BatchingTaskRuns)`, or `WF(RunAndClearScheduled)`). It is a live executor thread.
- The application, the server and the listener are not fair. They owe the client no further
  calls.
- SafeStorage: only `RunWrapper` (the internal scheduler) is fair. The delegate may never
  complete.
- RegistrationManager: see its section above. Loss is bounded, and so is the application.
- NetworkManager: the internal scheduler is fair. That covers the clock, the posted inform
  tasks, the throttle's deferred firing and the Ticl's heartbeat timer. The application is
  not fair. `KeepsPolling` therefore assumes, as its hypothesis, that the application pulls
  once it has been told (`AppDrainsWhenTold`). Time passes only when nothing is due on the
  scheduler (`Tick`'s guard). The scheduler runs due closures before later ones (spec 5).

## 4. Findings

1. `operation-scheduler.cc:26`: `CHECK(operations_.find(operation) != operations_.end())`
   aborts on the first registration, so the ProtocolHandler constructor aborts (run
   `os_setup`). The other models assume `==`. Under either CHECK, re-registration never
   reaches the assignment on line 33: as written, no operation is ever registered, and with
   `==` it aborts. So the reset of `has_been_scheduled` there cannot strand a wrapper.
2. `protocol-handler.cc:281` and `:292`: a batch dropped because of a quiet period (or a
   missing token) is never retried by the batching task. For the quiet period this
   contradicts spec scenario S2. For the missing token the spec is silent on what sends the
   batch once a token arrives. Both are run `ph_batch_liveness`.
3. `protocol-handler.cc:316`, `:332`, `:345` and `:352`: the batches are cleared before
   validation, so they are lost when validation fails (run `ph_outgoing_rejected`).
4. `safe-storage.cc:101` (and the destructor at `:34`): each call of the permanent
   `ReadAllCallback` wraps the same `key_callback` in a new `CallbackWrapper`, which deletes
   it. A delegate that reports two keys makes the completion run after being freed, and be
   deleted twice (run `ss_read_all_twice`). This contradicts spec 4.3 ("destroys the
   completion exactly once").
5. `protocol-handler.cc:124`: each ConfigChangeMessage replaces `next_message_send_time_ms_`
   with its own deadline. A message with a shorter delay, handled after one with a longer
   delay, ends the first quiet period early. Server messages arrive in any order, so the
   shorter one may be the older. Spec 8.3 requires every ConfigChangeMessage's delay to be
   honoured (run `ph_quiet_shortened`). Invariant 4 of spec 3 ("the earliest time at which
   an outbound message is permitted") fits the code, so the spec should say which it means.
6. `registration-manager.cc:100` and `:83`: a failed status for an older request removes an
   object that a newer request re-asserted. The server's later confirmation is then a
   "discrepancy" and is reported as a failure (run `rm_stale_status`). Spec 4.2 does not
   cover stale statuses. The sync exchange still makes client and server agree
   (`RegistrationsConverge`), but on the application being told its registration failed.

## 5. Plan

Done:
1. **OperationScheduler**, with its refinement of `DedupTask`.
2. **ProtocolHandler** with the listener's upcalls. The registration-status upcall's effect
   is in RegistrationManager.
3. **RegistrationManager** with a spec-modelled server, sync and lossy network.
4. **SafeStorage**.
5. **NetworkManager** composed with the **Throttle**, and the Ticl's heartbeat and drain.

6. **The abstract batching channel** (`BatchChannel`), refined by ProtocolHandler in
   `ph_core`.

7. **RegistrationManager composed with the batching channel**: requests and sync subtrees
   go through the batches `ProtocolHandler` implements. The summary travels in the header of
   the same message.

No further items remain. Section 6 lists what is left out, and why.

## 6. Not modelled

- `NetworkManager`'s `endpoint_`, and the `is_object_control` argument of
  `HandleOutboundMessage`. Neither the header nor the spec gives them an effect on the state.
- Wire serialization, the validator's rules, statistics and logging. These are data only.
- `client_version_` and the `InfoMessage` contents. These are data only.
- `NetworkStatusReceiver`, which is empty.
- The logging stub.
- `RegistrationManager::ToString`, and `last_known_server_summary_`, which only the
  constructor sets.
- `SafeStorage::SetSystemResources` (setup only), and `CallbackWrapper::IsRepeatable`, which
  only the scheduler outside the repository reads.
- The listener's internals beyond the upcalls listed above.

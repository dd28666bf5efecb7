# Kokoro App: TLA+ models, checks and proofs

This directory holds TLA+ models of the parts of Kokoro App in which several actors work on one
piece of state, TLC configurations that check them on small instances, and TLAPS proofs that
their safety properties hold for every value of the constants.

The application is a Next.js Web process between a browser and the services behind the BFF. It
owns little state of its own, and that state is exactly where the difficulty is: the **Product
Session** (a Redis record that holds a single-use refresh credential while many requests race for
it), and the **chat engine** of a browser tab (a submission that must be neither lost nor sent
twice, a run that is followed over a stream, snapshots that race both, decisions that must reach
the pause they were made for). Around the session are two smaller protocols with the same troubles:
the **sign-in transaction** that creates it, and the **probe** by which a document learns whose
session its cookie jar holds.

## 1. Inventory

Paths are relative to the repository root. The order is that of `PROJECT.json`.

| Component | State it keeps | Operations | Modelled |
|---|---|---|---|
| Product Session store, `src/lib/server/product-session-store.ts` | the Redis record and tombstone of a session, `sessionInspectionFlights` | inspect, create, reserve, finalize, invalidate, tombstone | `SessionStore`, `SessionLifecycle` |
| Product Session endpoints, `src/app/api/auth/[...nextauth]/route.ts`, `product-session.ts`, `oidc-token.ts` | the cookie jar; what each handler waits for; the issuer's credential family | session read, refresh, sign-out, last step of the login | `ProductSession` (part) |
| OIDC transaction, `oidc-rp-transaction.ts`, `oidc-transaction-cookies.ts`, `app/login/route.ts`, `route.ts` | state records in Redis, handoff and proof cookies, the signed intent | login, signin, callback, consume | `OidcTransaction`, `TransactionLifecycle` (part) |
| IAM relay, interaction pages | a one-time CSRF cookie | stateless filtering | no |
| BFF adapters | none | validate, forward, one deadline | no |
| Browser session probe, `ui/auth/use-session-state.ts` | the shared probe, the admitted account, the renewal window; per hook a boundary and a 401 recovery | check, refresh, confirm, retry, page life cycle, storage events | `SessionProbe` (part) |
| Chat engine, `src/engine/machine.ts` and helpers, `browser-submission-recovery.ts` | some forty variables of one closure, the submission slots of sessionStorage | submit, steer, retry, stop, new, select, reconnect, hydrate, stream callbacks, dispose | `MachineState`, `SubmissionSlot`, `ChatSubmission`, `IntentLifecycle` (part) |
| Chat transport, `execution-adapter.ts`, `agui-chat-transport.ts` | one stream, one snapshot read, a cursor | open, close, retry, abort, flush, expire | `EventStream` (part), and as the engine sees it in `ChatSubmission` |
| Parts, notifications, answer actions | read generations, retry counts | fetch, observe | planned |
| Human in the loop, `hitl-staging.ts`, `machine.ts` | staged decisions, frozen resume intents, locks, attempts | stage, freeze, send, retry, settle | `Approvals` (part) |
| State reducer and projections | the thread shown | pure fold | run events only |
| Conversation list and moves | one command per conversation | move, list | planned |
| Query and persistence helpers | resource generations, storage mirrors | read, mutate, cross-tab events | planned |
| Projects, MCP, skills, scheduled tasks | command flows with an unknown outcome | CRUD, import, install | candidates |
| Settings, billing, team, views, generated code, site and scripts | none beyond a request | | no |

**How they interact.** The browser's requests carry the session cookie to the endpoints; the
handlers call Redis scripts and post to the issuer, each under a deadline after which the handler
goes on while the call itself may still take effect. The chat engine is single-threaded: its
commands, promise callbacks and stream batches interleave, and each finds the variables as the
one before it left them. What it has in flight - create-message calls, one snapshot read, one
event stream - races with everything else. Slots in sessionStorage outlive the engine, and the
callbacks of an engine that was disposed of outlive it too.

**What is hard, and what makes each part correct.**

* *Product Session.* A credential may be exchanged once. Two tabs refresh at once; a Redis command
  given up after 2 s runs later; the process restarts between reserve, exchange and finalize; the
  answer with the new cookie is lost, or applied after a sign-out. Correct means: no spent
  credential is presented, an active record holds the issuer's current credential, a sign-out
  revokes the current one, a signed-out session does not come back into the jar, a loser does not
  end the winner's session, every request is answered.
* *Sign-in.* Tabs run several logins in one jar; forms are posted twice, callbacks are reloaded;
  Redis answers late. Correct means: a state is exchanged at most once and makes at most one session, and
  no login breaks another one.
* *Probe.* Several hooks share one check, whose rotating POST may end without an answer, while other
  tabs sign in and out, and the page is put into the back-forward cache. Correct means: no second
  rotation in the dark, no read boundary for an account the session no longer has, no 401 loop.
* *Chat.* A call whose answer is lost, a receipt that comes after the events of its run, after a
  snapshot that already shows its end, after the user gave the message up, to an engine that is
  disposed of, or while a recovery is reading. Correct means: a message is kept until its receipt
  came or it was given up, it is not posted again once its receipt is known, a message given up does
  not run on, an ended run is not shown as going on, a shown run is followed, and no flag of
  "loading", "recovering" or "reconnecting" is left on without the work that resets it.
* *Stream.* Connections break, repeat, expire or carry a bad frame while events wait in a buffer and
  snapshots replace the thread. Correct means: the thread is the ledger up to its cursor.
* *Approvals.* Cards of successive pauses may have the same items; a resume command may be lost, tried
  again, refused, or answered after the next pause. Correct means: a decision goes to its own pause,
  under one command, and nothing of an old pause shows on the next.

The list of hazards, each at its line and with the properties that would catch it, is in
`PROJECT.json`.

## 2. Plan

Order of the modules, most important first; what composes what; what is abstract.

1. `SessionStore` -> `ProductSession` (store, handlers, jar, issuer, network), with the abstract
   `SessionLifecycle`. *Done, with proofs.*
2. `MachineState`, `SubmissionSlot`, `OwnerLedger` -> `ChatSubmission` (one tab against the service),
   with the abstract `IntentLifecycle` of the slots. *Done, with proofs.*
3. `EventStream`: transport, adapter batches, cursor, retries and the 410 path, with settle reads and
   receipts. *Done, with proofs.*
4. `Approvals`: paused runs, staged decisions, resume intents and their receipts. *Done, with proofs.*
5. `OidcTransaction`, with the abstract `TransactionLifecycle`; `SessionProbe`. *Done, with proofs.*
6. `PartsReads`, `ConversationMove`, `ResourceStore`, `TaskNotifications`; then one module for the
   command flow with an unknown outcome that MCP, skills and tasks share.

The modules are written to be proved about: parameters with named assumptions, one action per step, no
RECURSIVE operator; what is folded over a sequence is a recursive function (`Heard` of `EventStream`,
`Reduce` of `MachineState`).

## 3. The Product Session models

`SessionStore` has one operator per Lua script of the store: its guard, its reply and its update
of the record and the tombstone. A script call is a record with the owner request, the claims and
the caller's `Date.now()` at the call (`at`), because the scripts compare deadlines with the clock
of the caller and not with that of Redis. Encryption and shape checks are left out: only the
scripts write the record.

`ProductSession` adds the browser, the handlers and the world. `pc[r]` is what the handler of
request `r` awaits; each continuation after an `await` is one action (`AfterInspect`,
`AfterReserve`, `AfterExchange`, `AfterFinalize`, ...). A Redis call or a post to the issuer is a
message; nothing obliges anybody to take it, so a lost command is one that is never executed, and
a late one is executed after its caller gave up (`CallFails`). `Restart` drops every handler of the process
and keeps what is in flight. `flights` is the coalescing of inspections. The issuer (external) is
a counter per credential family and two flags, whether a spent credential was ever presented and
whether the family was revoked. `signedOut` is history for a property.

`SessionLifecycle` is the abstract promise of the store: a session is created at most once, its
generation moves by one and only out of a reservation, a reservation starts only from "active",
and an ended session never comes back. `LifetimeSpec` maps record and tombstone to it.

### Runs

| Run | Instance | States, time with 2 workers | Question |
|---|---|---|---|
| `product_session` | 1 session, 4 requests, clock 0..2, reservation 1, age 2 | 0.82 M, 2 min | the safety of the refresh credential and of the jar |
| `product_session_live` | 2 sessions, 3 requests, clock 0..1 | 0.22 M, 1.5 min | liveness, refinement, and a second session in the jar |

Four requests are a login, two refreshes that compete and a third actor (a sign-out, a refresh with
the old cookie, a read): each hazard of the list needs at most that. Two ticks let a reservation
lapse and the session expire afterwards; with an age of 2 a record expires while a finalize is still in
flight. Two sessions need a login, a second login and a request that is late. Requests (and
sessions) are interchangeable: symmetry is used where no liveness is checked. A behaviour stops when its
requests are used up and the clock is at its bound, so deadlock is not checked.

**Fairness.** `FairSpec` assumes weak fairness of the handlers only: a continuation whose reply
came runs, and a wait ends - `withRedis` has a 2 s deadline, the issuer posts 5 s, so the failure
branch of every wait is a timer of the process itself. Nothing is assumed of Redis, the issuer, the
delivery of an answer or the user. Under it `RequestAnswered` says that a request that reached its
handler is answered or its process restarted.

### The sign-in transaction

`OidcTransaction` is one browser, the `/login` and `signin` handlers, the callback and the records in
Redis. `page[l]` and `handoff[l]` follow a GET of `/login` (the form and its csrf-token cookie), `start[s]`,
`proof[s]` and `record[s]` follow one POST of a form (the namespace, its three proof cookies and the
state's key), `call[c]` follows one GET of the callback from `consumeOidcState` to the answer. Each
command to Redis is a message that may be executed after its caller gave up (`sets`, `takes`,
`creates`), as `withRedis` leaves it. Digests, MACs and namespaces are identities: they are random and do not collide.
`carried` says whether the request of a callback has the proofs, which it has not in another browser or after 300 s.
The intent, the cookies and the record live 300 s each, counted from different moments, so each may expire at any time.

`TransactionLifecycle` is the promise: a state is opened once and ends by being taken or by
lapsing; only a taken one is exchanged, at most once, and only an exchanged one becomes a session.

| Run | Instance | States, time with 2 workers | Question |
|---|---|---|---|
| `oidc_transaction` | 2 logins, 2 starts, 2 callbacks, budget 1 | 0.46 M, 25 s | `PendingKeepsProofs`, `SerialStartsWithinBudget`, `TransactionSpec`, types |

Two callbacks are a callback and its replay, or the callbacks of two logins; two starts are two posts
of one form or two logins. With a budget of 1 the second login of a jar meets the limit. The budget is
promised to hold per request only (`oidc-transaction-cookies.ts`:39), so the property speaks of starts that do not overlap.

### The probe of the browser

`SessionProbe` is `requestSessionMode` and `useSessionProbe` in one document. `probe` is
`sessionProbeInflight` with its observation; `hook[h]` is what a mounted hook keeps (its
`pendingCheck`, whether its callback is still fenced in by `generationRef`, its read boundary, its read
episode, a 401 recovery being waited for). `server` and `marker` are the session in the cookie jar and
the account marker in localStorage, changed by other tabs at any time; `events` are the storage events
not delivered yet. One action is one task with its microtasks and the commit that follows. What joins, retires
or fences a probe is kept in full; delays (recovery timers, the 120 s interval, 10 s) are steps that may
happen at any time. `blind`, `seen` and `bought` are history.

| Run | Instance | States, time with 2 workers | Question |
|---|---|---|---|
| `session_probe` | 2 accounts, 2 hooks, 1 change of the session, 2 of the marker, storage may throw | 1.5 M, 2 min | `NoBlindRefresh`, `BoundaryIsCurrent`, `SingleRecheck`, `RecheckIsAwaited`, `AdmitsOnlySeen`, types |

Two changes of the marker are A, B, A, the case the code's own comment names; two hooks are what it takes to join
a check and to be fenced out of it. No fairness is assumed and no liveness stated; `RecheckIsAwaited` says instead that
whoever waits has a probe in flight, which the 10 s timer settles. *What the model does not say:* a hook whose document
was found signed out by another hook keeps its boundary until its own next check (`BoundaryIsCurrent`
leaves it out), and reads under it are still authorised by the server.

## 4. The chat models

`MachineState` is `machine-state.ts` and the fold of `event-reducer.ts`: the run state machine
and what a batch of events does to it. An idempotency key also names the message, its echo and
the run it admits, so a receipt is "the receipt of k". `SubmissionSlot` is one record of
`browser-submission-recovery.ts`: its states (none, pending, acknowledged, abandoned), what each
operation does and when it throws. `OwnerLedger` (external) is a conversation at the service: a
sequence of run events, from which snapshots (`execution_head`, ended runs) are read at a watermark.

`ChatSubmission` is the tab. The record `tab` has a field for each engine variable that the
submission, run and recovery logic reads (`PROJECT.json` maps it; the comments name the variable);
operators on such a record are the functions that handlers share (`Hydrate`, `Activate`, `Adopt`,
`Received`, ...), and each user command, promise callback, stream callback or service step is
one action. `calls` are the create-message calls with who still waits for their answer: this
engine, one that was disposed of in the same page, or nobody after a reload or a lost answer; `doomed`
is membership in `cancelledSubmissions`. `tab.read` is the one snapshot read in flight; a newer read
aborts it, and aborting a hydration makes it *fail* (`AbortRead`), as in the code. A read is
executed by the service at one moment and answered at a later one. `past` is history for properties.

`IntentLifecycle` is the abstract promise of the slots: an intent that was closed, by a receipt or
by being given up, is never open again, and a conversation holds at most one open intent, replaced
only after it was closed. `KeepsLifecycle` maps slots and history to it.

What can go wrong is the constant `Faults`; each run chooses some, so that each instance stays
small enough to be exhausted:

| Fault | Meaning |
|---|---|
| `lost` | a call or a read ends without an answer, whether or not the service acted |
| `refuse` | the service refuses a message |
| `drop` | the stream breaks and the transport reconnects |
| `fail` | a stream error that is not retried; `reattachTimeoutMs` passes without an event |
| `expire` | 410 `event_cursor_expired` |
| `disk` | any read or write of sessionStorage throws |
| `reload` | the page is reloaded |
| `remount` | the engine is disposed of and another built in the same page |
| `forbidden`, `vanish` | the conversation is another user's; it is deleted elsewhere |

### Runs

All have at most two calls; conversations and keys are interchangeable. The commands may stop coming
at any time, so deadlock is not checked.

| Run | Instance | States, time with 2 workers | Properties |
|---|---|---|---|
| `chat_delivery` | 2 conversations, 2 keys; `lost`, `refuse` | 0.98 M, 2 min | `IntentKept`, `GivenUpIsCancelled`, `DeferredIsAwaited`, `RunNotEnded`, `KnownReceiptNotReposted` |
| `chat_recovery` | 1 conversation, 2 keys; `drop`, `fail`, `expire`, `lost` | 0.39 M, 40 s | `RunIsFollowed`, `LoadingIsRead` |
| `chat_eviction` | 2 conversations, 1 key; `vanish`, `forbidden`, `expire`, `disk`, `reload`, `remount` | 0.51 M, 75 s | `IntentKept`, `NoHiddenPending`, `GivenUpStaysClosed`, `RecoveringIsRead`, `KeepsLifecycle` |
| `receipt_stranded` | see section 5 | violation | `DeferredIsAwaited` |
| `ended_run_shown` | 2 conversations, 2 keys; `disk` | violation, 1 min | `RunNotEnded` (section 5) |

Two calls are a message and its retry, or a message and its successor, in one conversation or two:
every hazard listed for submissions is a race of at most two calls with one read and one stream. Two conversations
are what leaving one and coming back needs. `chat_recovery` has one conversation because recovery
concerns the conversation shown; as no second one can be drawn, *new conversation* does not occur in it
(it does in the others; section 5 says what it does to a recovery).
`chat_eviction` needs a conversation to evict to, and has one key so that it can combine storage failures,
reloads, remounts and evictions. Cancel commands are not messages of the model: a run may end at any time, with or
without one, so what they do at the service is already among the behaviours.

Some properties hold only without some faults; the runs say so by their instances, and the theorems of
section 6 by a hypothesis, which is the same or weaker. `RunNotEnded` and `DeferredIsAwaited` fail once the
stream can drop, and `RunNotEnded` with a failing storage (section 5); `GivenUpIsCancelled` fails across
a remount, where the engine that holds the cancellation mark is not the one whose callback gets the receipt
(`cancelledSubmissions` and `createInFlight`, machine.ts:157-158, belong to one engine), and with a failing
storage, where a message already received is given up from its stale record; `KnownReceiptNotReposted` fails when the
storage lost the receipt and the page is then reloaded, which no code can help.

The two flags that keep a tab from sending are about reads that abort each other, so their properties are checked where
recoveries occur. `LoadingIsRead` is an action property: "loading" begins with the hydration that ends it, and what takes
the place of a read that would end it ends it too or is such a read; only a recovery may leave it behind, in a tab that says
it lost the connection (section 5 says what that can lead to). `RecoveringIsRead` is an invariant: a tab is recovering only
while the recovery reads. It exempts, and says so, the conversation that *New conversation* begins during a recovery, which
is a defect of the code, and a vanished conversation whose intent a failing storage could not retire (both in section 5).
`chat_eviction` checks it with other selections, expired cursors, evictions, reloads and new engines. The types of
the tab have no run of their own: `TypeCorrect` proves them.

### What the chat model leaves out

Paused runs and `resume` (in `Approvals`), the order and loss of single events (in `EventStream`), deletion,
regeneration, other tabs (`onExternalStore`), the details of `openConversation` for unknown ids, parts reads,
notifications, file contents and the preview mode without a submission record. A batch of events and the
cursor advance of each event are one step (`StreamEvents` takes any length). The cap on consecutive 410s falls
into `StreamFails`. A message sent while a run is shown ("steer") has no record in sessionStorage by design of the code, so
`IntentKept` does not speak of it: a reload or a switch forgets it.

### The stream

`EventStream` looks at one conversation from below. The ledger is a sequence of events, an event is its
position; runs follow each other, one ends at each position of `Terminal`. `stream` is the active handle
of the transport: fetching, open, waiting for its retry, with the Last-Event-ID it sends next (`start`), the next
frame of the response and the cursors already seen. A chunk of the response is parsed in one task and its
events reach `handleStreamEvents` in the microtask after it, so a chunk is one action (`Chunk`), and a chunk
with a frame that does not parse another (`BadChunk`). After a reconnection the service may repeat what the
handle already got. A closed handle may still owe the answer of its fetch (`late`). `thread`, `cursor`,
`phase`, `run`, `connection`, `timer`, `recovering` and `resets` are the engine's variables; `read` is the one
snapshot read (a recovery or the read of a run's end), served at a watermark up to `Lag` behind the ledger; `post` is a
message in flight, sent at rest or during a run. A run that is queued, streaming or waiting is "live".

Simplifications: a machine in error counts as at rest, although the code ignores `run.created` in it
(`machine-state.ts`:31), which only lets the model show more runs; `SettleStale` compares the snapshot's head with the runs
whose end is in the thread, which is what the code's sets of ended runs hold (`machine.ts`:679-680). Reading ends at the first
frame that does not parse, so `BadChunk` stops there, with any number of bad frames in the ledger.

| Run | Instance | States, time with 2 workers | Properties |
|---|---|---|---|
| `event_stream` | 5 events, runs end at 2 and 5, lag 1, 1 bad frame, 2 faults, 2 runs | 1.0 M, 3 min | `TypeOK`, `NothingLost`, `LiveIsFollowed`, `RecoveryIsAlone`, `EventuallyCurrent` |
| `reconnecting_stranded` | 4 events, 1 fault | violation | `ReconnectingHasStream` (section 5) |

Five events are a run, the message that admits the next and a run of two events after it, so that a
batch can hold the end of one run and the start of the other, and a bad frame can stand first, last or in
between. Two faults are a connection that breaks while the recovery of another is read. Two expired cursors in a row and
a third are reached because retention is not bounded by `MaxFaults`.

**Fairness.** `Spec` assumes weak fairness of the transport's loop (a retry timer fires, a response is read),
of the snapshot read and its adoption. It assumes nothing of the faults, the user, the runs or retention. Under it
`EventuallyCurrent` says that a page that shows a run comes back to the end of the ledger, to a rest
or to "unavailable" again and again: in particular the cap of two recoveries is what ends the cycle of expired
cursors.

### The approvals

`Approvals` is the human in the loop of one run. `log` is what the owner says of the run's interaction (waiting,
resuming with the outcome of a command, active, ended); a revision is a position in it and the page shows
`log[cursor]`. All pauses ask about the same items, as they do after a failed validation, so that only the
code can tell a decision of one from a decision of the next; a staged decision is marked with its pause to let the property
see the difference. `staging`, `frozen`, `locked` and `attempt` are the engine's maps of these names for the run shown. A resume call is
answered with the receipt of its command (pending, failed, or an error code of a stale pause), or its answer is lost.
`ownerRead` is the read that follows a failed receipt, `hydrating` a hydration (fresh) or a recovery.

| Run | Instance | States, time with 2 workers | Properties |
|---|---|---|---|
| `approvals` | 2 items, 2 pauses, 2 commands, 3 calls, 2 readings, 2 faults | 0.39 M, 1 min | `TypeOK`, `SentForItsPause`, `OneCommandPerPause`, `ErrorIsCurrent`, `LockIsReleased` |

Two items make a set of decisions that can be complete or not; two pauses and two commands are an answer
and the next; three calls are an answer, its retry and the next pause's; a second reading of the conversation is a
recovery or a return. `MaxStates` bounds how long a command may stay of unknown outcome. One answer is
enough, because the body of a command is fixed when it is frozen: `OneCommandPerPause` is about command ids. The owner fails
a command only when its pause is over.

**Fairness.** `Spec` assumes weak fairness of the owner deciding a command, of the agent consuming it, and of the
page's answers, stream and hydrations; nothing of faults, reconnections or the user. Under it `LockIsReleased`
says that the lock on the cards ends as long as the page stays connected and the run is not being cancelled.

`OneCommandPerPause` is per reading of the conversation: a recovery drops the frozen intents (`machine.ts`:831), and
the same pause, if the owner still shows it open, can then be answered under a new command. The owner decides each
pause once, so the second is refused.

## 5. Findings

Three runs are counterexamples to what a comment or a document of the repository says. In
each, TLC's trace is a behaviour of the code as modelled.

* `receipt_stranded` - a receipt that comes while the stream reconnects is set aside and no
  reconnect takes it: the tab shows the message as being sent without end (`machine.ts`:1142).
* `ended_run_shown` - the retry of a message whose receipt is known resets the run machine but leaves the old
  stream open while its snapshot is read. An event of another run (of a message that was given up, and admitted
  late) then takes the machine out of rest, so that the snapshot's head is ignored; the cursor moves past the end
  of that run, and the stream is opened from there. The ended run is shown as going on
  (`machine.ts`:1055 and 907, against the comment at 1079 and `docs/API_CONTRACT.md`:1320). The trace needs
  one write of sessionStorage to fail, which is what keeps a known receipt out of its record.
* `reconnecting_stranded` - the read after a run's end, when its head is an older run, closes a stream that was being
  retried and leaves the connection "reconnecting": no stream, no retry, no submission, and no
  button to reconnect (`machine.ts`:681 against `docs/DATA_MODEL.md`:1021).

Observations made while modelling that no run states (the models take the steps as the code does):

* A request may join an inspection that Redis answered before a sign-out, and is admitted after the
  sign-out was confirmed (`product-session-store.ts`:112 against 72-74).
* A refused finalize leaves the record "refreshing" and does not revoke it (`route.ts`:118 against
  `docs/DATA_MODEL.md`:1589).
* *New conversation* during a recovery discards the recovery's read and resets `connection` and `hydrating`, but leaves
  `recoveringExpiredCursor` set (`machine.ts`:1594-1615): the empty conversation is shown as connected, and `submit` refuses
  it (362) until another conversation is selected or the page is reloaded. `docs/API_CONTRACT.md`:1335 says
  "空新会话默认 connected，首条正常 message create 契约不变" (an empty new conversation is connected by default and its first
  message create is as ever), and `docs/DATA_MODEL.md`:1023 forbids submission only while a recovery's snapshot is in
  flight. `RecoveringIsRead` exempts this conversation by name; without the exemption it is violated.
* A recovery that finds no conversation while its intent cannot be retired leaves the flag set likewise
  (`machine.ts`:789).
* "Loading" can outlast its read, connected: a recovery takes the place of a hydration without resetting `hydrating`, which
  only `hydrate` resets (`machine.ts`:943 and its success branches); the read after a cancel then aborts the recovery, which leaves the tab
  "unavailable" and loading, and that read, when it succeeds, sets `connection` to "connected" without looking at
  `hydrating`. It takes a receipt that the storage could not record, its retry over an old stream that then expires, and a
  stop during the recovery.
  `LoadingIsRead` holds on the way: each of its steps is one that it allows to a recovery.
* The late receipt of a message sent during a run can show its run as queued after the tab adopted a snapshot
  with its end (`machine.ts`:997).
* A hydration that finds no conversation applies a receipt that was set aside without a look at
  `observedTerminalRuns` (`machine.ts`:800-807), which the branch that finds it takes (`machine.ts`:899).
* A recovery that finds no conversation and cannot write that its intent is given up returns with the stream
  closed, the connection "reconnecting" and a run still shown (`machine.ts`:783): this is why `RunFollowed`
  (section 6) assumes that no conversation is deleted elsewhere.
* A bad frame drops the events of the frames before it in its chunk although their cursor was already taken over, so
  they are missing until the next snapshot (`agui-chat-transport.ts`:217, `execution-adapter.ts`:155);
  `NothingLost` says what remains true then.
* A quiet read of a run's end closes the stream although its own snapshot is ahead of the thread
  (`machine.ts`:672-678).

## 6. Proofs

Every safety property of the passing runs but one (`RunNotEnded`) is proved by TLAPS for every value of the
constants, and so are the three refinements. Each module `M_proofs` extends
the model `M`, states its inductive invariant `IInv`, has one lemma per action (or per group of actions
of one shape), and ends with `Invariance`, `Spec => []IInv`, and one theorem per property. TLC agreed
that each `IInv` is an invariant of the instance of its run before it was proved; no run repeats what is
proved.

| Module | Theorems: property | Assumption on the constants |
|---|---|---|
| `ProductSession_proofs` | `TypeCorrect`: `TypeOK`; `NoReplay`: `NoRefreshReplay`; `ActiveIsCurrent`: `ActiveCredentialCurrent`; `RevokedIsCurrent`: `RevokeTakesCurrent`; `Implements`: `LifetimeSpec`; `SignedOutForGood`: `SignedOutStaysOut`; `CookieBehindStore`: `CookieNeverAhead`; `WinnerKeeps`: `WinnerUndisturbed` | `StoreAssumption`: the reservation span is a positive number, "nobody" is not a request; `SessionAssumption`: the age is a positive number, the clock bound a number, "none" is not a session |
| `OidcTransaction_proofs` | `TypeCorrect`: `TypeOK`; `ProofsKept`: `PendingKeepsProofs`; `WithinLimit`: `SerialStartsWithinBudget`; `Implements`: `TransactionSpec` | `OidcAssumption`: the budget is a positive number, logins and starts are finitely many, "none" is neither |
| `SessionProbe_proofs` | `TypeCorrect`: `TypeOK`; `RefreshIsSingle`: `NoBlindRefresh`; `BoundaryFollowsMarker`: `BoundaryIsCurrent`; `RecheckIsSingle`: `SingleRecheck`; `WaitingIsAwaited`: `RecheckIsAwaited`; `AdmissionIsSeen`: `AdmitsOnlySeen` (an action property) | `ProbeAssumption`: hooks are finitely many and at least one, "none" and "unreadable" are not accounts, bounds are numbers |
| `EventStream_proofs` | `TypeCorrect`: `TypeOK`; `ThreadIsLedger`: `NothingLost`; `LiveRunIsFollowed`: `LiveIsFollowed`; `RecoveryHasNoCompany`: `RecoveryIsAlone` | `StreamAssumption`: the ledger gets at least one event, runs end at positions of it, there is at least one run, lag and bounds are numbers |
| `Approvals_proofs` | `TypeCorrect`: `TypeOK`; `SentOnlyForItsPause`: `SentForItsPause`; `OneAnswerPerPause`: `OneCommandPerPause`; `FailureIsCurrent`: `ErrorIsCurrent` | `ApprovalsAssumption`: there is an item and an answer, at least one pause and one reading, bounds are numbers |
| `ChatSubmission_proofs` | `Inductive`: `IInv`; `TypeCorrect`: `TypeOK`; `IntentIsKept`: `IntentKept`; `GivenUpClosed`: `GivenUpStaysClosed`; `Refines`: `KeepsLifecycle`; `NotReposted`: `KnownReceiptNotReposted` (hypothesis `MemoryKept`); `GivenUpCancelled`: `GivenUpIsCancelled` (`OneEngine`) | `KeysAssumption`, `ChatAssumption`: "none" is neither a key nor a conversation, the bound on calls is a number, faults are those of the table in section 4 |
| `ChatEngine_proofs` | `PendingIsVisible`: `NoHiddenPending`; `LoadingEnds`: `LoadingIsRead` (an action property); `RecoveringEnds`: `RecoveringIsRead` (hypothesis `StorageHolds`); `DeferredIsTaken`: `DeferredIsAwaited` (`StreamsHold`); `RunFollowed`: `RunIsFollowed` (`NoneVanish`) | the same |
| `RecursionLemmas` | lemmas only: induction over the naturals, recursive functions | none |

*Why the invariants are needed*, one argument per module:

* **The refresh credential.** That no spent credential is presented says nothing of where credentials
  are, so it is not preserved by itself. It holds because a credential is at one place at a time: the
  login's createSession, the record, the winner of a reservation, one post, the grant of its successor,
  one commit, and the record again; or one sign-out and one revocation. `IInv`
  (`ProductSessionInductive`, whose header lists the places) says of each place that the credential
  there is the issuer's current one and that the other places are empty; with it go the ownership of
  calls and posts, and that nothing of a session exists before its createSession was executed or after
  its tombstone.
* **The jar.** `BInv` (same module) is inductive relative to `IInv`. A generation is committed once, and
  the claims that the store committed are the newest ones of their session until the browser applied
  them (`CommitNewest`), so neither a late cookie nor a lost one is ahead of the store. A signed-out
  session stays out because a session that is gone has no cookie on its way to the browser, or all its
  cookies are at their end (`EndedSilent`); for that the cookies of a session and its record must end at
  one time (`SameEnd`), and the claims of a new session must be known to its login only
  (`LoginUnknown`).
* **The sign-in.** What a callback may do is a right held at one place at a time: by the open record, by
  the callback that was told 1, by the one that exchanges the code, by the createSession on its way, and
  then by nobody (`OneHolder`). The record is opened by the one SET of its start before the browser
  knows of it (`Issuing`), and proofs are cleared only by a callback that took the record (`Taken`). The
  refinement follows from the same invariant. The budget has an invariant of its own, `BudgetKept`: it
  counts the cookies the browser holds together with those already promised to it.
* **The probe.** A probe that may still dispatch a refresh began when none was unconfirmed
  (`Confirmed`); what an answer in flight says was true since the last change of identity, or its probe
  is retired (`AnswersSeen`). The many handlers have two shapes, "some hooks check" and "the probe
  settles", each proved once.
* **The stream.** The thread is the ledger up to its cursor (but for what a bad frame dropped, which `NothingLost` says) because the active handle asks for what
  follows the cursor of the thread, has seen nothing past it, and has seen every frame that the service
  may repeat (`HandleIsAtCursor`). So the new frames of a chunk are exactly those right after the cursor
  (`ChunkIsNext`), for a chunk of any length. A snapshot is not ahead of the ledger (`ReadIsBehind`); a
  run that ended in the ledger was admitted (`RunsAreAdmitted`), which is what types the runs that a
  batch or a snapshot names. `RecoveryOwnsRead` carries the two facts that `RecoveryIsAlone` needs and
  does not state: no read of a recovery outlives it, and no receipt of a message sent during a run is
  left to reopen the stream beside it.
* **The approvals.** The owner's log is ordered by pause and a pause waits only when it begins
  (`OwnerLog`); what is staged was decided for the pause that is shown (`StagedForShown`), so a command
  is made for one pause; commands of this reading are for the pause shown or an earlier one, and the
  pause shown is answered by the frozen command or waits no more (`Answered`), so there is no second
  one.

* **The records of the chat.** `IInv` says of each intent where it is: a pending record is of a saved key that
  was not given up, an acknowledged one of a received key (`SlotTrue`); a call carries its key to the
  conversation it was drawn for (`CallsTrue`), so a late receipt can only meet the record of its own
  conversation; the intent that the engine holds is the one of that record (`PendingHeld`), and a prepared key
  was never sent (`PreparedHeld`). It holds under every set of faults, with as many conversations, keys and
  calls as one likes, and gives the three properties about records and the refinement of `IntentLifecycle`.
* **What the page remembers.** A receipt that its record does not know of is in memory (`Noted`), which is
  why it is not posted again; that needs `MemoryKept`, a storage that works or a page that stays. A message that was given
  up was cancelled, or every call that may still bring its receipt is marked (`Stopped`); that needs
  `OneEngine`: after a remount the call belongs to the engine that was disposed, which the new one's mark does
  not reach; and a receipt that a failing storage could not record leaves the record pending, so that coming
  back to the conversation restores the message and New gives it up with no cancel sent, its receipt having
  come already. TLC finds both, the latter with three conversations.
* **The view.** `Sound(tab)` relates the fields of the engine: a pending message is submitting or of unknown
  outcome (`Visible`), a recovery's read comes with the stream closed, `recovering` set and no steers awaited
  (`RecoverIsQuiet`), and a deferred receipt goes with a read that takes it (`DefersWhile`, whose hypothesis
  `StreamsHold`, no stream breaks or fails, is inside, so that one invariant serves all faults; `LoadsOnce` says the
  same of a hydration and its flag where no recovery can come between). The first half of the module says, function by function and handler by
  handler, what happens to each field; the second half works with these facts alone.
* **The flags.** `LoadingEnds` needs no hypothesis: `Loading` says of each step what it may do to the flag and the
  read together, which the field lemmas give for every handler. `RecoveringEnds` is by `Recovers`, which says that a
  step either keeps a recovery with its read, or ends the flag, or begins a conversation. The one case in which the code
  returns early with the flag set is a recovery that finds no conversation and an intent that it can neither retire nor
  show; `Mirrors` excludes it where the storage works (`StorageHolds`): the view of a conversation holds the intent of its
  open record, and no intent is prepared without a record. With a failing storage `RecoveringIsRead` stays with TLC.
* **The run shown.** `Guided` adds that a run shown is followed, and that a recovery which will find no
  conversation shows none. The latter needs the service's side (`Told`, `RunLogged`): what was accepted, received or
  shown is in a ledger that is not empty, so a recovery of a shown run finds it. With `NoneVanish` the ledgers stay.

*Induction over data.* The library's induction theorems take the proposition as an operator, which the
installed provers cannot instantiate. `RecursionLemmas` states induction about a *set* of numbers
instead, derived from the well-foundedness of `<` on the naturals, and from it that a recursive function
over a sequence is defined and has the type its steps keep (`Iteration`). That is what
`EventStream_proofs` rests on where a batch of any length is put in order (`InOrderInterval`) and folded
into the machine (`HeardType`). `ChatEngine_proofs` rests on it for `Reduce`. For this, both models
define what they fold by recursive functions and not by the operators of the community modules, whose definitions the provers cannot use.

*Model-checked only.* The liveness properties `RequestAnswered`, `EventuallyCurrent` and
`LockIsReleased` (fairness and `ENABLED` are out of the prover's reach), and `RunNotEnded`, which holds on the
instance of `chat_delivery` and fails with `disk` or `drop`: it would take an invariant that places every event of every run
between the cursors of the view, its stream and its read. What a batch folds to, event by event, is not proved for
batches of every length either, only that the machine keeps its shape.

## 7. Not modelled

What section 1 marks "no", "planned" or "candidates". The IAM relay and the BFF adapters keep no state: they validate
and forward under one deadline. The reducer and projections are pure functions of events whose detail is
the content of messages, which no property here tells apart; only the run events are modelled. Settings,
billing, team and administration are forms over resources of the BFF. Views, generated clients, schemas, translations, the documentation
site and scripts have no behaviour of their own to check. Parts reads, moves of conversations, the resource store,
task notifications and the command flows of MCP, skills and tasks have state and races and are next in the
plan. The parts each model leaves out are listed with it and in the notes of `PROJECT.json`.

## 8. Files

| File | Role |
|---|---|
| `SessionStore`, `ProductSession`, `SessionLifecycle` | models of the Product Session |
| `ProductSessionInductive` | the inductive invariants of the Product Session |
| `ProductSession_proofs` | proofs about the Product Session: the store, its refinement, the browser |
| `ChatSubmission_proofs`, `ChatEngine_proofs` | proofs about the chat: the records and calls; the view of the tab |
| `OidcTransaction_proofs`, `SessionProbe_proofs`, `EventStream_proofs`, `Approvals_proofs` | the inductive invariants and proofs of these modules |
| `RecursionLemmas` | induction and recursive functions, for the proofs |
| `OidcTransaction`, `TransactionLifecycle`, `SessionProbe` | models of sign-in and of the browser's probe |
| `MachineState`, `SubmissionSlot`, `OwnerLedger`, `ChatSubmission`, `IntentLifecycle` | models of the chat's submissions |
| `EventStream`, `Approvals` | models of the chat's stream and of the human in the loop |
| `MCProductSession`, `MCOidcTransaction`, `MCSessionProbe`, `MCChatSubmission`, `MCEventStream`, `MCApprovals` and `*.cfg` | instances for TLC |
| `PROJECT.json` | components, runs, mutants, the map from definitions to source lines, findings, hazards, theorems |

In each module, definitions named as mutants state a plausible bug of the code; no specification uses
them. They serve to show that a property can fail: with the mutant in place of the
definition it changes, TLC finds the property violated.

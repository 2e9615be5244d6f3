# A verification of DwoAgent

DwoAgent runs AI coding sessions. A daemon owns a host, the host owns a `SessionService`; every
loaded session is an actor (a tokio task with a mailbox) that owns the session's record, and a
turn — the loop of model calls and tool calls that answers a prompt — is another task that the
actor spawns and talks to over channels. Clients (command line, ACP editors, websocket GUI, chat
channels, automation jobs) drive sessions through the host's RPC. Paths below are relative to the
repository; `service/` stands for `crates/dwo-agent-service/src/`, `host/` for `crates/dwo-host/src/`.

This directory holds the TLA+ modules, their TLC configurations, the proofs and
`PROJECT.json`, which lists every component, run, mutant, hazard and theorem and maps
every definition to the lines it models.

## Inventory

| Component | State it keeps | Operations | What is hard | What makes it correct | Module |
|---|---|---|---|---|---|
| Session actor, `service/session.rs` | record, phase, active turn and compaction, pending permission, waiting unload, expiry timer | prompt, cancel, answer, unload, compact, keep, set, set workspace, questionnaire; events of its tasks | every handler runs to its end, but the tasks go on meanwhile; the phase is overwritten from several places | phase and `active` agree with the tasks; nothing acknowledged is lost; unload is answered; only a due session is deleted | `SessionActor`, `SessionSettings` |
| Turn task, `service/turn.rs`, `tool_exec.rs`, `model_request.rs` | its copy of the context, steer inbox, token, attempt | loop, model request with retries and recovery, tool batch, checkpoint | cancelled anywhere; its checkpoint races the end of the actor; a stream breaks after it said something | ordered context with every call answered; every card closed; retries bounded | `SessionActor`, `ModelRequest` |
| Permission gate, `service/permission.rs` | the one registered request | request, register, respond, reject | replaced, cancelled or answered late | nobody waits for ever; only an approved call runs | `SessionActor` |
| Compaction and context, `service/compaction.rs`, `crates/dwo-context` | history, usage, known environment | append, budget, manual / automatic / recovery compaction, model and workspace changes | cuts between a call and its result, stale counts | what is sent is well formed and forgets nothing it was asked | `ContextCompaction`, `SessionActor` |
| Repository, `service/repository.rs` | context file, metadata file, transcript, archive, index | create, save, append, load, archive, delete, scan | several files per operation, each may fail, the process may die | what was acknowledged can be loaded again | `SessionStore` |
| Session service, `service/session_service.rs` | loaded handles, ids being deleted, three families of locks | load, unload, delete, archive, keep, list, rebind, create | operations that hold different locks | one actor per session; no return after a delete; every call returns | `SessionService`, `HostSessions` |
| Session events, `service/events.rs` | sequence number, subscribers, the folded step | record, broadcast, snapshot, subscribe | snapshot against live events, a client that does not keep up | no gap, no repetition | `SessionFeed`, `AcpScreen` |
| Host RPC, `host/host/mod.rs` | cache of results | requests, retries | expiry, eviction, an id used twice | a retried command runs once | `HostRequests` |
| Host events, `host/host/events.rs` | numbered history | publish, subscribe, replay, read | numbers under a lock, broadcast outside | a feed misses nothing | `HostEvents` |
| Host sessions and projects, `host/host/session_manager.rs`, `project_api.rs`, `dwo-project` | assignments, worktrees | create, assign, archive, delete, prune, repair, expire | two stores and the disk, each step may fail | the stores agree | `HostSessions` |
| Host configuration, `host/host/config_*.rs`, `channel_api.rs`, `websocket_api.rs`, `dwo-channels/src/manager.rs`, `dwo-websocket` | profile and its copies, runtimes, bindings, tokens, listener | edit, reload, watch, bind, unbind, reset tokens | read–build–apply with hand edits in between; wizards | one configuration everywhere, one gateway, the listener that is asked for | `HostConfig` |
| Automation, `host/automation` | jobs, runs, queues, history | fire, run, queue, watch, deliver, edit, restart | overlap, timeouts and restart | each run accounted once, no shared turn | `Automation` |
| Channels, `dwo-channels` | selected session, observer, cards | messages, commands, buttons, delivery | redelivery, reconnects, a card pressed twice | each answer reaches its chat | `ChannelBridge`, `FeishuDelivery` |
| ACP adapter, `dwo-acp` | observers, waiters, held cancels | load, prompt, cancel, permission, questionnaire, replay | two protocol versions over one event stream | prompts are answered, the screen is true | `AcpSession`, `AcpScreen` |
| Tools, `dwo-tools`, `dwo-pty` | terminals and buffers; files | execute, open, write, kill, shutdown; patches | background terminals outlive turns; a cancelled patch goes on | nothing runs on; no edit lost | `Terminals`, `FileEdits` |
| Daemon, `dwo-cli`, `dwo-agent` | lock, socket, processes | start, stop, run, install, purge | commands race processes that start and end | one daemon; stopped means gone | `DaemonLifecycle` |
| File guard, `dwo-file-guard` | held files, permits | permit, release, trees | overlapping writes | own writes pass, the rest is guarded | `FileGuard` |
| Transports, `dwo-ipc`, `dwo-websocket` | pipes, relays | requests, subscriptions | bounded pipes in a ring | nothing is stuck | `StdioBridge` |
| Agent profile, chat commands, wire formats, bindings, vendored code | none of their own | parsing, rendering | – | – | – |

How they interact: a client's request goes through a transport to `Host`, which answers from its cache or
calls the session manager, the project store, automation, the configuration or `SessionService`. The service
finds or spawns the actor and sends it a request with a reply channel. The actor spawns the turn task with
the sending half of its own event queue; the turn sends `PersistContext`, `PermissionRequested` and finally
`Turn(Finished)`, and waits for replies to the first two. The actor sends prompts to a running turn through the
turn's steer channel and stops it through its `CancellationToken`. It writes the record through the
repository and broadcasts numbered events; a relay per subscription carries them to ACP, the channels, automation
and the GUI. Project and configuration changes go out through the host's event hub.

## Modules

| Module | Models | Checked by |
|---|---|---|
| `SessionActor` | the actor, the turn task, the permission gate, manual and automatic compaction, the repository as they see it, expiry and respawn | `actor_*` |
| `SessionContract`, `SessionRefinement` | what a client may rely on; the mapping from `SessionActor` to it | `actor_expiry` |
| `SessionActorMC`, `SessionServiceMC` | nothing: they instantiate the callers for TLC | `actor_*`, `service_*` |
| `SessionActorProofs`, `SessionTurnProofs`, `SessionServiceProofs`, `SessionFeedProofs`, `HostProofs`, `ConfigProofs`, `ClientProofs`, `DaemonProofs` | nothing: theorems | TLAPS |
| `SessionService` | the registry of loaded actors, the session and mutation locks, and the calls that go through them | `service_*` |
| `HostEvents`, `HostRequests`, `SessionFeed`, `Automation`, `HostConfig`, `AcpScreen`, `ModelRequest`, `ContextCompaction`, `SessionStore`, `DaemonLifecycle`, `FileGuard`, `StdioBridge`, `SessionSettings` | one component each | `daemon_parts` |
| `DaemonPartsMC` | nothing: puts the thirteen side by side | `daemon_parts` |
| `HostSessions`, `ChannelBridge`, `AcpSession`, `Terminals`, `FileEdits`, `FeishuDelivery` | one component each, with interchangeable pairs | `paired_parts` |
| `PairedPartsMC` | nothing: puts the six side by side | `paired_parts` |

Conventions shared by all: one action per handler, or per stretch between two awaits at which another
task may act; a failing step is an action (or a disjunct) of its own with what it leaves behind; every
bound is a constant named `Max...`; one variable of a module (`tally`, `diary`, `ledger`, `spent`, `witness`,
`durable`, `trail`, `counts`, ...) holds the bounds used and what the properties remember of the past, and actions
read it for the bounds only.

### SessionActor

*One action per handler.* The actor handles one request or one event at a time, so a
handler of `session.rs` is one action with everything it calls: `PromptStarts` contains the
cleared deadline, the two writes, the transcript line and the spawn of the turn. Error paths
are actions of their own (`PromptWakeFails`, `PromptSaveFails`, `PromptRecordFails`,
`PromptSteerFails`, `KeepOrCompactFails`) or disjuncts (`SaveFails`). Inside a handler the actor
awaits only the repository and its own tools, so other tasks' steps commute with those awaits.

*Mailbox.* A request has no effect before its handler runs, so it is not stored: the
model lets any enabled handler run next, which includes every order the biased `select!` of
`run` can produce. What the tasks send is kept in the queue `events`, because its order
matters: a permission request sent before a cancel is registered after it.

*The turn task* is the program counter `pc` with the labels of its awaits: `loop` (head of
`run_loop`), `fit` (after `begin_step`), `model` (the request), `compacting`, `backoff`,
`tools`, `asking` (a permission), `saving` (a checkpoint; `then` says where it was asked
for), `done` (Finished sent, receiver still alive) and `off`. `CancellationToken` is
`token`; the reply channels are `saved` and `verdict`. A model call may reply with or without
tools, fail, be retried or exceed the context; which of them happens is a free choice.

*Data.* A prompt is its number in the order of admission. A context is the sequence of prompts
it carries, how many are folded into a summary, and whether the last reply still waits
for tool results. The record is the context plus the three fields expiry depends on.

*Repository.* `disk` is the last record written. A save writes two files, so a
failed one may leave the new context beside the old metadata (`SaveFails`).

*Time* advances to the running timer's deadline and no further (`Tick`), because deadlines are
compared with the clock and nothing else is.

*Restart.* `Spawn` starts an actor from `disk` at any moment: after an unload it is a load, while
one is alive it is the death of the process.

*Elsewhere.* Streaming and cards are `ModelRequest`, numbered events `SessionFeed`, titles, model choice and
questionnaires `SessionSettings`, terminal views `Terminals`, workspace changes `HostSessions`.

*Contract.* `SessionContract` is the client's picture: the session is open or not, does one job (a turn or a
compaction), every turn ends once, a prompt is answered with the turn it went to, and one unload waits at a
time. `SessionRefinement` maps `alive`, `active`/`comp`, `ended`, `sent` and `unloads` to it, and `ImplementsContract`
says that every step of the actor, its tasks, failed writes and restarts is one the contract allows.

### SessionService

*One action per stretch between awaits.* A call is a record with its operation, the label of its next
step, the handle and the record it holds across awaits; what another task may change in between
is read in the step that reads it in the code. `load_resolved` is `Look`, `AcquireSession`,
`LookAgain`, `LoadRecord`, `Prepare`, `Install`; `delete` is `Mark`, the actor's unload, `Inspect`, `Erase`,
`Unmark`; `unload` is `Find`, the actor's unload, `Drop`; `archive` is a load, `ArchiveIdle`, an unload and
`Archive`. A returning call drops its guards (`Unlock`), on its error paths too.

*One session.* The locks, the registry entry and the record are per session, and the registry's own mutex is
held only inside a step, so calls on different sessions do not meet. The workspace repairer, which
makes a load of one session call into others, is in `HostSessions`.

*Operations.* `prompt` stands for every call with the same shape (mutation lock, `ensure_active`, load, one
request to the actor): `prompt_internal`, `compact`, `keep`, `set`, `set_config`, `answer_questionnaire`,
`publish_notification`. `open` stands for those that only load (`snapshot`, `subscribe`, `cancel`,
`respond_permission`, `status`). Which operations are called is the constant `Ops`, because the service keeps
its promises for some combinations and not for others.

*The actor* is what the service sees of it: `live`, `closing` (an unload waits for its turn), `stopping` (out
of its loop, its mailbox still open, so that a request is answered only when it ends) and `gone`
(`is_terminated`). A record is the set of the changes it carries, and whether it has a title. A prompt during
a turn goes to that turn and is not counted as acknowledged here: `SessionActor` follows it.
That a closing actor's phase may go back (and let a second unload in) is also `SessionActor`'s.

### The other components

| Module | State and code | Grain and abstractions |
|---|---|---|
| `HostEvents` | `history` and its numbers (`HostEventHub`), `sending` (between number and broadcast), `feeds` (a subscriber's broadcast queue, cursor and pages) | publishing is two steps because the number is taken under the lock and the broadcast is not; `Lagged` is skipped as in the transports; an event is its number and name |
| `HostRequests` | `cache`, `inbox`/`serving`/`replies` of each connection | `Host::handle_request` with check, run and store apart; two identities for two connections; a method is a command (cached) or a query |
| `SessionFeed` | `teller` (numbers, lines, step of the actor), `relays` (a subscription's task), `viewers` (the client) | receiver and snapshot are taken in one handler; the relay's bounded channel and its folded deltas are kept, text is counted |
| `Automation` | `listed`, `runs`, `queues`, `asked`, history in memory and on disk, the sessions behind | starts under their lock, the queue of a session, the watched turn, the delivery of the result; a run is its label in `execute`; restart rebuilds what `recover` reads |
| `HostConfig` | `profile` (file), `live`, `agent`, `gates` (channel runtimes), `secret`, `wizard`, `tokens`, `socket` (listener loop) | a reload is fingerprint, load, build, apply, record, publish, swap; each kind of channel differs in what binding asks for |
| `AcpScreen` | `book` (what is true), `feed`, `adapter`, `display` | both protocol versions; a text is the sequence of its pieces' numbers, so loss, repetition and order are visible |
| `ModelRequest` | `turn`, `ctx`, `record` (cards and transcript), the stream's items and the retry counter | what a provider sends is a choice within the protocol; `retry.rs`' schedule is `MayRetry`; checkpoint and actor are in one step since the turn waits |
| `ContextCompaction` | `mem` (messages, usage, known environment), `disk`, `step` | messages are records of kind, number and tokens; the plan of `plan.rs` is a set of operators on them |
| `SessionStore` | `tree` (directories and files), `index`, `doing` (the running operation), `actor` | one action per file operation; `Crash` between any two; a torn append leaves a tail |
| `DaemonLifecycle` | processes, lock, socket, commands | one action per look at the lock or socket; `held()` takes the lock for a moment and is therefore two steps |
| `FileGuard` | held handles, permits, the state of each write | the platform with guards (Windows) |
| `StdioBridge` | the bounded pipes of the bridge and the daemon, `forwarders` (the tasks of `forward_events`) | one action per read or write of a frame; a forwarder that is aborted goes on until its abort takes effect (`Aborted`), which is any step later |
| `SessionSettings` | `memo` (record in memory), `stored`, `seat` (phase, configuration), `titling` (generations), `heard` (client) | titles are members of a small set; a generated title arrives whenever it likes |
| `HostSessions` | `sessions`, `projects`, `dirs`, lifecycle and session locks, `clerks` (calls with program counters) | every step of create, assign, archive, delete, prune, repair and expiry, and every rollback |
| `ChannelBridge` | `line` (adapter and selection), `watch` (observer), `buttons`, `shown`, `handler`, `press` | message handler and button handler as two tasks, but one for Feishu, as `run_messages` is serial there; a card is on its way (`line.flying`) until the platform shows it, whatever became of the call that sent it |
| `AcpSession` | `conn`, `views` (observers), `desks` (requests), `waiter`, `job` (the session behind, with its open questionnaire), `screen` | version 1 answers a prompt at the end of its turn, version 2 at once; the held-back cancel is a timer; a session that is cancelling is one step, so that what it refuses meanwhile is a failing call (`Slip`) |
| `Terminals` | the table, operation locks, processes, `sweeps` (shutdowns), `mail` and `seen` (the actor's views) | output is counted; a shutdown runs beside the actor and takes the locks in turn |
| `FileEdits` | `files`, the lock, one record per call | lines are model values; matching is exact or ignores blanks at the end |
| `FeishuDelivery` | `cloud`, `socket` (frames, queue, outbox, worker), `gateway` (message loop) | two-frame messages, acknowledgements, reconnects and stops |

## Runs

Bounds are written in the `.cfg`. `CHECK_DEADLOCK FALSE` is set in all runs because a system with bounded
clients does stop: an unloaded or deleted session has nothing left to do, and a component whose inputs are spent
rests. That nothing stops too early is the matter of the liveness properties, `CallsReturn` and `NothingStuck`.

| Run | Asks | Bounds and why they suffice |
|---|---|---|
| `actor_turns` | do the actor and its turn agree on what runs and are prompts never overtaken (`TurnsHold`), is the context closed, without repetition and in order (`ContextIsSound`); `TypeOK` | 3 prompts over 2 turns and 2 rounds: the first prompt of a turn, one steered into it, one left for the next turn, with one retry or batch before and after |
| `actor_unload` | can a tool call wait for an answer nobody can give (`NoStrandedAsk`), can one run unapproved (`OnlyApprovedRun`); what the phase means (`IdleIsQuiet`), what a waiting and a successful unload may rely on (`UnloadOwed`, `UnloadedIsSaved`), compaction against everything else (`ContextNeverReverts`) | 2 callers, 1 turn with 1 round and 2 permission requests (one registered or denied while the next is queued), 1 compaction, 1 failing write |
| `actor_expiry` | what a deadline means and whom it deletes (`GraceHolds`, `DeletesOnlyDue`), what an acknowledged prompt survives (`AcknowledgedIsDurable`), does every step keep the contract (`ImplementsContract`) | 2 prompts, 2 turns, 1 failing write and 1 respawn at any moment, on an ephemeral session: its grace period is entered, left and entered again |
| `actor_liveness` | `CancelEnds`, `UnloadAnswered`, `GraceEnds` under `FairSpec` | 1 prompt, 1 turn, 1 round, 1 permission, 1 compaction |
| `service_delete` | does a deleted session come back and does an acknowledged prompt survive loads, archives and failures (`DeletionIsFinal`), does every call return (`CallsReturn`); `TypeOK` | 2 callers, 4 calls (loads, prompts, rebinds, archives, deletes), 1 failure: a delete overlaps a load that read before it, after a prompt |
| `service_unload` | can two actors serve a session or one save over what it does not know (`OneActorKnows`), does a turn run on an archived session (`ArchivedIsQuiet`) | 3 callers, 4 calls, 1 failure, on a session without a title, which a listing repairs: a load, an unload and a third call while both are under way |
| `daemon_parts` | one property per component (below) | per component, below |
| `paired_parts` | one property per component (below) | per component, below |
| `actor_steer_lost`, `actor_grace_lost`, `service_two_actors`, `service_delete_fault` | one statement each of a document, a comment or an error text, which the code does not keep (below) | the smallest instance that shows it |

No passing run has both `unload` and `delete`, because `AtMostOneActor` fails with the two together
(`service_two_actors`), and `service_delete` has no `list`, because a listing may write an old
record over the stored one (below); `rebind` is not in `service_unload`, because a rebind
writes the record beside a load that has read it, which `OneActorKnows` does not survive.

*Two runs for nineteen components.* The components of `daemon_parts` and `paired_parts` share no variable and no
step. The variable `part` names the one a behaviour is about; `PartsNext` and `PairsNext` let that one act and leave the
others in their initial states (`RestsInOne` fixes one such state where a component has several). What is reached
is therefore the disjoint union of what nineteen separate runs would reach, and an invariant that speaks of one
component is checked on exactly that component's behaviours. Interactions *between* components are modelled inside
each module, by the part of the neighbour it depends on: `AcpSession` has the session's turns, `Automation` the rooms
it prompts, `ChannelBridge` the chats, `Terminals` the actor's queue, `HostSessions` both stores. In `paired_parts`
the names `{a, b}` and `{u, v}` are interchangeable in every component that uses them: no action, property or initial
state names one of them, which is what makes `SYMMETRY` sound there; no liveness is checked with it.

| Component | Property | Its parts | Bounds, and the cases they reach |
|---|---|---|---|
| `HostEvents` | `HubHolds` | `HubTypeOK`, `HistoryIsTail`, `NothingMissed` | 2 publishers, 1 subscriber, 3 events, history 2, receiver 1: truncation, paging, lag, two numbers in flight out of order |
| `HostRequests` | `RequestsHold` | `RunsOnce`, `AnswersBelong`, `CacheBounded` | 2 connections, 1 id, cache of 1: retry, conflict, eviction by the other, one expiry |
| `SessionFeed` | `FeedHolds` | `ViewIsTrue`, `QuietIsCurrent` | 4 events over 2 turns, channel 1, receiver 2: folded deltas, lag, a subscriber in the middle of a step, a reload |
| `Automation` | `AutomationHolds` | `RunsAccounted`, `NoSharedTurn`, `OnceIsOnce`, `DeletedProjectIsQuiet` | 3 kinds of jobs, 2 runs, 2 sessions, 1 incident (failure, timeout, restart, edit): overlap and history limit |
| `HostConfig` | `ConfigHolds` | `ConfigTypeOK`, `CopiesAgree`, `FingerprintIsTrue`, `OneRuntime`, `ListenerFollows` | 1 caller and the watcher, 2 calls, 2 gateways, 1 fault, four kinds of channel: a hand edit inside a reload, a binding during one |
| `AcpScreen` | `ScreenHolds` | `WholeScreenIsTrue`, `NothingTwice`, `V1IsFull`, `StateIsTrue` | 2 messages of 2 pieces, 2 views: a view opened before, inside and after a message, folded or broken |
| `ModelRequest` | `ModelHolds` | `CallsSettle`, `SaidIsKnown`, `RequestsAreClosed`, `BarrenIsBounded` | 3 requests, 2 retries, 2 calls: a stream broken before and after a call was announced, a recovery, a cancel anywhere |
| `ContextCompaction` | `ContextIsKept` | `CallsArePaired`, `RequestIsFit`, `UsersAreKeptOnce`, `CountStands`, `EnvironmentIsTold`, and the step properties `LastAskStays`, `NothingForgotten` | 6 messages, budgets a few tokens wide: a cut before, inside and behind an exchange; a second compaction on a summary; a model switch |
| `SessionStore` | `StoreHolds` | `IndexIsTrue`, `RecordIsNotBehind`, `EventsAreKept`, `DamageIsBounded` | 1 session, 2 saves, 2 lines, 1 crash, 1 change of the time zone, 1 listing |
| `DaemonLifecycle` | `DaemonHolds` | `OneDaemon`, `ServingIsReachable`, `StoppedIsGone` | 2 consoles, 2 processes, 3 commands, 1 fault: two starts at once, an upgrade over a stop |
| `FileGuard` | `GuardHolds` | `OwnWritesPass`, `RestIsGuarded`, `RestIsOpen` | 2 writers, 2 state files of which one is in a folder that is deleted, 4 writes |
| `StdioBridge` | `StdioHolds` | `AnsweredInOrder`, `EventsFollowReplay`, `NothingStuck` | 4 lines, 2 of them subscriptions or malformed, pipes of 1, 1 event: all pipes full, a subscription replaced before its replay and after it, an event of the old one behind the new replay |
| `SessionSettings` | `SettingsHold` | `ChoiceStays`, `EffortComesBack`, `OneSelection`, `QuizIsAnsweredOnce` | 2 models, 1 reasoning, 2 generations, 3 updates, 1 questionnaire, 1 failure: a late title over a choice, a model left and taken up again, an unload under a questionnaire |
| `HostSessions` | `HostHolds` | `AssignedIsActive`, `PrunedIsEmpty`, `AssignedInPlace`, `ProjectsAreValid` | 2 calls at once, 2 sessions, 1 project with a repository and a worktree, 4 errands, 2 mishaps |
| `ChannelBridge` | `ConversationHolds` | `AnswersArrive`, `UseLeavesNoGap`, `SelectionSurvives`, `OneAnswerPerCard` | 2 chats, 2 messages, 2 turns of which 1 asks for a permission (a group of buttons of its own, so that a second adds no case), 1 turn replayed, 1 break, three kinds of adapter (Telegram's cards fail as Feishu's do and are pressed as QQ's are): a card that fails after it was shown, a prompt under a closed subscription, a turn too old for the replay |
| `AcpSession` | `AcpHolds` | `PromptsFinish`, `CancelIsKept`, `OneForwarder`, `QuizIsShown` | 2 requests at once and in all (what version 2 cancels is one), 2 observers, 2 turns, 1 cancel held back, 1 slip: a questionnaire that outlives its turn and is shown to a later observer, an answer refused by a compaction, one that arrives late |
| `Terminals` | `TerminalsHold` | `NothingRunsOn`, `ViewsFollow`, `LocksAreServed` | 2 terminals in a table of 1, a batch of 2, 2 turns: eviction, a shutdown into the next turn |
| `FileEdits` | `EditsHold` | `UpdatesAreWoven`, `ReportIsWhole`, `NoLostEdit` | 2 calls, 2 files, the hunks of `EditPatches`, one outside write, one failing file operation |
| `FeishuDelivery` | `DeliveryHolds` | `SubmittedOnce`, `AckedIsHeld`, `InflightIsTrue`, `OrderIsKept` | 3 messages (one of two frames), queue and outbox of 1, 1 dropped connection, 1 stopped gateway |

*Exceptions in the properties* are named, each after what the code does: `partly`, `stale`, `moved` and `gone` in
`SessionStore` (a broken-off creation or deletion, a late listing, a time zone), `torn`, `misled`, `rehung` and `moved`
in `HostSessions` (a failed second step, a session created beside a torn one, a session that followed its
project without the lock, a project whose directory changed), `unsaved`, `lost` (a send that failed) and `void` (buttons given up)
in `ChannelBridge`, `lapsed` in `AcpSession` (a questionnaire declined, refused or never told of), `late` in `StdioBridge`,
`overtook` in `FeishuDelivery`, `short` and `cut` in `FileEdits`, `untold`, `unshown` and `failed` in
`SessionSettings`, `partial`, `overtaken` and `started` in `HostConfig`, `gaveUp`, `dropped` and `revived` in
`Automation`, `moved` in `ContextCompaction`, `todo` in `ModelRequest`. Each marks what happened to the one session,
card or run it is about, so that the property still speaks about all others; the behaviour behind it is under
Observations.

*Fairness* of `SessionActor` is weak fairness of the event loop, of the turn task, of the compaction task, of the clock
and of the timer: tokio polls a ready task again, a model call or a tool returns or is
cancelled, and time passes. Clients are not fair: nobody is obliged to answer a permission
request, which is why only a *cancelled* turn must end. In `SessionService` it is weak fairness of every
call's next step (tokio's mutexes are handed over in order, and the calls are finitely many) and of the
closing and termination of actors, which `CancelEnds` and `UnloadAnswered` of `SessionActor` justify; a turn
that nobody closes may run for ever. The other modules state no fairness; where one of them is about progress it
says that a step is possible (`NothingStuck`, `QuietIsCurrent`, `ListenerFollows`, `PromptsFinish`).

Every property of a passing run has a mutant in `PROJECT.json`: an operator beside the one it
replaces (marked "mutant" in the module) that changes the code the way a plausible bug would.

Four runs show where the program and its documentation disagree:

- `actor_steer_lost`: a prompt acknowledged between the turn's last look at its inbox and the
  handling of `Finished` is in no context (`crates/dwo-agent-service/README.md:82` says messages are
  consumed at the next step boundary).
- `actor_grace_lost`: a follow-up prompt whose save fails takes the deadline of an ephemeral
  session away, and nothing sets it again (`docs/session.md:40`).
- `service_two_actors`: a delete that is refused because an unload waits for the turn has already taken the
  handle out of the registry, so the next load starts a second actor
  (`crates/dwo-agent-service/README.md:81`).
- `service_delete_fault`: a delete that cannot read the record leaves the session in `deleting`
  (`README.md:94` there).

## Observations

What the modules contain beyond the four runs: behaviours that are not what a reader of the documents would
expect, or that no document mentions. The properties above are stated so that they hold beside them.

*Sessions.*
- Internal results waiting in the inbox are dropped by a cancel (`service/turn.rs:206`; `docs/session.md:65` says they
  are still written); queued user prompts are written by the settle after a cancelled tool batch
  (`service/tool_exec.rs:168`; `docs/session.md:65` says a cancel clears them).
- A listing that repairs an empty title saves the record it read earlier without the session lock
  (`service/session_service.rs:601`), so a deleted session may come back, and a prompt saved meanwhile is gone until
  the turn saves again. A rebind of a session that is just being loaded is overwritten by the load
  (`session_service.rs:886`).
- `status()` looks for turn events in the transcript (`session_service.rs:1100`), where they are never written: they are
  only broadcast.
- A torn save may put a context on disk that the next successful save takes back; an unload that waits for a
  compaction of a session in its grace period is answered "closed" when the session expires under it.
- A cancelled title generation clears the token of the one that replaced it when its answer comes
  (`service/session.rs:2149`): a further prompt then starts another, an unload no longer cancels the newer, and the
  stale answer may land while the newer is dropped.
- Once the profile withdraws a reasoning mode in use, every `session.set` that names no model is refused, a mere
  title too (`session.rs:1266`). The mode kept for its return is overwritten at the next model switch
  (`session_record.rs:298`), although the comment at `session_record.rs:136` says switching away and back restores it.
- A failing second save in `answer_questionnaire` (`session.rs:1145`) leaves the questionnaire open with its answer
  already in the turn.
- A completion whose transcript line cannot be written advances the step without telling anybody.

*Store.* A torn tail of the transcript is accepted by the next load but not repaired; the next append glues two events
into one line that does not parse (`service/repository.rs:519-585`). A change of the time zone moves a session's
directory. A crash inside a delete makes `list` fail. A failed creation leaves a directory that the next scan revives.

*Context and model.* The `todo` tool's streamed card is recorded as pending and never completed. The partial text
of a cancelled stream is in neither transcript nor context. A note of the environment may stand behind a newer system
prompt. Images of tool results count as messages of the user when a context is split. A reserve may cut a call from
its reasoning.

*Tools.* The shutdown that a cancel spawns may close the *next* turn's terminals (`session.rs:1171`). A file moved onto
itself is lost; a chunk marked end-of-file ignores the ones before it; a move that fails half-way leaves its
destination although the caller is told nothing was applied; a cancelled call releases the lock while its blocking
thread goes on.

*Host.* A replay returns the oldest events within its limit, and a `Lagged` receiver is told nothing; the safe cursor is
the replay's (`crates/dwo-host/README.md:141`). An ephemeral session that expires between the two steps of an
assignment leaves the assignment behind, as does a crash inside an archive. One directory may be bound to two
projects by updates that race (`docs/projects.md:57`). Two loads of sessions of a vanished project may wait for each
other (`session_service.rs:480`, `docs/projects.md:82`). When a project's folder changes, its sessions are moved to
directories that were read before and without the lifecycle lock (`host/host/mod.rs:691`): one that was reassigned
meanwhile may be moved back into a worktree after `project.worktree.remove` found it unused, and git removes the directory
it works in, although `project_api.rs:345` refuses a worktree that "is still used by an active or archived session".

*Configuration.* Content read before a hand edit may run under the fingerprint taken after it. A failed logging reload
leaves the new configuration half applied. `begin_bind` stops an enabled channel, and an abandoned wizard leaves it
stopped. A Feishu confirmation after an unbind stores an identity without credentials. A channel may be enabled and
unbound, which the comment near `dwo-channels/src/manager.rs:593` excludes. Tokens that cannot be read make the
listener be reported as down while it serves.

*Automation.* The queue of a session is released after a timeout while the turn goes on; a run waiting on a busy
session waits for turn events while the business is a compaction's (`host/automation/mod.rs:715`);
`mark_interrupted_runs` is never called (`docs/automation.md:143`); an edit that overlaps the deletion of its project
writes the project's configuration again.

*Channels.* The end of a turn is sent once: when that fails it is logged and lost (`bridge.rs:966`). An observer whose subscription
was closed is kept until it has read what was left (`bridge.rs:530`), so a prompt submitted meanwhile is never told its
end. `/use` replays the last `replay_turns` turns only (`render.rs:92`), and a full session id is selected and saved before
anyone asks whether there is such a session (`bridge.rs:458`). A card whose sending fails or times out may be on the screen
all the same, every part of a long one with the buttons (`telegram.rs:523`); these, and those of a request older than ten minutes or
of a channel that was restarted, stay there and do nothing. A failed save leaves the new selection in memory and the old on disk. A Feishu card that is pressed before it
is remembered keeps its buttons. QQ keeps the actions of a card it could not send. `/allow` without an id approves
whatever is pending. A frame of Feishu may overtake those that wait in the outbox (`ws_client/session.rs:450-475`,
whose header claims order); what was acknowledged and not submitted is lost when the gateway stops.

*ACP.* A prompt's completion is not tied to its turn. A load with replay that shuts the observer of a waiting version 1
prompt leaves that prompt waiting. A load whose options fail leaves an observer nobody forwards (`docs/acp.md:70`).
A prompt that joins an observer whose subscription was closed waits for an end it is not told.
A questionnaire outlives its turn (`session.rs:1983`; nothing at the end of a turn clears it) and is shown again to the next
observer. An answer that comes while the session compacts or cancels is refused (`session.rs:924`, `956`), and one whose save fails is
undone (`session.rs:1146`), even when the answers are in a turn already; `deliver_questionnaire` only logs it (`dwo-acp/src/lib.rs:1565`):
the questionnaire is open, and the client that answered it does not see it any more. When the transcript cannot be written nobody is told of
a questionnaire, nor that it was answered.
A cancel held back stops whatever turn runs when it is let go. A view that opens in a manual compaction shows the
session as running until the next turn.

*Daemon.* A command that probes the lock holds it for a moment, so it can make a starting daemon exit or another
probe report a running one. A daemon whose socket fails stays alive and cannot be reached by `dwo daemon stop`
(`docs/profile.md:284`). Logging is initialised before the lock is taken (`docs/profile.md:282`).

*File guard and bridge.* Of two permits of one file, the first to end guards it again under the second. A second
subscription aborts the task of the first (`stdio.rs:111`), which takes effect when that task next waits: events of the old
subscription it has read already may be printed behind the replay of the new one, and a frame does not say which it belongs to. A
subscription that is replaced before its replay was forwarded is never answered; a failing event connection ends
the whole bridge.

## Proofs

What the runs show on a small instance, these theorems state for every value of the constants: any number of callers,
prompts, turns, failures, processes or files. `tlapm <Module>.tla` checks each module from nothing.

| Theorem | Module | States |
|---|---|---|
| `TypeCorrect` | `SessionActorProofs` | `Spec => []TypeOK` |
| `ApprovalCorrect` | `SessionActorProofs` | `Spec => []OnlyApprovedRun` |
| `PhaseCorrect` | `SessionActorProofs` | `Spec => []IdleIsQuiet` |
| `UnloadCorrect` | `SessionActorProofs` | `Spec => []UnloadOwed` |
| `GraceCorrect` | `SessionTurnProofs` | `Spec => []GraceHolds` |
| `DeletionCorrect` | `SessionTurnProofs` | `Spec => DeletesOnlyDue`, an action property |
| `TurnCorrect` | `SessionTurnProofs` | `Spec => []TurnTracked` |
| `SavedCorrect` | `SessionTurnProofs` | `Spec => []UnloadedIsSaved` |
| `AskAnswered` | `SessionTurnProofs` | `Spec => []NoStrandedAsk` |
| `ContextCorrect` | `SessionTurnProofs` | `Spec => []ContextIsSound` |
| `TurnsCorrect` | `SessionTurnProofs` | `Spec => []TurnsHold` |
| `DurableCorrect` | `SessionTurnProofs` | `Spec => []AcknowledgedIsDurable` |
| `NeverReverts` | `SessionTurnProofs` | `Spec => ContextNeverReverts`, an action property |
| `ContractImplemented` | `SessionActorProofs` | `Spec => ImplementsContract`: the refinement of `SessionContract` |
| `ServiceTypeCorrect` | `SessionServiceProofs` | `Spec => []TypeOK` |
| `OneActor` | `SessionServiceProofs` | `Spec /\ []~RefusedDelete => []AtMostOneActor` |
| `OneActorKnowsAll` | `SessionServiceProofs` | `Exclusive`, `NoRebind`: `Spec => []OneActorKnows` |
| `DeletionIsForGood` | `SessionServiceProofs` | `Exclusive`, `NoRepair`: `Spec => []DeletionIsFinal` |
| `ArchivedStaysQuiet` | `SessionServiceProofs` | `Exclusive`: `Spec => []ArchivedIsQuiet` |
| `FeedCorrect` | `SessionFeedProofs` | `FeedSpec => []FeedHolds` |
| `DaemonCorrect` | `DaemonProofs` | `DaemonSpec => []DaemonHolds` |
| `GuardCorrect` | `DaemonProofs` | `GuardSpec => []GuardHolds` |
| `RequestsCorrect` | `HostProofs` | `RequestsSpec => []RequestsHold` |
| `HubCorrect` | `HostProofs` | `HubSpec => []HubHolds` |
| `AutomationCorrect` | `HostProofs` | `AutoSpec => []AutomationHolds` |
| `HostCorrect` | `DaemonProofs` | `HostSpec => []HostHolds` |
| `ConfigCorrect` | `ConfigProofs` | `ConfigSpec => []ConfigHolds` |
| `SettingsCorrect` | `ConfigProofs` | `SettingsSpec => []SettingsHold` |
| `AcpCorrect` | `ClientProofs` | `AcpSpec => []AcpHolds` |
| `ConversationCorrect` | `ClientProofs` | `BridgeSpec => []ConversationHolds` |
| `DeliveryCorrect` | `ClientProofs` | `DeliverySpec => []DeliveryHolds` |

With them every safety and action property of `SessionActor` that a run checks is a theorem, and so is its refinement;
and every safety property of `SessionService`, under hypotheses that name the disagreements found (below).

*Assumptions on constants.* `CallersAssumption` (the marker for nobody is not a caller), `EphemeralAssumption`, and the
assumptions that bounds are natural numbers. `HoldersAssumption` of `DaemonLifecycle`: a lock held by nobody, by a
daemon and by a command are three different things. `FilesAssumption` of `FileGuard`: a path is either guarded or left to
others, as `is_protected_path` says of each path, and the deleted folder holds such paths. `CallsAssumption` of
`HostRequests`: a method either changes something or does not; with `CacheLimit` at least 1. `HostEvents`: limits and
capacities are at least 1, and no event has the name of the absent filter. `FeedBoundsAssumption` of `SessionFeed`: the
capacities of the broadcast and of the channel are at least 1, and bounds are natural numbers. `JobsAssumption` and
`AutomationBoundsAssumption` of `Automation`: the three kinds of jobs are different jobs, and its bounds are numbers, there is
a session, and the history keeps a run at least (100 in the code). `TasksAssumption` of
`HostConfig`: nobody is not a caller, and the watcher is none. `ClerksAssumption`, `DirectoriesAssumption`
and `PlacesAssumption` of `HostSessions`: nobody is not a call, a folder a user names is not a worktree the host makes,
and the directories the host keeps for itself are neither; nothing has the name of the absent id.
`VacantAssumption` and `BoundsAssumption` of `AcpSession`:
no request is the absent one, and the bound on observers is a number. `ChatsAssumption` of `ChannelBridge`: no session is the
absent one, and `ReplayAssumption`, `AdaptersAssumption`: turns replayed are a number, adapters are of the four kinds.
`NotesAssumption` and `LimitsAssumption` of
`FeishuDelivery`: no message is the absent one, and the limits of the queues are numbers (zero included). `TypedAssumption`
of `SessionSettings`: nobody chooses an empty title, which `apply_title` refuses; and its bound on questionnaires is a number.

*Hypotheses of the service's theorems.* They say which operations are called (`Ops`), and each excludes exactly
one thing the code does beside its locks, which TLC shows to break the property:

- `Exclusive`: deletes and unloads are not both called. A delete that meets an actor an unload is closing gives its mark
  back while that actor still runs, and a load then starts a second one: the run `service_two_actors` is that behaviour,
  a finding. `OneActor` needs no such hypothesis on the operations: it says that this meeting (`RefusedDelete`) is the *only* way to two actors.
- `NoRebind`: `rebind` rewrites the stored record under the mutation lock only, so that an actor loaded meanwhile does not
  know what it stored.
- `NoRepair`: a listing that finds no title saves the record it read without the session lock; with it a deleted
  session may come back. The hypothesis is that nothing lists, or that sessions have titles.

### The arguments

*Types.* `TypeOK` alone is not inductive: `TakeDecision` records the number of the last request as one that
ran, and it is in `1..MaxAsks` only because a turn that waits has asked. `TypeInv` adds that (`AskCounted`). Lemmas
give the type of what each helper produces (`SendType`, `SettleType`, `StopType`, …); then one lemma per group of
actions: `PromptType`, `RequestType`, `EventType`, `TurnStepType`, `EnvironmentType`.

*Approvals.* `ApprovalInv` adds that an allowing verdict is recorded as an approval of the same request. It holds because
`RespondPermission` compares the request named with the one registered (`Matches`), and because everything else that
touches verdicts only denies.

*Phase and unload.* `QuietInv` joins `IdleIsQuiet` and `UnloadOwed`: that a turn or a compaction ends without a waiting
unload leaves no caller waiting, needs that a waiting caller is the one remembered; that `Compact` starts beside
nothing needs that `Idle` means quiet.

*Grace period.* `GraceHolds` needs four more facts (`GraceInv`): only ephemeral records have deadlines, in memory and on
disk (`DeadlinesAreEphemeral`, as a restart takes the one from disk), the timer runs to the record's own deadline
(`TimerAgrees`), what was kept is ephemeral neither for this actor nor for the one a restart would spawn
(`KeptEverywhere`), and a deleted session has stopped (`DeletedIsStopped`).

*Turns.* `TurnTracked` says what the actor believes; to be inductive it must say what the *queue* holds. `TurnInv` counts
events: the end of the active turn is in the queue exactly when its task is past it, once, and no other turn's is
(`TurnAgrees`); the same of the compaction (`CompactionAgrees`); a stopped actor hears of nothing (`StoppedIsEmpty`). `SendAt`,
`SendOwn`, `TakeAt` and `TakeOwn` say what sending and taking do to the places of one type of event. `UnloadedIsSaved`
and `NoStrandedAsk` follow from steps that keep them under `TurnInv`.

*Contexts.* `ContextInv` is the longest. What must be known of a context is that it is `Told`: its prompts were sent, are
in the order they were sent, and leave no gap within a turn. A stored context is `Sound`: closed, told, and
carrying every acknowledged first prompt (`StoredSound`, for memory and disk, equal unless a write failed). The task is
ahead of the record by the prompts of its own turn, and what waits in its inbox comes next (`TaskAhead`); the
checkpoint in the queue is what its task waits for (`CheckpointAgrees`); a manual compaction works on what the record still
carries (`CopyAgrees`); and no turn has a prompt before it starts (`SentAgrees`). The lemmas before the steps are about
sequences (`PrefixFacts`, `PrefixChain`, `AppendSet`, `ConcatAppend`) and about `Told` and `Sound` when one more prompt is
sent or taken (`ToldNext`, `SoundNext`, `SoundFolded`, `SoundAhead`). All four theorems are read off that invariant;
`NeverReverts` uses it for each step's action formula.

*Refinement.* `RefinementInv` adds to `QuietInv` that every turn that started has its ending or none yet, that the active
turn is the last that started, and that the caller remembered is one that waits. `ContractInit` maps the initial
state and `ContractStep` every step, to one of the contract's or to a stutter; the second has one step per action.

*Service.* `SessionServiceProofs` has one invariant in layers. `BaseInv`: types, the steps each operation goes through
(`StepsAgree`), that each lock is held by exactly the call whose program counter says so (`SessionLocked`, `MutationLocked`),
and that an actor closes for one call that waits for it (`ClosersWait`). `SafeInv`: an actor that serves is the one the
handle leads to, or a delete has taken it out and is stopping it (`ServingIsFound`); while a call loads, none serves
(`LoadedAlone`); a handle is dropped after its actor is over (`DroppedIsOver`); a delete has the mark as long as it needs it
(`DeleteTakesHandle`). `OneActor` is read off these. The three others add what each is about: what the actors and the
loading calls know of the stored record (`StoredIsKnown`); that whoever may still save has all that was acknowledged, or
that nobody may (`AcknowledgedIsKnown`, `ErasedIsLeft`, `TitlesStay`); and that once archive has seen the session idle no
turn starts, although two awaits lie between (`ArchiveSawIdle`), because it holds the mutation lock a prompt needs
(`PromptsSeeActive`). Lemmas first say what a kind of step does to the calls, the actors and the record (`GotoType`,
`StopsActors`, `DiskStays`, …), so that an invariant is shown over a few kinds of steps instead of over every action.

*Events.* `HubHolds` needs, of each feed, that it saw everything it asked for up to its cursor unless it was told of a
truncation (`ReadBehind`), and that pages left out lie behind an event it read (`FeedBegins`). `PagePlaces` says what a page
is: the first places behind the cursor, all of them if the limit suffices; `TurnReads` that a history which reaches back to the
cursor closes the gap, and `TurnStep` that what is published later is on its way.

*Feed.* What a client shows is not a function of the relay: folded deltas and a turn whose completion was lost make it
differ from what was told. `FeedInv` therefore says, of each client, that there is a *load* `T` (what this load of the
session told, by number) and a sequence of views `f` the client passes through (`Follows`): each message on its way fits the
view before it and leads to a view that is true of its number (`Trail`), the relay has taken the events up to a number, those it
did not send being deltas in its step (`Ahead`), and what it holds and has not received comes next without a gap, unless it
lagged (`Held`, `Sourced`). `MovesShown` says that the client's handler takes a true view to a true one, for each kind of event;
`TrailGrows` and `TrailArrives` what sending and showing do to the views on their way; `DeltaHolds`, `FlushHolds` and
`PassHolds` what the relay does; `ClientHears` that a broadcast makes the load one view longer for every client at once.
A reload leaves a client with the load it had (`stale`), and a lost completion excuses its turn and no other (`Excused`).

*Daemon.* `OneDaemon` follows from `HoldersHold`: a daemon beyond its first step has the lock. `StoppedIsGone` compares
numbers of locks: a command remembers how many were taken when it saw the lock free, and whoever holds the lock now
took a later one; `LocksCounted` makes the numbers comparable, and `ProbersHold` that a command that looks really has it.

*File guard.* A handle is closed under a permit nobody crossed (`PermitsOpen`); permits are for files (`PermitsAreFor`) and
given by a running protection only (`NoPermitUnguarded`). `RestIsGuarded` is the other direction and inductive
with the exceptions named in `witness.excused`.

*Requests.* `RunsOnce` needs that a command's result is in the cache, on its way there, or forgotten (`Remembered`), and that
a command that runs has found none (`RunningIsNew`). `AnswersBelong` needs that what is kept, stored or answered was run so
(`CacheIsRun`, `ServedIsRun`, `AnswersAreRun`). `VictimsMakeRoom` is the lemma that eviction leaves room for one.

The inductive invariants were checked by TLC on the instances of the runs before they were proved, but for `FeedInv`, whose
witnesses range over functions.

*Configuration.* What a reload has done depends on where it is: before it told the session service, all parts follow the old
configuration; between that and the swap of the gateways the service follows the one loaded and the gateway the old one;
after it both follow the one loaded (`ReloadFits`). `LockIsKept` ties these places to the one task that has the lock,
`GatesKnown` says which gateway a task holds at which place, and `StartsFit` that, unless a binding started the channel, only
the reload starts a gateway and none works while the pointers move. The listener has read what there is or will be told
(`LoopFollows`). Lemmas show each part for a *kind* of step (a step that only moves a task, one of the listener, one
inside the lock), and the actions cite them.

*Settings.* What is saved may fail behind a change of the title or of the questionnaire, never behind one of the selection,
so memory and disk agree on the selection whatever failed (`SelectionKept`); a load brings the same one back. A title that
was chosen is on disk too and nothing waits to replace it: no generation that is under way was asked for its words, and the
record no longer asks for one (`ChoiceKept`), which an empty title would. That a model brings back its reasoning is
inductive for all models at once only: what was set for a model that does not run is what is remembered for it (`WishKept`).
A questionnaire that waits, in memory or on disk, was asked and not yet answered unless the answer failed, and numbers not
yet used have no answer (`QuizKept`). Most steps change the record by a few operators, and `TitledIs`, `RememberedIs`,
`FittedIs`, `BegunIs` and `AnsweredIs` say what each leaves of it.

*Automation.* `RunsAccounted` asks of every run that is over where it went, so a history may name only runs that are
over, and no run twice (`HistoryHolds`); as a binding is saved before the run goes on, the copies that runs carry count as
histories as well (`Pasts`). `NoSharedTurn` needs that the queue of a session is held by the one run that works there, that
the runs of an `every` job have a session nobody else has (`SessionsHold`), and that a run whose turn is not over watches
it unless it gave up (`TurnsHold`). `OnceIsOnce` needs that the sessions made for a job that still exist are the one the
history binds it to, and that without a configuration there is none (`BindingsHold`). `RunGoes` says what a step does to one
run, and one lemma for each kind of step (`MoveHolds`, `GoHolds`, `OverHolds`, `RoomStepHolds`) shows the parts for all
actions that are such a step. The attempt found an error of the *model*: after the deletion of its project a restart knows no history at all, while the
bookkeeping of `dropped` compared with the file; with one incident more than the run has, TLC shows it too. `Restart` now says
what the next process knows, once, and the runs that is without are dropped.

*ACP.* `WaitersFinish` is the heart: an accepted prompt that waits under an attending observer whose subscription is open has
its turn running or its end in that observer's feed. It needs that only the registered observer attends and that numbers of observers are not
used twice (`OnlyEntryAttends`), that cancels are numbered and a waiting prompt carries none that is still
owed (`CancelsAreNumbered`, `WaitIsWhole`). An open questionnaire is of a turn that asked (`JobIsWhole`), which may be over, and is
known to the registered observer: in its feed, on the screen, given up, or in the snapshot of an observer that does not forward yet (`QuizIsKnown`).
The client takes away only what is not open any more, because a feed tells of answers to questionnaires that were open once
and are not now (`ResolvedIsPast`). `FeedGrows` and `FeedShrinks` reduce feeds to the sets of their events.

*Conversation.* Whoever is owed the end of a turn was sent it, or the send failed, or its session is the one observed: with the end
in the feed once there is one, and over an open subscription before (`OwedAreWatched`). For that the observer is in place, and
subscribed, when the prompt is submitted (`SubmitIsWatched`), and a prompt that finds a closed one is owed nothing. The session of the
last `/use` is still the one watched, and each of its turns that ended was sent, waits in the feed, or is older than the last
turns replayed (`UsedIsWatched`; later turns only make a turn older, which is a lemma about cardinalities). Memory and file select the
same session but between the two steps that save it (`SelectionAgrees`). A request is answered once because one that the
observer has not taken has no button anywhere, nor a card on its way (`AsksAreNew`); the buttons of a group that lives, neither pressed nor given
up, are in the store while its card is on its way and while it is shown (`ButtonsAgree`); and a press is of a group that is not
pressed again (`PressAgrees`). A stopped channel has nothing of all this but cards on their way (`DownIsQuiet`), which is what a start
finds. `FeedAppends` and `FeedAdvances` say what a feed that grows or is read keeps, and a
predicate for each part (`TurnsStay`, `DebtStays`, `WordStays`, …) names what a step must leave alone to keep it.

*Delivery.* That no message is submitted twice within the gateway's memory needs that `recent` *is* what this run took last,
all of it or as much as it may hold (`RecentIsTrue`, counted over what was submitted and what is at work, `PassedOn`), and that the
message at work is none of those (`WorkIsFresh`). An acknowledgement follows the message: what the worker or an outcome calls
accepted is held, submitted or was dropped by a stop (`OkIsHeld`). Order is kept over the concatenated queues, and
`HeadMoves` says that a message that moves from one queue to the next leaves their concatenation as it is.

*Host sessions.* Two stores and the disk agree only between steps nobody sees from outside, so `HostInv` says what is true
*inside* each call. `ErrandsFit` and `LockKept`: what a call carries at each place, and that it is at a place inside
the lifecycle lock exactly when it is the lock's holder; `LoadsGuard` the same of the session locks. `ProjectsFit` and
`ReposFit`: every stored project passes `validate` and keeps doing so whatever a call still intends to register in it.
`AssignedActive`: an assigned session is active, or the holder of the lock is about to take the assignment back.
`HandsHold`, `Still` and `ScansHold`: whose directory the holder of the lock relies on, and that nobody else can move it: a
removal that has scanned the active and the archived sessions knows that none of them works in the worktree. Only a
rehang and a repair move sessions beside the lock, which is what `rehung` marks: the attempt to prove `PrunedIsEmpty`
without it led to the observation on `mod.rs:691` above.
`PlacesHold`: an assigned session works in its directory, or the holder of the lock knows the way there or back. The steps
fall in two kinds. One beside the lock is a `HostCalm` step: it leaves alone what the holder relies on, each session and
project but those in its footprint, and `OuterHolds` shows all parts for any such step. One of the holder (`InnerHolds`) is shown
action by action, over what it does to one session (`InnerRoomHolds`) or to none (`InnerSameHolds`).

### Only model-checked

- *Liveness*: `CancelEnds`, `UnloadAnswered`, `GraceEnds` and `CallsReturn` under fairness, and `NothingStuck` of `StdioBridge`,
  which says `ENABLED`: neither is within the prover's reach.
- `ModelRequest`, which uses a recursive operator.
- The properties of the components without a theorem in the table above, and the refusals of a delete
  (`RefusedOnlyDuringDelete`), which the code does not keep.

## Not modelled

- *Pure functions without state*: the agent profile's parsing and prompt wording, chat commands, rendering of cards
  and messages, the wire formats of model providers, the policy's decision for a call.
- *Operating-system I/O*: pseudo terminals (`dwo-pty`) but for what `Terminals` sees of them, HTTP calls of the
  platforms, the git commands but for their outcome.
- *Generated and third-party code*: the Dart bindings and the vendored client, but for its websocket session.
- *Commands that send one request and print the answer*, and methods that only read.
- `SessionService::shutdown` of all sessions at once: it is an unload of each.
- Sizes: the 1 MiB cap of an output buffer, real token counts and time-outs in seconds; bounds and budgets stand
  for them.

## Plan

1. `TerminalsHold` and `StoreHolds` as theorems.
2. Two sessions in `SessionStore` (the scan and the listing across them) and two projects in `HostSessions`, where
   runs longer than those of this project are affordable.
3. The refinement of the contract by the service: what a client may rely on across loads, unloads and deletes.

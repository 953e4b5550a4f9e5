# Verification of agent-infrastructure

This directory holds TLA+ models of the parts of agent-infrastructure that are hard to
test, the TLC runs that check them and the proofs that hold for every size. The code is
TypeScript on Node: a handler runs to its next `await` without interleaving, so what can go
wrong lies between the stretches — messages that arrive while a turn runs, answers that
arrive after what they answer has changed, and a process that is killed between two writes.

`AC` below stands for `src/packages/agent-chat-server/src`, `UI` for
`src/packages/agent-chat-ui/src`, `SM` for `src/packages/swarm-manager/src`, `SB` for
`src/packages/storyboard-ui` and `AS` for `src/scripts/storyboard-access-server.ts`.

## What the system consists of

| Part | State | Operations | What makes it correct |
|---|---|---|---|
| agent-chat turn engine (`AC/index.ts`) | `activeSessionRuns`, a runtime state and a coroutine per session; memory only | post, patch, interrupt, run and end a provider turn, retry | one turn at a time, no lost wake-up, delivery once, an honest status, the provider thread belongs to the settings |
| transcript (`AC/store.ts`) | memory cache, `session.json`, `messages.jsonl`, SQLite index | append, update, mark seen, flush, load, reconcile | what was acknowledged survives a kill at any point |
| agent tickets (`AC/agent-tickets.ts`, handlers in `AC/index.ts`) | tickets and bindings in memory, a file per ticket, an index file | select a process, activate, reassign, replies, comments, step selection, config | checklist, current step and attempts agree; a ticket has one session; files follow memory |
| session watchdog (`AC/index.ts`) | a timer per session, typing state, nudge counts | arm, fire, nudge, block, re-arm at start-up | an unresolved session has a timer, prompts keep their distance, a stuck step is given up |
| provider adapters (`AC/codex-provider.ts`, `AC/claude-provider.ts`) | the shared app-server, a socket or query per turn | start the process, handshake, complete, time out, interrupt | a turn settles, a success is its own, nothing runs that nobody waits for |
| V2 client store (`UI/AgentChatV2Store.ts`) | views, the shown session, its socket, requests in flight | open, create, update, close, reconnect, merge | the screen shows what the socket delivered, of the session shown |
| worker link (`SM/manager/server.ts`, `SM/worker/agent.ts`) | sessions, live workers, inventory and the lifecycle log; the agent's socket | connect, authenticate, beat, sweep, close, restart | one session per worker, and its status comes right after every loss |
| service launch (`SM/manager/launch-service.ts`, `SM/manager/server.ts`) | port leases, service records, containers | lease, run, register, roll back, release | a registered service is served, a failed launch leaves nothing |
| storyboard run queue (`AS`, `SB/src/run-system.ts`) | job files, the active run, the record of the latest success | post, drive, capture, record, cancel, restart | a record vouches only for what was shot, no failure blocks the queue |
| dashboard terminal server | sessions, attached sockets | attach, displace, input, exit | one client writes to a session |
| workspace persistence | a request and its run | request, run, clear | a request is neither lost nor run twice |
| dashboard, access, projects, workbench, graph, other UIs | documents, snapshots, proxies, views | mostly sequential reads and writes | see PROJECT.json |

A post appends to the transcript and calls `processSessionQueue`, which starts a coroutine
unless the session is in `activeSessionRuns`; the coroutine awaits the provider adapter and
in its `finally` drains the queue again. The reply that ends a turn is given to the ticket
store, whose events are appended to the transcript and may start the next turn. The watchdog
appends nudges and blocks tickets. All three write through to disk and are rebuilt from it at
start-up. The browser reads the chat by HTTP and by a socket,
and orders the answers of both by what it has shown. Managers, workers and dashboards are
connected by sockets and HTTP and share nothing with agent chat but the host; the storyboard
access server is a process of its own that drives one browser.

Concurrency is hard in the engine (posts, ends, interrupts and retries compete), the client,
the swarm manager and launches; crashes in the three stores and the run queue; lost
connections between worker and manager; retries and time-outs in engine, adapters and
watchdog. `PROJECT.json` lists every hazard at its line with the properties that cover it,
and every part with what of it is modelled.

## The modules

| Module | Models | Runs |
|---|---|---|
| `TurnQueue` | what the queue of a session promises: deliveries go forward only, a turn takes those of one participant and none before the last turn ended | (through `SessionRun`) |
| `SessionRun` | the turn engine of one session | `session_run`, one violation |
| `ProviderSilence` | the engine when a provider may go silent for good, and what it promises in the end | `session_run_live` |
| `SessionRunProofs` | its invariant, its safety properties, and that it implements `TurnQueue` | |
| `AgentTickets` | tickets, bindings, their files, replies, watchdog blocks, config patches | `ticket_steps`, `ticket_bindings` |
| `AgentTicketsProofs` | their invariant, the checklist, the files and what handlers promise | |
| `DurableTranscript` | what the transcript of a session promises: readers' view only grows while a handler works, and only a kill during one, or the recovery after it, takes back | (through `TranscriptStore`) |
| `TranscriptStore` | memory, message file and index of one session's transcript | `transcript_store` |
| `TranscriptStoreProofs` | its invariants, durability, and that it implements `DurableTranscript` | |
| `SessionWatchdog`, `SessionWatchdogProofs` | the timer of one session and all that arms, drops and fires it | `session_watchdog` |
| `CodexTurn`, `CodexTurnProofs` | turns and stops of several sessions on one codex app-server | `codex_turn` |
| `ChatClient`, `ChatClientProofs` | the client's sessions, socket and views against the server | `chat_client` |
| `WorkerLink` | both ends of a worker's connections, and what the manager shows | `worker_link` |
| `ServiceLaunch` | launchers, leases, records and containers of one worker | `service_launch` |
| `SwarmManagerProofs` | the proofs about both, which share no name | |
| `StoryboardRuns`, `StoryboardRunsProofs` | the runs of one frame on the access server | `storyboard_runs` |

`MC*` modules and their `.cfg` files are the instances for TLC. Nothing composes engine and
stores yet: a finished handler of the engine is one step of `SessionRun`, which takes the
store as atomic; `TranscriptStore` shows what that step turns into when the process is killed
inside it, and `AgentTickets` what the reply at the end of a turn does. `SessionRun` assumes
nothing of when an adapter settles; `CodexTurn` shows when that of codex does, and `ProviderSilence` what the engine still
promises when one does not. `SessionWatchdog` keeps of the engine
that one turn runs and takes what waits, and of the tickets their status and attempts.

### SessionRun

One session, because sessions share nothing the engine depends on. The variables `mail`,
`settings`, `thread`, `process` and `instructions` are the canonical store; `active`,
`runtime`, `runs` and `interrupts` are memory and are lost by `Restart`; `asked` and `stopped`
are history. Each action is a stretch between two awaits and includes the call to
`processSessionQueue` the code ends it with:

| Code (`AC/index.ts`) | Action |
|---|---|
| POST `/messages` | `PostMessage` |
| PATCH of title or directory; of the process; of the provider | `PatchInstruction`; `ChangeProcess`; `SwitchProvider` |
| `processSessionQueue`, start of `runProviderTurnForQueuedMessages` | `ProcessQueue`, `BeginTurn`, `NothingToRun` |
| `onRunStarted`; success, `catch`, back-off sleep, `finally` | `TurnStarted`; `TurnSucceeded`, `TurnFailed`, `Retry`, `EndTurn` |
| POST `/interrupt` and its `.then` | `Interrupt`, `InterruptAnswered` |
| start-up | `Restart` |

The code returns early from a PATCH after the parts it has applied, so every part is a step
of its own. A new title and a new working directory behave alike and are one action.
`ChangeProcess` appends one message for the two or three ticket events and the notice that the
code queues together in one stretch. Coroutines live in `Slots`; there is one more than a correct engine
uses, so that a second turn can show. Messages from other agent participants, streamed
deltas and activity entries are left out: none is read by the control modelled here.

### ProviderSilence

`SessionRun` with one more variable: `silent` are the coroutines whose provider will never end their turn.
The `for await` over a Claude query has no time-out (`AC/claude-provider.ts:270`), a request of the codex
handshake is only settled by its answer (`AC/codex-provider.ts:331`), and a provider that shows activity may be at work for ever.
`GoesSilent` can happen to any turn, started or not; `EngineStep` is any step of the engine that does not end such a turn
(it may still report its id). The module assumes `Faults = {}`, since restarts and
switches strand messages on their own.

### AgentTickets

A checklist is the list of its executable steps in the order of `flattenExecutableSteps`;
container statuses are derived from it by the code. Options of a decision have the outcomes
of `resolveDecisionOption`. Memory changes at once, and the writes that a handler makes are
taken one at a time from `writes`, so a restart can come between the ticket file and the
index. `ConfigRequest` and `ConfigPatch` are the two halves of a handler that awaits its body
in between. Left out: texts (title, summary, resolution) and what
`specializeActiveTicketMetadata` does with them, a session created with a ticket in place (a
reassignment to a new session has the effect of one to an existing session), and a `goto`
whose target is a container.

### TranscriptStore

A transcript is a version per message: 0 absent, higher with each edit or mark. A handler
changes memory in one step and leaves its writes, which are taken one at a time in the order
of the code, the last one standing for the answer to the caller. `count` and `row` are the
message count in memory and in the index; `fresh` says whether the index has recorded the
files as they are. `Restart` may come at any point; `Stops` says whether it may come inside
the rewrite of `messages.jsonl` ("torn"). Left out: index writes that fail, the import of the
legacy database and the migration of inline texts to attachments; the row of the session
exists from its creation.

### SessionWatchdog

Time passes in ticks, and `timer` is what is left of the session's timer. Handlers differ in what they do to it:

| Handler (`AC/index.ts`) | Action | Timer |
|---|---|---|
| whatever changes the runtime: posts, turns, activity, stops and their answers, typing | `Post`, `StartTurn`, `Drain`, `TurnSucceeds`, `TurnFails`, `Activity`, `Report`, `Stop`, `StopAnswered`, `SetUserTyping` | `RuntimeChanged`, the scheduling in `setRuntimeState` (2549) with the state the handler leaves |
| change of the process, activation of a ticket, start-up | `SelectProcess`, `ClearProcess`, `ActivateTicket`, `Restart` | `Schedule` |
| selection of a step (3189), reassignment to another session (3230), PATCH of the process config (3071) | `SelectStep`, `ReassignAway`, `PatchConfig` | `KeepTimer`: nothing arms or drops it |
| other PATCHes of the session | `EditSession` | either |
| `maybeTriggerSessionWatchdog` (1659) | `TurnAway` (an early return), `BlockTicket`, `Nudge` | dropped; `Nudge` arms it again |

A post of the operator to a running turn changes no runtime and so leaves the timer too. A turn is started and drained as the
engine does it, reduced to what waits: messages of the operator (`human`) and ticket events, prompts or messages of other
participants (`prompts`); an answer to a stop may come after its turn (`stopping`). Four variables are history: `grace` (the timer waits for the
end of typing), `lapsed` (the watch of a running turn was dropped), `early` (a step was prompted or selected under a timer
armed before) and `forgotten` (a handler that arms no timer has made the session one to be watched). The last two are what the code does in `KeepTimer`, and the
properties are about the rest. Left out: processes without a checklist, which take the same path as one whose ticket is done.

### CodexTurn

A turn of `runCodexTurn` goes from probing through the requests of the handshake to the await
of its completion; `run[s]` has its phase, its socket, the promise of the completion and what
the app-server does with its turn. `SocketGone` is what the listener of close and the time-out
have in common: both reject the completion, and neither settles a request that is awaited
(`Stranded`, which also names a request awaited after the turn's completion, as that clears the time-out). `interruptCodexTurn` has a
connection of its own and no time-out: the app-server may leave it without an answer (`StopSilenced`), and a socket that closes under its
request is not noticed (`StopGone`). `startup` is the promise that
concurrent turns share. What the app-server does (become ready, start and complete turns, die)
is modelled from how the adapter uses it. `orphan` is a turn that runs on the app-server while
nobody waits for it; `broken` is history.

### ChatClient

A transcript is the number of its changes, a view the set of changes shown. An answer is
computed at one moment by the server and applied at a later one by the client, so windows
(`cache`), other calls (`calls`) and the socket may arrive in any order. Only the present
socket is kept: every listener of a replaced one returns. `stale` and `overtaken` are history:
an answer older than the stream was applied, and a session was created while an opening was
awaited. Left out: the outbox, drafts, and paging to older messages.

### WorkerLink

A connection has two ends: `wire` are those that still carry messages, `server` is the
manager's end and `current` the agent's. Each end notices a loss in an action of its own.
`live` is the status in `liveWorkers`, which is never forgotten but by a restart, `late` the
age of its heartbeat, `inventory` the status derived from EC2 and the log, `latest` the newest
lifecycle event. `Authenticate` replaces an older session, whose close handler runs within the
call or later. Faults are counted: a lost link, a connect that fails, the death of the agent, a stop of the
instance, a restart of the manager.

### ServiceLaunch

One worker. `Lease`, `RunContainer` and `Register` may fail or lose their answer; a failure is
undone by `RemoveContainer` and `ReleasePort`, two steps that may fail in turn. `Allocated` is
`allocatePort`. Operators release services and remove containers; a release of a port by hand is left out. An instance is `irregular` when a removal failed, or
somebody else or a lost answer has interfered with it; the properties are about the others. A launcher that is
killed is not modelled: it leaves what a failed launch with a failed roll-back leaves.

### StoryboardRuns

All runs are of one frame and one variant, so they write one image and one record. The image is
known by the version of the storyboard that drove the app (`Other` for any other picture), and
freshness compares record, storyboard and image. `Drained` is `drainRunQueue` up to its first
await: the oldest queued job runs or is refused. `Arrive`, `Screenshot` and `Complete` are the
stretches of `executeRunJob` between awaits; the status is written over whatever is in the
file, as the code does. A command that exceeds its time-out is killed, but that ends only the command (`AS:598`): the
browser may still write the screenshot (`Abandon` leaves it in `late`, `LateWrite` writes it), and the ends of the command's
output are awaited without a bound (`AS:602`; `Hang`). `replaced` says that the image was put by hand or written
late since the driven run shot it. Left out: logs, validation and the other inputs of freshness
(manifest, runner, build), which do not change during a run.

## The runs

| Run | Instance | What it shows |
|---|---|---|
| `session_run` | 3 messages, 2 providers, 1 process with a checklist, 2 slots, 1 interrupt, switches and restarts | one turn at a time; a status that tells the truth; a thread of the present settings; delivery once; only a restart or a switch strands a human message; a process line waits for a human; the engine implements `TurnQueue` |
| `session_run_live` | 2 messages, tags, neither switch nor restart, providers that may go silent, fairness | every turn ends unless its provider is silent for good; every human message is taken or waits behind such a turn |
| `ticket_steps` | 4 steps, a decision with six options, one nested step, 2 tickets of one session | checklist and current step agree; nothing ahead is done; attempts are attempts at this step; the system blocks only the third |
| `ticket_bindings` | 2 sessions, 2 tickets, with and without a config to confirm | an active ticket is the session's own; files equal memory between handlers; the index never names a missing file; a restart keeps session and step; only a stale PATCH takes back a confirmation |
| `transcript_store` | 3 messages, 3 versions, kills between any two writes | no acknowledged message is lost; no acknowledged change is lost unless a kill hit while the file lacked one; a restart between handlers is invisible; the three places are one transcript (`DurableTranscript`) |
| `session_watchdog` | time-out of 2 ticks, typing grace of 1, a process without and one with a limit of 2 nudges, fairness of time | only handlers that arm no timer leave a session to be watched without one; prompts keep their distance unless a step is selected or confirmed under an older timer; a stuck step is given up even if its turn never ends |
| `codex_turn` | 2 sessions, stops of one, losses and crashes, fairness | no turn is left running without a loss; a success is one's own; a turn settles unless a request of its handshake is stranded, a stop unless it is stranded or never answered |
| `chat_client` | 2 sessions, one of them created during the run, one call beside an opening, fairness | what was delivered is shown; the socket follows the screen; a calm screen catches up |
| `worker_link` | 3 connections, 2 faults, fairness | one open session; the status comes right in the end |
| `service_launch` | 2 ports, 3 instances, 2 launchers | a registered instance is served on its port; a failed launch leaves nothing |
| `storyboard_runs` | 3 runs, 2 versions of the storyboard, 1 restart, fairness | a record vouches for what was shot, unless the image was replaced after the shot; only a cancellation is written over; every run ends unless a command hangs or a restart left it behind |

The bounds: three messages let one be in a turn, one wait behind it and one arrive at the
end; two providers are all the code has; a second interrupt request behaves as the first
does, since its answer reads only the state it finds; four attempts are the code's own limit
and not a bound of the model. Four steps put a step before, inside and after a decision.
Two sessions and two tickets are the least for a move that leaves one ticket behind; a third
would be a copy. Three versions let a message be created, marked and edited. Two ticks tell a new turn, one that is
half silent and a stalled one apart, and let the grace end before the time-out (three with a grace of two were checked once, with the same result); a limit of two
nudges is reached before the third attempt, no limit after it. Two codex sessions are the least
that share a start. One call beside an opening lets an answer of either kind come first; a second
call of the same kind would replace the view by an equal or older window once more. Three
connections let an agent be back while two older sockets are still to be noticed; two faults lose
one of them while it replaces another (three were checked once, with the same result). Two ports
for three instances make a launch find none free. Three runs let one be driven, one wait and one
be cancelled. The number of
messages is the only bound that stops engine and tickets, which is why their runs
do not check for deadlock; that a turn in progress ends is checked by `EveryTurnEnds` instead. The client
stops when every transcript has had its changes and the screen is closed, and a codex session
whose turn is stranded never begins another, so those two runs do not check for it either.

Fairness (`session_run_live`): `Retry` and, while its provider is not silent, `TurnEnds` are weakly fair for each coroutine.
The back-off is a timer that nothing cancels. An adapter ends a turn on the provider's last event, on an error or, for codex, by its
time-out; that a provider brings any of these is not assumed, as `GoesSilent` is always possible.
No client action is fair. With a switch or a restart a waiting message may wait for ever
(that is what `OnlyRestartOrSwitchStrands` delimits), so that run has neither.

The other runs with liveness assume as little. `session_watchdog`: time passes and a due timer
fires; no turn need ever end. `codex_turn`: a settled promise is noticed, the attempts to find the
process ready run out and silence is timed out, all timers or microtasks of the adapter; of the
app-server nothing is assumed, and a stop it does not answer is one of the two exceptions of the property. `chat_client`: timers fire and answers
under way arrive, in the absence of failures, which `CalmScreenCatchesUp` supposes from some
moment on. `worker_link`: the agent's timers and socket events, the manager's handlers and its
sweeps; no fault is fair. `storyboard_runs`: a command of agent-browser that does not hang ends, or is killed by its
time-out (`AS:581`), but `Hang` is always possible and leaves the browser taken; posts, edits and cancellations are not fair.

### Where code and documents disagree

The run `stop_hits_only_its_turn` checks a statement of the blueprint that TLC refutes;
PROJECT.json quotes it under "findings": an interrupt is answered after its turn ended, and the
next turn is interrupted as it starts.

Seen while modelling, with no run of their own. In agent chat:

- A process change made during a turn starts a turn of its own when that one ends
  (`AC/index.ts:3704`, `AC/store.ts:718`), although `blueprints/agent-chat/agent-chat.agentish.ts:174` says
  that it "remains only a queued next-turn instruction until the operator later sends a real message".
- A ticket turn consumes the outline lines of a queued process but leaves its first line (`AC/store.ts:1176`); the same
  blueprint (173) says that process changes "remain queued provider-facing instructions until the next explicit
  human-send turn consumes them".
- A current step nested in a decision option is never heard from the agent (`AC/index.ts:1271`), although the agent
  should be able "to complete only the single current next step derived from the pinned process snapshot".
- A kill inside a reassignment, between the ticket and the index, lets a ticket be active in two sessions
  (`AC/agent-tickets.ts:1292`): "A ticket may be active for only one chat session at a time."
- After a restart the list of a session lacks its unbound tickets, since only bound ones are loaded
  (`AC/agent-tickets.ts:1679`).
- A kill inside the in-place rewrite of `messages.jsonl` truncates it, and the reconciliation then rebuilds the
  SQLite rows from the empty file (`AC/store.ts:1964`), although the transcript is "the durable event record"
  (same blueprint, 301). In `TranscriptStore` this is `Stops` with "torn", which the theorems exclude.
- A batch queued for one provider stays queued for it when the session is switched to the
  other (`AC/store.ts:718`, `AC/index.ts:3762`); nobody takes it until the switch back.
- Clearing a process keeps its outline lines among the queued instructions (`AC/index.ts:1563`, `AC/store.ts:1143`).
- A reply that confirms a config is not heard while the ticket has no current step (`AC/index.ts:1276`),
  although the prompt asks for it then (`AC/index.ts:1212`).
- The outcome `next` of a decision leads into the steps nested in its options
  (`AC/agent-tickets.ts:1511`), and a `goto` that finds no step completes the ticket (`AC/agent-tickets.ts:1484`).
- A token that blocks a ticket which is already completed leaves a blocked ticket without a
  step, which no comment resumes (`AC/index.ts:1043`, `AC/agent-tickets.ts:1098`).
- New overrides for a blocked ticket rebuild its checklist, keep its status and forget who blocked it
  (`AC/agent-tickets.ts:864`).
- A restart cancels a pending flush for good (`AC/store.ts:1970`): the file lags behind the index until the next change.
- A PATCH that names several parts applies the earlier ones before it answers 400 for a later one
  (`AC/index.ts:3667`), and the answer of a post says `started` exactly when a turn was already running (`AC/index.ts:4095`).
- A process killed again and again before a system block is written counts attempts past three (`AC/agent-tickets.ts:1143`).
- The end of typing during a turn that is not stalled yet drops the watch of that turn (`AC/index.ts:1672`), and a
  post to an unwatched running turn does not arm it again (`AC/index.ts:4081`): `lapsed` in `SessionWatchdog`.
- The selection of a step makes a blocked ticket active and arms no timer (`AC/index.ts:3189`), nor does a reassignment for the session it
  takes the ticket from (`AC/index.ts:3230`): the session is not watched until something else happens to it (`forgotten`). The confirmation of a process config counts as a
  prompt and leaves a running timer as it is (`AC/index.ts:3164`), as the selection of a step does, so the next prompt may follow sooner than the time-out (`early`).
- A completed ticket whose config is still pending can be confirmed, which gives it a current step (`AC/agent-tickets.ts:834`).
- A nudge of a stalled turn is only queued behind it: the turn is neither continued nor interrupted, although the
  blueprint (416) asks for "immediate ticket-owned continuation instead of waiting forever". The step is blocked in the end.
- The end of typing nudges an idle session at once, before its idle time-out (`grace`).
- A codex request that is awaited on a socket that closes or times out never settles (`AC/codex-provider.ts:331`): the
  turn is in progress until the server restarts, and so is one that codex completes before it has acknowledged it. A stop has no time-out at all,
  nor has the stream of a Claude query (`AC/claude-provider.ts:270`): messages posted to the session wait behind such a turn (`ProviderSilence`).
- A codex turn that timed out runs on in the app-server while the engine retries on the same thread, and the listener takes
  any `turn/completed` of the thread for its own (`AC/codex-provider.ts:495`).
- A completion rejected while the handshake is still awaited is a rejection nobody handles; the model
  takes it that the server survives it.

In the client: `createSession` does not retire an awaited opening (`UI/AgentChatV2Store.ts:1383`), whose
late answer takes the screen back to the old session while the socket feeds the new one (`overtaken`);
a late window or snapshot drops messages the socket has delivered, until the next window (1301, 831; `stale`);
a send that fails puts its text in the composer of whatever session is shown (996); outbox entries are
resolved by role and content (493); a draft typed while a send is under way is cleared when it succeeds.

In the swarm manager: `liveWorkers` forgets no worker, so a terminated instance that was ever connected
stays "disconnected" and gets no "terminated" event until the manager restarts
(`SM/manager/server.ts:1241`); a socket that is replaced and closes within the same millisecond
leaves "disconnected" as the latest event of a connected worker until its next heartbeat; an agent whose clock is ahead hides later
events until the clock is caught up. Launching an explicit instance that runs fails on the container name, and
its roll-back releases the running service's lease (`SM/manager/launch-service.ts:311`, by worker and port, whoever owns it); the port then goes to the
next launch, whose `docker run` fails on it and leaves a created container of that name; a lost answer of
register leaves a healthy record without a container, one of lease leaks the lease.

In the storyboard access server: a cancelled run that is driven goes on and its file becomes capturing, succeeded or
failed (`AS:999`, `AS:1043`), against `SB/docs/access-server-run-system.md:144` ("A terminal job never returns to a
non-terminal state"); after a restart nothing is drained and running jobs stay running, because
`markNonTerminalJobsOnRestart` has no caller, against line 345 ("On server restart, non-terminal jobs must become a
terminal `failed`, `expired`, or policy-defined `recovered` state"); a run to a state records the hash of the old
image, and the asset fallback takes a screenshot of it, so a stale frame is shown unchanged; an image that is put by hand (`AS:1213`), or written late by
a browser whose command was killed (`AS:598`), between the screenshot and the hash (`AS:1011`) is recorded as shot; a killed command whose output stays
open is awaited for ever (`AS:602`), and no further run is driven until the server restarts.

## The proofs

All theorems are checked by tlapm to the last leaf, and hold for every value of the
constants that satisfies the named assumptions of its module.

**SessionRun** (`SettingsAssumption`, `TagsAssumption`, `ProcessesAssumption`,
`RolesAssumption`: the names are distinct and the maps have their types; the number of slots, messages,
settings and requests is free). `IInv` is `TypeOK`, `OneTurnAtATime`, `StatusTracksTurn`,
`ThreadMatchesSettings`, `TakenMessagesAreSeen` and `RunsWellFormed`. The last is the
strengthening: a live coroutine has settings of the session's kind, without which "seen by its
participant" has no meaning, and one that backs off has an attempt left, without which `Retry`
would leave the type. One turn needs the status (a post sets "queued" only when nothing is
active, and the drain replaces it), and the drain is the same argument in three handlers, so
`DrainStep` and the lemmas before it are shared. From `IInv`:

- `TypeCorrect`, `SingleTurn`, `StatusIsTrue`, `ThreadIsOfSettings`, `TakenOnce`: its parts;
- `NoLostWakeup`: a drain leaves no human message waiting without a turn, and no other step
  but a switch or restart touches what waits;
- `InstructionWaits`: a drain that consumes the prefixed lines has a human message in its
  batch, and its run differs from the one that ended because that one's messages were seen;
- `Refinement`: under the mapping `Delivery` every step is a `TurnQueue` step. What is taken
  (`Taken`) is exactly what is "running"; a step either takes nothing new or takes messages
  that were not seen, which therefore do not belong to the turn before (`TakesUnseen`).

So every safety property of `session_run` is proved.

**AgentTickets** (`NamesAssumption`, `StepsAssumption`, `OptionsAssumption`, `TemplatingAssumption`,
`StopsAssumption`: a process has a step, a branch lies ahead of its decision, names are distinct;
sessions, tickets, steps and options are free). The proof has two layers. `Good` is about one record: nothing beyond the
current step is done, attempts are only counted at an active ticket's step, and, unless the ticket has a config, its
marks show its step (`ShowsStep`). Every operator on records keeps it (`CompleteIsTicket`, `ChooseIsTicket`, ...); that
the next step lies ahead is `LeastStep`, which takes the minimum from the well-foundedness of `<`. `Plan` is about where a record is kept: it says of the writes
still due that the last one of a ticket brings what memory holds, or, when there is none, the file holds it
already (`Brings`, `Spares`), that the last index write publishes the bindings of memory (`Publishes`), and that an index write names only tickets
that have a file by then (`Named`). `IInv` is `Good` of every record in memory, in a file and in a write, `Plan`, and the same naming of
the files now (`FilesOK`). It is proved once for a save and once for an index write (`PlanTicket`, `PlanIndex`), and each handler is a sequence of these.
A kill drops the writes and reads the files back, which `IInv` allows for all `Stops`:

- `TypeCorrect`, `AheadIsPending`, `FilesHoldMemory`, `IndexHasFiles`, for every `Stops`, kills between two writes included;
- `PlainChecklistIsExact`: every ticket without a process config shows its step. A ticket with a config can
  complete or be stepped while its checklist is not shown yet, so `ChecklistIsExact` has the hypothesis
  `TRUE \notin Templating`, as the run `ticket_steps` does;
- under `"crash" \notin Stops`, as in both runs: `ActiveIsOwn`, `FocusIsKept`, `AttemptsAreCounted`,
  `SystemBlocksAtThird`, `ConfirmationIsKept`. With a crash between two writes they are false: a move that is cut
  leaves a ticket active in two sessions, and an older record brings older attempts back (both under "Where
  code and documents disagree"). The last three are about a step, and
  their lemmas (`Promised`) say of each handler what it may do to a record: continue it, or start it over.

**TranscriptStore** (`MessagesAssumption`: the messages are finite, `VersionsAssumption`,
`StopsAssumption`). The theorems have the hypothesis `"torn" \notin Stops`: with torn
stops a kill inside the rewrite of `messages.jsonl` is a counterexample. `IInv` states how far memory, file and index may
differ: the file has every message of memory whose line is not due (`FileHasMemory`), the rows,
or the file they are about to be rebuilt from, are memory but for what is due (`RowsAreMemory`),
the file has every message the rows have (`FileHasRows`), what was told is in the rows
(`ToldIsKept`), the count agrees with memory, and with the row unless a write of it is due (`Counted`), and the
writes still due are in the order of the code (`WritesInOrder`), which is where the proof uses
that a line is written before its row. `MessagesSurvive` and `RestartIsInvisible` follow: with
nothing due, index and memory are the same, and the count chooses the index.

Those two are about which messages there are; `ChangesSurvive` is about their versions and needs a second invariant, `CInv`.
Unless a kill has hit while the file lacked an acknowledged version (`unsaved`), memory and rows are not behind what was acknowledged
(`Current`), and the file, whenever it is about to replace the rows, is not either (`FileReplacesSafely`). That the file is used
at the right time depends on `fresh`: a handler that writes metadata or a line still has a row or upsert to write after it
(`Freshened`), and once nothing but the answer is due the index is as fresh as the file (`DoneIsFresh`).

`Refinement` shows that memory, file and index together implement `DurableTranscript`. The abstract view is what readers get, and
once an index write that replaces the rows is due, the file it takes them from (`Seen`); a handler is the time in which writes are
due, its answer the last of them, and every other write a stutter (`WriteSeen`). What the reconciliation finds different
(`Shaken`) must come from a kill inside a handler: that a restart between two handlers adds nothing needs a third invariant,
`Settled`: of a session that is reconciled, either the row has the states of the files or the file is what readers get. A handler
that left a stale row beside a different file would break it (`LastWrite`). What a kill or the recovery takes back is bounded by `SeenKeeps`.

**SessionWatchdog** (`TimesAssumption`, `LimitsAssumption`). A timer says nothing by itself about what it was armed for, so `IInv` relates it to
what passes with it: it is not due before the operator has stopped typing (`WaitsForTyping`), and at an idle session
whose step was prompted not before the time-out since then, unless it was armed for the end of typing or before the step
was prompted or selected (`WaitsForTimeout`). With `RunIsShown` (a running turn has the status of one) and `NobodyIsForgotten` this is
inductive. `ScheduleWatches` shows that arming establishes both, whatever state a handler leaves, so a handler only has
to show that it leaves a state (`ArmedKeeps`). The handlers that keep the timer keep both too, but for what their history variables
record (`KeptKeeps`); `Tick` keeps them because all clocks advance alike. `NobodyForgotten` needs `WaitsForTyping`: a timer
that is due is never turned away because of typing, so an idle session it is turned away from is resolved or
blocked. `PromptsApart` is `WaitsForTimeout` at the moment the timer is due.

**ChatClient** (`SessionsAssumption`, `ChangesAssumption`). `IInv` adds to the types that a socket and an
answer belong to a session, and that an awaited opening is of the session on the screen unless a
created one overtook it. `DeliveredIsShown` follows because a view is replaced only by a window that is at
least as new or that sets `stale`; `SocketIsOfScreen` because only `OpenSession`, `CreateAnswered` and the
reconnect connect a socket, and each for the session it shows.

**CodexTurn** (`StoppedAssumption`). The strengthening `Good` relates a turn to its orphan and its broken socket: a rejection
needs a loss, a resolution the turn's own end or an orphan, a remote turn a request that was sent.
`NoOrphanWithoutLoss` and `SuccessIsOwn` are two of its conjuncts.

**WorkerLink** (`BoundsAssumption`). `OneSession`: `OneOpenSession` is inductive together with the types of the server (`ServerTypeOK`), because an authentication
closes the session it replaces and a close takes away only its own.

**ServiceLaunch** (`PortsAssumption`, `InstancesAssumption`). `LaunchInv` says of every instance that is not irregular
(`Regular`): at most one launcher is under way for it (`Alone`); while one is, there is no record, no lease but
the port it holds, and a container as its phase says (`OnItsWay`); a registered one is served; with nothing under way and no record
there is no lease and nothing runs. `RecordServed` and `FailureLeavesNothing` follow; they hold although a stray roll-back
may take the lease away: `register` then leases the port again or fails, and Docker holds it meanwhile.

**StoryboardRuns** (`RunsAssumption`, `SpecsAssumption`). `IInv` says that the driven job has not ended (`ActiveIsOpen`), that between screenshot and record
the image is the driven one unless it was put by hand or written late since (`ShotIsOfDriven`), and the same of the record, whose `how` then
says "replaced" (`RecordIsOfShot`). `OldestIsQueued` gives that the drain starts a queued job; `RecordVouches` and `EndsAreFinal` follow.

Only model-checked: liveness (`EveryTurnEnds`, `QueuedMessageIsTaken`, `CalmScreenCatchesUp`,
`TurnSettlesOrStrands`, `StuckStepIsBlocked`, `LinkSettles`, `EveryRunEnds`), which is out of the prover's
reach. Every safety property that a run finds to hold is proved.

## The plan

1. *Extend.* `TerminalSessions` (attach, displace, detach and exit of shell sessions;
   `dashboard-terminal-server/src/index.ts:455`); `WorkspacePersistence`; failing index writes in `TranscriptStore`
   (`AC/store.ts:1889`); a launcher that is killed; the composition of `SessionWatchdog` with `SessionRun`.
2. *Prove.* Safety of what the models say today is proved. Left is what the runs do not state yet: an abstract ticket of one session,
   with `AgentTickets` shown to implement it; and the invariants of the models still to be written.

## Not modelled

The views of the user interfaces, the read-only dashboards and the health API (proxies and charts of
sampled values without control of their own); the graph layers (pure functions of parsed documents);
the parsing of process documents and catalogs; AWS, CDK and shell scripts; the dashboard runtime, which
builds and swaps releases through the shell; projects, workbench and facebook servers, which read and
write one document whole; metric samples of the swarm manager. These are most of the repository's lines:
what is modelled is its control. The notes of the components in PROJECT.json say so one by one.

## Running

`tlc -config MCSessionRun.cfg MCSessionRun` for a run, `tlapm SessionRunProofs.tla` for a
proof. `session_run`, `ticket_bindings`, `session_watchdog`, `codex_turn`, `chat_client`, `worker_link`, `service_launch` and
`storyboard_runs` take a minute or two, the others seconds.

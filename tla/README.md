# A formal model of Acepe's server core

Acepe is a desktop application that drives coding agents. Its server
(`src/packages/server/src`) is event sourced: a single writer appends events to
a SQLite log, and everything else (the read model commands are decided on, the
read tables, the provider sessions, the clients) follows that log. This
directory holds TLA+ modules for that core, the TLC runs that check them on
small instances, and TLAPS proofs for every instance.

## 1. Inventory

| Component | State it keeps | Operations | What makes it correct |
| --- | --- | --- | --- |
| Orchestration engine (`orchestration/Layers/OrchestrationEngine.ts`) | command queue, in-memory read model, PubSub, the worker's place in an envelope | `dispatch`, `appendEvents`, `latestSequence`, `streamDomainEvents`, boot, shutdown | a command takes effect once; answers are durable and consistent; subscribers see the log; every call is answered |
| Event store and receipts (`persistence/Layers/OrchestrationEventStore.ts`, `OrchestrationCommandReceipts.ts`) | `orchestration_events` (UNIQUE event id), `orchestration_command_receipts` | `append`, `readFrom`, `record`, `replay` | append only; one receipt per command, committed with its events |
| Deciders and projector (`orchestration/decider.ts`, `acpDecide.ts`, `gitDecide.ts`, `mcpDecide.ts`, `terminalDecide.ts`, `voiceDecide.ts`, `commandInvariants.ts`, `projector.ts`) | none (pure) | `decide`, `projectEvent` | the fold keeps what the invariants read; uniqueness rules hold of the log |
| Projection pipeline (`orchestration/Layers/ProjectionPipeline.ts`, `persistence/Layers/ProjectionState.ts`) | per projector: fiber, cursor, live queue, health; durable checkpoint and tables | start, catch-up, live, restart, `rebuild`, `health` | every announced event applied once, in order; a stopped projector says so and recovers |
| History importer (`history/importer.ts`) | two reads of `latestSequence` | `importSessionFile`, `importDirectory` | what an import returned for is in the tables; it does not disturb the projectors |
| Event stream and resuming client (`rpc/handlers.ts`, `packages/contracts/src/rpc.ts`) | per stream: live queue, replay, last sequence; per client: its cursor | `events`, resume | a client that starts at a snapshot's sequence sees the rest of the log once, past any failure |
| Event channel of the desktop application (`rpc/encodedBoundary.ts`, `packages/desktop/src/bun/index.ts`, `packages/desktop/src/lib/rpc/client.ts`) | one live pusher, one fiber per replay, one channel; the listeners of a window | `events` request, push | every listener is handed every event above its cursor once, in order |
| Session snapshot (`orchestration/Layers/ProjectionSnapshotQuery.ts`) | none | `snapshot` | its rows and its sequence agree |
| Provider bridge (`provider/Layers/ProviderBridge.ts`) | adapters, forwarding fibers, recorded modes, models, options and roots, claims, a failure counter | reaction to nine event types, live and at boot | work reaches an agent once; settings survive restarts and deaths; a failure is recorded; a session that never registers, dies or refuses does not hold up the others |
| Claude session (`provider/Layers/Claude/{Adapter,Session,Permissions,Watchdog,Process}.ts`) | a sequence of SDK queries with generations, the open turn and its last activity, pending permissions, mode and model, a watchdog fiber, a scope | `startSession`, `sendPrompt`, `cancelTurn`, `setMode`, `setModel`, `respondToPermission`, recovery, `shutdown` | a replaced query does not end the session; a permission is answered or denied; a silent turn ends |
| Other adapters (`provider/Layers/{Codex,OpenCode,Copilot,Grok,Cursor}`) | one process or connection each, turn and permissions | the same interface | as for Claude, without its watchdog |
| Checkpoint, terminal, git, file index, voice, skills, MCP, usage | files and processes | one service each | mostly I/O in sequence |
| RPC transport, desktop client, shell, QA tooling, website | presentation | | outside this development |

How they interact: a client calls `dispatch` over RPC; the service that owns the
command's data fills it in first; the engine decides, commits and publishes. The
projectors, the bridge and each client's event stream subscribe to the engine's
PubSub and, because a PubSub only carries what is published after they
subscribe, all of them also read the store. The bridge feeds provider events
back through `appendEvents`, so the engine stays the only writer. The importer
dispatches commands like a client and then writes two read tables itself.

Hard behaviours: failures at every await around a transaction (a commit that
succeeds and reports an error included); retries under the same command id;
crashes between commit, adoption and publication; the seam between a paged
replay and a live stream; fibers that are restarted, interrupted or rebuilt
while events arrive; two writers of one checkpoint; an SDK query that is torn
down while the SDK still asks something; a watchdog that measures silence while
a person thinks; a dispatcher that must wait for sessions that never come and for answers that may
not either; events that are durable and never announced; folds with retention caps
read back by guards. `PROJECT.json` lists these hazards with their lines.

## 2. Plan

1. `CommandLog`, `OrchestrationEngine`: the writer and its abstract promise. **Done, with proofs.**
2. `ReadModel`, `CommandHistory`: the pure core, also used by the engine's runs.
   **Done, with proofs.**
3. `ProjectionPipeline`: the read tables and the importer. **Done, with proofs.**
4. `EventFeed`, `EventStream`: the event stream and its resuming client, with
   the engine's lost announcements; `EventBroadcast`: the shared channel of the
   desktop. **Done, with proofs.**
5. `ProviderBridge`: the dispatcher, lazy opening, claims, settings, failures and
   the replay of a boot. **Done, with proofs.**
6. `ClaudeSession`: queries, generations, permissions, watchdog. **Done, with proofs.**
7. Left: a composition of the engine's publication with the pipeline and the
   streams, in place of their own `Commit` and `Publish`; `SessionSnapshot` (rows
   newer than the minimum of the checkpoints, and what a client that streams from
   there folds twice) with `SharedEventSource`; the other adapters; the terminal
   and checkpoint services.

## 3. The modules

### CommandLog

What the engine promises, with every queue, fiber, read model and failure left
out: `history`, and one `verdict` per command id given once and for good. A
command enters the history in the step that accepts it.

### OrchestrationEngine

| Model | Code |
| --- | --- |
| `log`, `receipts` | the two tables; the only state a crash leaves |
| `commandReadModel` | the engine's variable of that name: `seq` is `snapshotSequence` |
| `commandQueue`, `calls` | the unbounded queue of envelopes, and each envelope's Deferred with its caller |
| `worker` | where the single fiber stands in `processEnvelope`: `lookup`, `decide`, `commit`, `adopt`, `failed`, `record`, `answer` |
| `published`, `hydrated` | what the PubSub carried since boot, and the sequence boot reached |

One action is what the code does between two awaits that can fail. `Commit`
covers `commitAccepted` and `commitProviderEvents`: the transaction, receipts
included, is atomic because SQLite makes it so; `CommitAckLost` is a COMMIT that
reached the disk and still reported an error; `CommitRollsBack` is a failure or
a constraint. `Reconcile` and `RecordRejection` are the two halves of
`handleFailureEffects`, each with a failing twin, since the code ignores their
errors. `Abandon` is an interrupted caller; it may dispatch the same id again.

The deciders and the projector are constants (`Accepts`, `EventsOf`,
`Project`), so the theorems hold for every vocabulary. The runs instantiate them
with those of `ReadModel`. `WorkAssumption` states what the code makes true of
them: commands and batches differ, a batch is not empty, and a unit of work fits
in a page (a decider returns one event; the bridge appends one per call).

### ReadModel and CommandHistory

`ReadModel` is the decider and the projector: the commands grouped by the guard
their decider calls, and `ProjectEvent` for the event types a guard can read
back. Payload no guard reads is left out; message text is kept as the sequence
of its tokens. `CommandHistory` runs the two against each other and keeps every
event, so that the same question can be asked of the fold and of the history.
`VocabularyAssumption` says what the contracts' schemas do: a command carries the
identifiers of its type, and a provider session appends, of the event types that
are folded, only messages and tokens.

### ProjectionPipeline

| Model | Code |
| --- | --- |
| `head`, `announced` | the end of the store, and of what the engine adopted and published (`latestSequence`) |
| `abandoned`, `withheld` | the end of the store when a reconciliation was last lost, and the events the engine then passed over for good |
| `checkpoint`, `applied` | `projection_state` and the tables, as the list of events applied |
| `fiber` | one run of `runProjector`: subscribed, resumed, in one of two catch-ups, live, in backoff, or ended |
| `health`, `rebuilding` | `healths`, and how far a call of `rebuild` has come |
| `importer`, `imported` | the locals of `importSessionFile` and `applyImportedEvents`, and what imports that returned have promised |

`Commit`, `Publish`, `LoseReconcile` and `PassOver` stand for the engine. It
publishes in commit order and may lag (`OrchestrationEngine!PublishedIsLog`); but
when the answer of a commit and then the reconcile read fail, the event stays
unannounced until a later command reconciles (`Publish`), or succeeds and announces
its own events only (`PassOver`, which puts what is skipped into `withheld`;
`OrchestrationEngine.ts:312-315`). A live projector then checkpoints past the hole.
Commits are of one event; an `Announce` of several, in one commit or page of a
reconciliation, is several steps. The rest is `ProjectionPipeline.ts` step by
step; `ApplyPage` and `ApplyLive` each are one transaction of table and
checkpoint. `Boot` starts the engine and every projector; a projector subscribes
later, in a step of its own, so events may pass it before it does. The process
may end at any time and any number of times (`Exit`); what is volatile starts
over at the next `Boot`.

### EventFeed and EventStream

`EventFeed` is what a subscription promises: from the sequence it was opened at,
its consumer is handed the next event of the log, and the next, passing over
nothing but events the engine never announced (`withheld`: those whose
reconciliation was lost, which `OrchestrationEngine` has as `ReconcileFails`).

| Model | Code |
| --- | --- |
| `feed[s]` | `eventsFromSequence` for one request: `replay` is what `readAllFrom` has and the stream has not yet emitted, `last` its last sequence, `queue` the live queue |
| `client[s]` | `waiting` to resume, `reading` pages, `read`, `serving`; `closed` by its consumer, or `failed` on an error it does not resume from |
| `cursor[s]`, `received[s]` | the Ref of `makeResumingRpcClient`, and what came out of `exclusiveEvents` |

`Subscribe` stands before the first `ReadPage` because the code starts the live
fiber before it reads; `Serve` after the last one. `Disconnect` and `Restart`
throw away what the server and the transport hold; the client resumes at its
cursor. Events are sequences: the stream looks at nothing else of them.

### EventBroadcast

The desktop does not use `eventsFromSequence`. Its shell pushes live events from
one fiber (`live`, `PushLive`) and the history of each request from a fiber of
its own (`replays`, `ReadPage`, `PushReplayed`), all into one channel, and a
push reaches every listener (`Push`), each with its own cursor. `request` and
`pushed` are history variables: which replay a listener asked for, and what was
pushed while it stood. `RequestFails` is a request that fails before or after
the shell forked its replay; the client then resumes with a new listener.

### ProviderBridge

| Model | Code |
| --- | --- |
| `log`, `position`, `lost` | the committed events the bridge reacts to, how many are behind its one dispatcher fiber, and which of these were never announced to it |
| `bridge` | `sessionAdapters` (with `sessionProjects`, set and removed together), `sessionModes` and `sessionModels`, the claimed ids |
| `fiber`, `registered`, `agent` | the forwarding fiber of a session, whether its adapter knows it yet, and what the agent runs with |
| `dispatcher` | where the dispatcher waits: for the file system (`opening`), for a session to be registered or an adapter's answer (`calling`, with the settings and the command still to do and the retries left), for an answer that does not come (`hung`), or in the `replaying` of a boot |
| `failureSeq`, `recorded`, `raised` | the counter in the id of a `ProviderSessionFailed`, the ones the store took, and every one `appendFailure` was called with |
| `dispatched`, `failed`, `cut`, `dropped` | history: the calls that gave a command to an agent, each with its answer; commands whose call failed for good; those never announced, or not dealt with when a process ended; those passed over as their session could not be opened. A restart clears none of them |
| `refused`, `unopened` | history, of one boot: settings whose last application failed, sessions not recorded when they were created |

The nine event types fall into four: a session is created, a command for its
agent (`MessageSent`, `TurnCancelled`, `InteractionReplied`), a setting, a
removal. What an event records, live and in a replay, is one operator
(`Recorded`), since the code takes the same path with a phase. The actions
`Consider...` are the handlers up to their first wait; `OpenSession`,
`ApplySetting`, `DispatchCommand`, `RetryCall`, `CallFails` are what comes after
each.

* What an adapter can do is a constant. `Settable` has the pairs of a session and a
  setting whose adapter has `setMode`, or `setModel` (`supportsSetMode`,
  `supportsSetModel`); a setting outside it is recorded and never applied. `Answerable`
  has the sessions whose adapter has `respondToPermission`; a reply to any other
  opens the session and goes no further.
* A command is retried whatever failed (`RetryCall`), because
  `ProviderBridge.ts:697-699, 722-725, 759-762` say so, and the agent may have got
  it although the call failed (`AttemptFails`). A setting is retried only while its
  session is not registered (`SettingRefused` ends it at once).
* An answer may never come (`CallHangs`), or come after all (`CallResumes`).
* The dispatcher takes its events from the engine's publication. An event whose
  reconciliation was lost is passed over (`PassOver`). The model decides this when
  the dispatcher reaches the event and not when the engine loses it; the dispatcher
  looks at no event ahead of its position, so nothing tells the two apart.

The server takes no command before the bridge's layer, replay included,
is built (`bootstrap.ts:411-423, 457-476`), so `Commit` waits for the replay;
the listener that the code starts before the replay therefore has nothing to
race with. Whether the root exists is a choice at every opening. Left out: a
provider without an adapter, config options and the agent's environment, which
are handed over only when a session opens.

`MCProviderBridge` has two sessions of different providers: the adapter of `full`
takes the mode and replies (Claude), that of `bare` takes neither.

### ClaudeSession

| Model | Code |
| --- | --- |
| `query`, `current`, `generation` | the SDK queries of one runtime, in order; the one in `queryRef`; the Ref that a listener compares its own generation with |
| `registered`, `scope`, `ended` | the adapter's `sessions`, the session's scope, and whether `outbound` was ended |
| `turnOpen`, `silence` | `turnOpenedAtMs`, and how long ago `lastActivityAtMs` is: recent, past `turnInactivityTimeout`, past `permissionWaitTimeout` |
| `pending`, `decision`, `asker`, `shown`, `replies` | `pendingPermissions`, the Deferred of each request, the query blocked on it, what the operator sees, what the operator answered |
| `dispatcher`, `watchdog` | the call each of the two fibers is in, with what it read before its await |
| `modeId`, `needsReattach` | the Refs of these names (the model is kept as the mode is) |
| `refusing`, `modeRaced` | history: the queries that rejected the last switch they were asked for; a choice made while the watchdog waits for `createQuery` |

The fibers interleave at the awaits of the code: the interrupt of the SDK
(`CancelTurn`/`Cancelled`, `WatchdogFires`/`WatchdogClosed`, `ShutDown`/
`ShutDownDone`), a control request (`SetMode`, then `ModeSet` or, when a running query rejects it,
`ModeRefused`: the Ref has moved by then), and `createQuery`
(`Reattach`/`Reattached`, `WatchdogClosed`/`WatchdogAttached`), each of which can
fail. The SDK is external: a query that has a prompt and is not blocked may send
a message, a result or a signed-out answer, ask a permission, or die. A query
that is closed drops the prompts it had, which is why a prompt that arrives
while the watchdog rebuilds is lost. `silence` is kept at 0 while no turn is
open, since the code reads it only then; time and the SDK stand still once the
scope has closed. One bound, `MaxDisturbances`, is shared by cancels, mode
switches, deaths, failing consumers and `createQuery` calls, archiving, quitting
and reopening. Left out: the catalogue of models, the translation of the SDK's
messages, event ids.

Mutated definitions stand beside the ones they mutate, marked "Mutant". They
change the code the way a plausible bug would, and each property is violated by
one of them.

## 4. The runs

| Run | Question | Bounds |
| --- | --- | --- |
| `engine_faults` | Do all promises hold, and is no awaited call forgotten, with retries, lost callers, one storage fault anywhere but the reconcile read, a crash, a shutdown? Is `CommandLog` implemented? | 2 commands that claim one root, 2 batches that share an event id, 3 calls, 1 fault, 1 crash |
| `engine_liveness` | With the reconcile read failing as well, is nothing wrong published, is every call settled, and does a shutdown end? | 2 calls, 2 faults, 1 crash |
| `decide` | Does a command pass on the fold exactly when the history allows it? Are live roots unique as long as no project is moved onto a wanted one? Is a message the tokens committed for it? | 6 events, 2 projects, 3 roots, 1 session, caps of 2, 3 checkpoint ids, 2 messages |
| `decide_moved_roots` | Are live roots unique? (no: section 7) | 6 events |
| `pipeline` | Is a table the log up to its checkpoint, but for what was never announced; does nothing slip between catch-up and live; does a stopped projector say so and recover; is an import complete; does every announced event arrive? | 1 projector whose table an import also writes, 3 events, pages of 1, 2 failures (lost reconciliations count), 1 rebuild that may fail, 1 import, any number of crashes |
| `pipeline_import_gap` | Does a projector restart to the same tables? (no: section 7) | 3 events, pages of 2, no failure, 1 import |
| `event_stream` | Is every stream an `EventFeed`, and does it deliver every announced event while it stays open? | 1 subscriber, 4 events, pages of 2, 1 lost announcement, 2 faults |
| `event_broadcast` | Is no event handed over twice or late, and is every request's history pushed completely? | 2 subscribers, 2 replays, 3 events, pages of 2, 1 fault |
| `event_broadcast_gap` | Does a subscriber miss nothing? (no: section 7) | 2 events, pages of 1, no fault |
| `provider_bridge` | Is work given to an agent again only after a failed call, do agents run with the chosen settings, does a removed session stay stopped, is every command accounted for, are failures recorded, does the dispatcher get past every event unless an answer never comes? | 2 sessions of different providers, a message and a reply, 1 setting with 2 values, 1 retry, 4 events, 1 restart, 1 fault |
| `claude_session` | Does a session survive the replacement of its query, are permissions drained and approvals answerable, is the mode kept, do silent turns end? | 1 request, 2 modes, 2 prompts, 2 disturbances |
| `claude_session_gap` | Is a wait for a person never counted as silence? (no: section 7) | 1 prompt, no disturbance |

Why the bounds are enough to be interesting: two calls of one command and a
third of a competitor cover every pair of a try and a retry with something in
between; one fault covers each await once, and the second fault of
`engine_liveness` is what it takes to lose a commit's answer and the
reconcile that would repair it. The engine's steps after a crash do not depend
on how many there were. In the pipeline, pages of one with three events force
several pages, an event that arrives between two catch-ups, and one that is both
read and delivered live; two failures lose a reconciliation and let a projector
fail around it; projectors share nothing, so one shows what fourteen do. One import
meets each of these; what a second one can do to a rebuild (section 7) is for the
theorem `ImportsAreComplete`, which has any number. A retention cap of two with three identifiers overflows. The streams of
`EventStream` share nothing but the engine, so one subscriber shows what any
number do; four events in pages of two make a full page, a short one and an
empty one, and two faults a resume that is itself interrupted. In
`EventBroadcast` two subscribers are needed, since the replay of one reaches the
other. In the bridge two sessions share the dispatcher; four events are a
creation, a setting, a command and one more (a removal, the same command again,
a second setting); one fault and one restart combine a dead fiber, a refused
call, a call that hangs or a lost announcement with late registration, which is no
fault, and with a replay. With one retry a call is first too early, then refused by
an agent that got it; or refused first and then taken. In the Claude session two disturbances make a cancel meet a
death, a mode switch meet a failed `createQuery`, and so on, beside the watchdog,
which needs no disturbance. The theorems of section 6 hold for every value of
these bounds.

Only the `event_broadcast` runs use symmetry, of subscribers and of replays,
which no definition and no property tells apart; they check no liveness. The
deadlock check is off in `claude_session`, `claude_session_gap` and
`provider_bridge`: an idle session, or a bridge with nothing left to consider,
may really wait for ever once the bounds of its surroundings are used up.

## 5. Fairness

`OrchestrationEngine!FairSpec` has weak fairness of the worker fiber and of the
finalizer that joined it: the worker never suspends for ever, since every await
in an envelope is a database call or a computation, and its failure is an
outcome (`Exit`). Callers, faults, crashes and the start of a shutdown are not
fair. `ProjectionPipeline!FairSpec` has weak fairness of each projector's
fiber (its sleeps end), of the rest of a rebuild once begun, and of the engine's
publication while it still has an event in hand that it has not given up
(`abandoned < head`): the worker settles every commit, by adopting it or by
reconciling. Once a reconciliation was lost nothing makes the engine come back to
it, so nothing is assumed, and `CatchesUp` exempts what waits there and what was
passed over. Commits, failures, crashes, imports and rebuilds are not fair; failures are bounded, so
`CatchesUp` and `Recovers` say what happens once they stop, which is all the
code promises: an event that no projector can apply is retried for ever.
`EventStream!FairSpec` has weak fairness of the engine's publication and of each
stream's own steps, the resume after a sleep included; transport failures,
failing reads, restarts and consumers that leave are not fair, and
`StreamDelivers` exempts streams that were closed or failed.
`ProviderBridge!FairSpec` has weak fairness of the dispatcher: the file system
answers its calls, and so does an adapter, refusing or not, as long as the call
does not hang. A call may hang (`CallHangs` at `Adapter.ts:515`, which has no
timeout) and nothing makes it come back: `CallResumes` is not fair, and
`EveryEventConsidered` names the one exception. Sessions need not register, and
clients need not act.
`ClaudeSession!FairSpec` has weak fairness of time (`Tick`) and of the watchdog's
steps: its interrupt has a timeout and `createQuery` returns. Nothing is assumed
of the SDK or of the operator, so `StalledTurnsEnd` holds of a permission that
nobody answers.

## 6. The proofs

`OrchestrationEngine_proofs` holds seven theorems, for any commands, batches,
decider, projector, faults and bounds, from `WorkAssumption` and
`BoundsAssumption` only:

* `TypeCorrect`: `TypeOK`. Not inductive alone: what the worker carries must
  agree with where it stands. `WorkerOK` says that a worker that will adopt has
  the sequence of an entry its own log ends with, that the rejection it records
  is of a command, and so on; `TypeInv == TypeOK /\ WorkerOK` is inductive.
* `EngineImplementsCommandLog`: the refinement. The lemma `DatabaseStep` says
  that a step of the engine either leaves the database alone, or commits the
  work of the worker (`CommitsWork`), or records a rejection of a command with
  no receipt (`RejectsCommand`); each maps to one action of `CommandLog`.
* `CommandsExactlyOnce`: `ExactlyOnce`, strengthened (`StoreInv`) by the fact
  that an accepted command has events, so that its receipt names one of them. A
  commit appends, and what older receipts point at does not move
  (`SubSeqOfLonger`).
* `AnswersAreDurable` and `RetriesAgree`: the answers of calls. The invariant
  `AnswerInv` adds that each call's answer stands with respect to the database
  (`CallsStand`), and that the answer the worker is about to give does
  (`WorkerStands`). An answer that stands keeps standing, by `DatabaseStep`; two
  standing answers to a command read the same receipt.
* `EveryCallHeld`: `NoCallForgotten`. Whatever fails or shuts down, a call that is
  still awaited has its envelope with the worker or on the queue, once and in call
  order (`HeldInv`).
* `WorkerAlwaysGetsOn`: the safety kernel of the liveness of calls and of the
  shutdown (see below).

`ReadModelReplay_proofs` goes on from the engine's types to its publication,
with the same assumptions. `ReplayInv` has four parts. `CursorInv`: the worker
reads behind its own read model, and what it will adopt is what the log ends
with. `DurableInv` gives `SubscribersSeeDurableEvents` whatever fails. `ExactInv`
and `FoldInv` are about runs in which no reconcile is lost ("reconcile" is not
among the faults): everything published is the log since the boot
(`SubscribersSeeTheLog`), and the read model is the fold of the log as far as its
cursor goes (`DecisionsSeeTheLog`). The step that matters is a reconcile after a
commit whose answer was lost: what it reads is all there is, because a unit of
work fits in a page (`WorkAssumption`). A fold over one event more is the fold,
then the event; since the library's induction theorems cannot be instantiated
here, the module derives the induction it needs from the least element of a set
of naturals (`LeastNumber`).

`CommandHistory_proofs` holds three, for any commands, identifiers, caps and
histories, from `RetentionAssumption` and `VocabularyAssumption`. The lemma
`EveryStep` reduces a step of `Next` to what it does to one row of projects
(`ProjectStep`) or sessions (`SessionStep`).

* `LiveRootsStayUnique` needs the hypothesis `MovesUncontested` (no command moves
  a project to a root that a command gives to another one): without it the
  property is false, which is the finding `decide_moved_roots`. `RootInv` adds
  that the root of a row was given to it by a command.
* `DecisionsMatch`: `DecisionsMatchHistory`. `MatchInv` says of each row what the
  history says of it. For roots that is the last event that gave one; for the
  capped list of checkpoints that an entry stands as far from the end as there are
  newer ones in the history (`CheckpointsMatch`, by `RetainedItems`).
* `TextStaysCommitted`: `TextIsCommittedTokens`. `TextInv` goes through the fold a
  session at a time: the message an event names is put where it was or at the end,
  the cap drops from the front only, and so a message within the cap has every
  token the history has for it, in commit order.

`ProjectionPipeline_proofs` holds ten, for any projectors, page size and bounds.
Five state what the runs check: `TypeCorrect` (`TypeOK` with `ImporterInv`, which
orders the two sequences an import has read); `NothingSlipsPast`, where `LiveInv`
keeps the queue of every fiber in order and equal to what was announced since it
subscribed, so that the second catch-up meets it; `TablesFollowTheLog`, where
`TableInv` ties the fiber's cursor to the checkpoint, lets a table lack only what is
in `withheld`, and `RebuildInv` says that a stopped projector has no fiber to write
while its table is reset;
`DownProjectorsSaySo`; and `ImportsAreComplete`, where `ImportInv` says of an event
an import promised that it is in the table or still owed to it by the fiber. Then:

* `ProjectorsAreFed`: a second refinement of `EventFeed`. A projector whose tables
  only it writes is a subscriber that starts at 0; an event applied, from a page or
  live, is one delivered (past nothing but withheld events), a `PassOver` is a `Withhold`, one at or below the checkpoint is a
  stutter, and a reset opens the subscription again.
* `OnlyImportsAndLostCommits`: what `RestartSameTables` (the finding
  `pipeline_import_gap`) says, for every projector no import has touched, of every
  event the engine did not pass over. So imports and lost reconciliations are the
  whole of that finding. `NoEventOutOfReach` is its counterpart during the
  catch-ups: table, page and queue together have every announced event.
* `ProjectorsRestCaughtUp` and `ProjectorsAlwaysGetOn`: the kernel of `CatchesUp` and
  `Recovers` (see below).

`EventStream_proofs` and `EventBroadcast_proofs` treat the two client paths, for
any subscribers, page size and bounds. `EventStream_proofs` holds seven:

* `TypeCorrect`: `TypeOK`, inductive as it stands; the lemma `PageEnds` keeps
  the cursor in the log.
* `StreamImplementsEventFeed`: the refinement, by the identity on `head`,
  `withheld`, `start` and `received`. The invariant `FeedInv` says of each
  stream that the client's cursor is its consumer's position; that the replay
  continues the cursor without a hole (`ReplayFollows`), and when it is used up
  the cursor has reached its end (`ReplayIsBehind`); that the live queue is in
  order (`QueueIsOrdered`) and holds every announced event above the last page
  that the client does not have (`QueueCovers`, which is where subscribing
  before reading matters). So the head of a replay is the next event
  (`TakeReplayedDelivers`), and what a live event passes over was never
  announced (`TakeLiveDelivers`).
* `FeedsAreInFull` says what `EventFeed` is worth, of the abstract specification
  alone: a consumer has the events from its start to its position, once and in
  order, but for withheld ones. `StreamsHaveNoGap` is the same of the code's stream,
  and follows from the refinement without another look at the stream.
* `StreamsHoldTheRest`, `StreamsRestDelivered`, `StreamsAlwaysGetOn`: the kernel of
  `StreamDelivers` (see below).

`EventBroadcast_proofs` holds four: `TypeCorrect`; `ChannelKeepsOrder`
(`OrderInv`: everything a listener has is at or below its cursor, which is why two
writers of one channel cannot make it go back); and `RepliesAreCovered`
(`CovInv`: what a request is owed is pushed, in its replay, or queued for the live
pusher, and `PusherInv`: whoever listens has a live pusher beside it); and
`OnlyOvertakenEventsAreMissed`: with `HandedInv` (what was pushed to a listener and
not handed over is behind its cursor), an event is missed only because a later one
was handed over before it. That is the whole of the finding `event_broadcast_gap`.

`ProviderBridge_proofs` holds eight, for any sessions, keys, values, capabilities
of adapters and bounds and finitely many settings:

* `TypeCorrect`, and `FailuresRecorded` (`FailInv`: the ids of this boot's failures
  are below its counter).
* `WorkDoneOnce`: `NoWorkTwice`. `WorkInv` says that every command the dispatcher has
  considered is claimed, that the calls for the one in hand belong to this event and
  all failed, and that there are no more of them than tries were used.
* `RemovedSessionsStayStopped` (`LogInv`: the creation of a session is its first
  event; `LifeInv`: whatever runs or is being opened was created and not removed).
* `CommandsAreAccountedFor`: `CommandsAccountedFor`. `AccountInv` says the same of a
  command's first event with the position it was met at: taken, failed, in hand, cut
  off, dropped, or of a session that could not be opened for one of the reasons named.
* `AgentsRunWithChosenSettings` (`SetInv`: what the bridge recorded is what the
  considered log says, and an agent differs from it in a setting it can be given only
  while the dispatcher still has that setting to do, or after a recorded refusal).
* `DispatcherRests` and `DispatcherAlwaysGetsOn`, the kernel of `EveryEventConsidered`
  (see below).

`ClaudeSession_proofs` holds seven, for any requests, modes, prompts and
disturbances: `TypeCorrect` (with `FlagInv` for the flags); `RestartsKeepTheSession`
(`GenInv`: every listener that may still end has a generation older than the Ref,
unless its query is the current one, across the awaits of both fibers);
`PermissionsAreDrained` and `ApprovalsCanBeAnswered` (`PermInv`: whatever blocks is
in the map, and whatever is shown is waited for by a query that is open or died by
itself); and `ChosenModeIsKept` (`ModeInv`: a query was built in the mode of its
time, and a later choice reached it, was rejected by it or is still on its way). `RecoveryIsAlwaysDue` and
`RecoveryAlwaysComes` are the kernel of `StalledTurnsEnd` (see below).

**The kernels of the liveness properties.** A temporal property under fairness,
and `ENABLED`, are out of the prover's reach. What a liveness argument rests on is
not: that whoever has not reached the goal has a step to take, and that its steps
lead to the goal and are not undone by others. Both are proved, for every liveness
property of the runs, with the guards of the fair actions written out (TLC was
used to compare them with `ENABLED` of those actions) and a bound on the steps
that are left:

| Property | A step is there | and it gets on |
| --- | --- | --- |
| `CallsSettle`, `ShutdownEnds` | `EveryCallHeld`: an awaited call is with the worker or queued | `WorkerAlwaysGetsOn`: `WorkLeft` shrinks on every path, failures included; only a call let in adds to it |
| `CatchesUp`, `Recovers` | `ProjectorsRestCaughtUp`: a projector that rests is live with every announced event not passed over | `ProjectorsAlwaysGetOn`: `WorkLeft(p)` shrinks, the others' stays |
| `StreamDelivers` | `StreamsRestDelivered`: a stream that rests has handed over every announced event | `StreamsAlwaysGetOn`: `StepsLeft(s)` shrinks, the others' stays |
| `EveryEventConsidered` | `DispatcherRests`: the dispatcher can step, is past the whole log, or waits for a call that hangs (`CallInv`: it calls an adapter only with something to call it for) | `DispatcherAlwaysGetsOn`: `WorkLeft` shrinks with every try, failing call, missing root and event passed over; no fiber adds to it |
| `StalledTurnsEnd` | `RecoveryIsAlwaysDue`: the watchdog's step is due or time may pass (`WatchInv`: the watchdog lives in an open scope) | `RecoveryAlwaysComes`: nobody puts it off but by ending the turn, the silence or the watchdog |

What is left to TLC is the step from these to the temporal formula: that a fair
process takes a step it always has, and that a natural number cannot shrink for ever.

Only model-checked: that step, and the properties that are there to be violated
(section 7), of which the theorems `LiveRootsStayUnique`, `OnlyImportsAndLostCommits`
and `OnlyOvertakenEventsAreMissed` prove what does hold.

## 7. What the runs found

* `decide_moved_roots`: `project.meta.update` can move a live project to the
  workspace root of another one. `project.create` refuses exactly that, for the
  reason given in `commandInvariants.ts:120-124`.
* `pipeline_import_gap`: an import sets the checkpoints of the sessions and
  messages projectors to its own end. If such a projector has not applied an
  earlier event yet (it is in its backoff of up to 30 seconds, or has just been
  started) it resumes after that event and never applies it.
* `event_broadcast_gap`: in the desktop's channel a live event can be pushed
  while the replay of a request is still being read (the first page is an
  `await` on SQLite, and the live pusher is another fiber). The listener's
  cursor moves to the live event, and the replay's older events are dropped as
  duplicates; so can the replay of one subscription make another drop its own.
  `encodedBoundary.ts:302-305` argues that a subscriber misses nothing.

* `claude_session_gap`: the watchdog measures silence from the last message of
  the SDK, and neither a permission request's decision nor its answer touches that
  time (`Watchdog.ts:39`). While a permission is pending the longer bound applies;
  once it is answered the whole wait counts against the shorter one, so an answer
  that took longer than `turnInactivityTimeout` is followed by a torn-down query
  unless the SDK says something before the next poll. A test comment
  (`Adapter.test.ts:1097-1099`) promises that a turn that waits for a person is not
  stalled.

Beside these, the modelling met places where the code and its comments part. No run
is about them: they are steps of the models, and the property named with each states
what holds all the same.

* A rebuild whose reset fails (`ResetFails`) leaves its projector stopped with the
  health "healthy", against the comment in `ProjectionPipeline.ts:169-171`. Nothing
  outside the tests calls `rebuild`. `pipeline` includes such rebuilds; `NeverQuiet`
  exempts them, so no property guards against this one.
* Commands are retried whatever failed, so a prompt that the agent got although its
  call failed (a `turn/start` of Codex that timed out) is sent again, up to 25 times.
  The comment above the schedule (`ProviderBridge.ts:536-538`) says that it absorbs
  one failure, a session not yet registered; only the settings look at what failed.
  `NoWorkTwice` states how far a repetition can go.
* A command that is durable when the process ends, and not dispatched yet, is only
  claimed by the next boot. It never reaches the agent and no failure is recorded,
  although its client was told that it was accepted. The comment above
  `considerMessageSent` (`ProviderBridge.ts:658-659`) takes for granted that an earlier
  boot called the adapter. `CommandsAccountedFor` lists every way a command can go
  silently, this one as `cut`.
* After a lost reconciliation a live projector checkpoints past the events that were
  never announced, and the bridge never sees them; a rebuild of the projector, and
  the next boot of the bridge, read them from the store. `TablesHoldLog`,
  `CatchesUp` and `CommandsAccountedFor` name this exception.
* A rebuild empties a table from the checkpoint on; when a second import has moved
  that checkpoint before the rebuilt fiber reaches the events of a first one, they
  are lost, by the same mechanism as in `pipeline_import_gap`.
  `ImportIsComplete` exempts exactly that.
* A failure's event id holds the bridge's counter, which starts over at every boot.
  The store refuses an id it has, and the bridge logs that, so a failure of a
  later boot may go unrecorded, though `ProviderBridge.ts:217-219` calls the id
  unique. `FailuresRecordedOnceAnId` says that the store refuses one for no other
  reason.
* `SessionUnarchived` is not handled by the bridge, and a boot replays the archiving
  as well: commands for a session that was archived and unarchived are dropped in this
  boot and in every later one. `RemovedStaysStopped` and `CommandsAccountedFor` state
  both sides of it.
* A mode or model recorded for a session whose adapter has no `setMode` or `setModel`
  (Codex and OpenCode have no `setModel`) is never applied, and no failure says so.
  `AgentRunsWithChosenSettings` speaks of the settings an adapter can be given.

## 8. Not modelled

The modules cover the event-sourced core of the server and the paths of its
events to a window. That is a small part of the repository's 308,000 lines: most
of the rest is the Svelte application and its components, the QA harness and
scripts, contracts and wire formats, and wrappers of external programs, in which
either nothing interleaves or the behaviour is that of another program.

* The session snapshot (`ProjectionSnapshotQuery.ts`): its sequence is the minimum
  of the checkpoints while its rows may be newer, so a client that streams from
  there folds some tokens twice. It is in the hazards; a model needs the
  content of the tables, which `ProjectionPipeline` keeps only as the events applied.
* `shareEventSource`, which fans one subscription of a window out to many stores.
* The adapters of Codex, OpenCode, Copilot, Grok and Cursor: one external protocol
  each, whose ordering guarantees the source does not state. The Claude adapter is
  the one with its own recovery.
* The checkpoint service (file snapshots before a command is dispatched) and the
  terminal service (a PTY per terminal): the next candidates.
* The SQL of each projection table; what an event does to the columns is for the
  tests of each table.
* The importer's parsing and its deterministic ids. `importDirectory` dispatches the
  commands of many files between the same two reads that `importSessionFile` makes.
* The git, file index, voice, skills, MCP, usage and installer services: I/O in
  sequence over other programs' files and output. Their commands' guards are in
  `ReadModel`.
* RPC framing, the shell, packaging and the website.

Within what is modelled: metrics, tracing and time stamps are left out of the
engine. Its reconcile reads one page of 1000 events; since a unit of work is one
event this never truncates, and the model assumes as much (`WorkAssumption`) rather
than showing it. Concurrent rebuilds of one projector are excluded: the model lets
a rebuild begin only when none is under way. A provider without an adapter, config
options and the agent's environment are left out of the bridge, the catalogue of
models and the translation of messages out of the Claude session.

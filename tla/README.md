# A specification of Mistral Vibe's sessions

TLA+ models of the parts of this Rust program where several threads, a client
and a model provider act on one session: what they may do to one another, what
the program promises about it, and proofs of the promises that should hold for
every capacity, key, input and number of turns.

- [The system](#the-system)
- [The modules](#the-modules)
- [Properties and hazards](#properties-and-hazards)
- [The runs](#the-runs)
- [Fairness](#fairness)
- [What the code does that it says it does not](#disagreements)
- [The proofs](#the-proofs)
- [What is not modelled](#what-is-not-modelled)
- [Plan](#plan)

Checking: `tlc -workers 2 -config X.cfg M` for each run of `PROJECT.json`,
`tlapm M.tla` for the proofs, with `M` one of `TurnQueueProofs`, `SessionProofs`,
`SessionInvariants`, `CallbackProofs`, `GatedProofs`, `SessionStoreProofs`,
`SavedSessionProofs` and `ConversationProofs`.

## The system

The program is a coding agent. A *server* (`vibe-app-server`) keeps sessions; a
terminal interface (`vibe-cli`), an editor agent (`vibe-acp`) and headless
clients talk to it over one connection each, in the process or over stdio. The
default backend of a session is the *Unified Harness*: the engine of
`vibe-harness`, hosted by `vibe-app-server/src/server/unified`. An older backend
over `vibe-core`'s engine can still be chosen.

| Part | State | Operations | Talks to |
|---|---|---|---|
| Unified host (`server/unified.rs`, `unified/*`) | per session, one mutex: `running`, the sender of the interrupt channel, the turn queue, what a client saw last | `turn/start`, `turn/steer`, `turn/interrupt`, `turn/enqueue` and the queue's requests, `callback/result`, compaction, context injection, rewind | the core, the connection's frames |
| Turn queue (`unified/queue.rs`) | items, `paused`, idempotency records, `steered` | enqueue, replace, remove, steer, resume, pop, pause | lives in the host |
| Session core (`vibe-harness/src/engine/session_core.rs`) | per session, another mutex: the projector's state, the conversation, pending steering, callbacks | begin, steer, deliver, rewind | the projector |
| Projector (`state/projector.rs`) | status, `latest_turn`, entries, the queue's mirror, revision | `apply` of observations | clients, by publication |
| Driver (`engine/turn.rs`, `compaction_run.rs`) | a task per turn: iteration, stream, the running calls | model call, tool calls, compaction, settlement | provider, tools, the core |
| Callbacks (`gate.rs`, `execute.rs`) | open, waiters, answered, closed, released | open, settle, release, close all | the client, the waiting calls |
| Gate (`execute.rs`, `unified/gate.rs`, `smart.rs`, `policy/store.rs`) | the session's grants; smart approve's counts and what it remembers | check, classify, ask, grant | the classifier, the callbacks |
| Runner (`unified/loops.rs`) | a task per session: the scheduler of loops | start the next queued turn, fire a due loop | the host |
| Store (`store.rs`, `reconcile.rs`, `unified/stored.rs`, `reopen.rs`) | per session on disk: generations, `CURRENT`, a journal, a lease | journal, commit, load, rename | the core, other processes |
| Subagents, processes, code mode | children's sessions, child processes, a TypeScript host | spawn, wait, kill, call | the calls of a turn |
| Core services (`vibe-core`) | configuration, session log and leases, checkpoints of files, permissions, MCP, credentials | read, write, refresh | disk, network |
| Clients | a projection of the session's state | apply published frames | the connection |

Interaction is by two mutexes per session, taken in short sections that many
operations chain (the host, then the core, then the host again), by one `watch`
channel per turn for interrupts, by one `oneshot` channel per callback, and by
frames published to the client. The runtime is multi-threaded: the connection,
the runner and the drivers interleave between sections. That, and a provider or
tool that never answers, is what is hard here.

What makes each part correct:

- *Queue*: items run oldest first, once, never while paused; a retried request
  makes no second item; a pause always has something to resume.
- *Turns*: one at a time; host, core and driver agree which; an interrupt ends
  its turn and no other; steering reaches the model; queued work is served.
- *Callbacks*: each has exactly one waiter, which hears exactly once, with the
  answer recorded; none outlives its turn.
- *Projector and clients*: what is shown is what is, and settles to it.
- *Gate*: no call runs that nothing approved; what the classifier blocks reaches
  the person.
- *Conversation*: the model is sent each of the person's messages, and every
  answer with all its results in order, or with none if the turn was cut off.
- *Store*: what is reopened is one whole state, the last one saved, under the last
  title put on disk; one process at a time writes it.
- *Files*: a rewind restores what the agent changed and nothing else.

`PROJECT.json` lists every component with its status, and every hazard at its
line.

## The modules

| Module | Models | Notes |
|---|---|---|
| `QueuedWork` | what a queue of turns promises | abstract; no code of its own |
| `TurnQueue` | `unified/queue.rs` | implements `QueuedWork` |
| `TurnQueueProofs` | | theorems about `TurnQueue` |
| `UnifiedSession` | host, core, drivers, runner and connection | extends `TurnQueue`, whose operations are conjuncts of its steps |
| `SessionProofs` | | theorems about the queue inside `UnifiedSession` |
| `SessionInvariants` | | theorems about the state of `UnifiedSession`, and about how host, core and drivers agree |
| `CallbackBook` | `gate.rs`'s callbacks and the calls that wait on them | one core |
| `CallbackProofs` | | theorems about `CallbackBook` |
| `GatedCalls` | `gated_execute`, `unified/gate.rs`, `smart.rs`: the calls that ask | extends `CallbackBook`, whose operations are conjuncts of its steps |
| `MCGatedCalls` | | four calls and their scopes, for TLC |
| `GatedProofs` | | theorems about `GatedCalls` |
| `DurableSession` | what saving a session promises | abstract; no code of its own |
| `SessionStore` | `store.rs`, the lease, and the calls of the server on them | implements `DurableSession` |
| `SessionStoreProofs` | | theorems about `SessionStore` |
| `Conversation` | what each handler does to what the model is sent | operators only |
| `SavedSession` | a session at work on its store | extends `SessionStore` and `Conversation` |
| `SavedSessionProofs` | | theorems about what `SavedSession` saves |
| `ConversationProofs` | | theorems about what `SavedSession` says to the model |

**TurnQueue.** Each operation is one section of the host mutex. An item is a
record of an identifier and what it runs; a fresh uuid is the next number, so
that creation order can be spoken of. The idempotency map goes from a key to the
record it answers. A request that is refused, or answered from that map, changes
nothing and is not a step. `fate` is a history variable: what became of each
item. The `Leave` conjunct stands for the code's removal followed by
`reset_pause_if_empty`.

**UnifiedSession.** One step is one mutex section with the code around it: what
is read in one section and used in the next is kept in the actor's variables
(`at`, `item`, `turn`, `copy`) and may be stale. The correspondence:

| Model | Code |
|---|---|
| `running`, `channel` | `UnifiedHost::running`, `interrupt` |
| `begun`, `latest`, `shown` | turn identifiers, `latest_turn`, the status's active turn |
| `pendingSteer`, `mirror` | `SessionCore::pending_steer`, `queue_items` and `queue_paused` of the state |
| `signalled`, `cancelled` | a reason in a turn's watch channel; a call answered `cancel_turn` |
| `driver`, `rounds`, `ends` | where `run_turn` is, its iterations, its `TurnEnd` |
| `BeginChecked`, `BeginCommitted`, `BeginReserved` | the three sections of `begin_unified_turn` |
| `RunnerPops`, `RunnerFires` | `drain_unified_queue`, `run_unattended` with a due loop |
| `ActorReads`, `ActorWrites`, `DriverReads`, `DriverWrites` | the two sections of `publish_queue` |
| `ClientFolds`, `FoldSteers`, `FoldLeaves` | the three sections of `unified_queue_steer` |
| `ClientCancels`, `CancelReleases`, `CancelSignals` | settlement, release and interrupt of `callback/result` with `cancel_turn` |
| `CallsModel` … `TurnCancelled` | the branches of `run_turn` and its `select!`s |
| `EndTurn` | the last host section of `drive_unified_turn`: free, and pause in the same section |

The provider and the tools are external: a call answers, fails or never returns.
A turn's tool calls run side by side in the code and are one phase here
(`"tools"`): what each adds to the conversation is not told apart, and all of it
with the pending steering joins in `ToolsFinish`. The connection serves one
request after another, so it is one actor with a place. The runner polls once a
second at the latest, so its wake-ups need no variable.

**CallbackBook.** A call brings an identifier (`Bases`), the callback takes it or,
while an open one holds it, adds a suffix of its own. The host settles in one
core section and hands the answer over in a later one. `Repeats` says what the
provider does with identifiers: never repeats, repeats those of earlier answers
(an unnamed call is named by its place), or anything.

**GatedCalls.** The calls of an answer pass the gate side by side; a step is all a
call does between two awaits, so that the others run while it waits for the
classifier or the person. A key stands for a tool and its arguments, `ScopeOf` for
what an approval that outlasts the call covers (several calls may share it),
`Unscoped` for the calls no scope covers, `Protected` for those whose target
decides what runs later. `mode` is whether the session's agent smart-approves,
chosen anew when a turn's environment is built.

| Model | Code |
|---|---|
| `granted` | the session's rules in the permission store |
| `remembered`, `denied`, `counted`, `consecutive`, `total` | `SmartState` |
| `AllowByRules`, `AskByRules` | `resolve`, and `decide` without a classifier |
| `Recall`, `Consult` | `classify_gate` up to its first await |
| `Pass`, `Block`, `Escalate`, `EscalateError` | from the verdict to the next await or the end |
| `Approve`, `Decline` | from the person's answer to the end, with what it grants |

`slipped` and `blocked` record what happened, for the properties: a call that ran
unapproved, and the calls smart approve blocked in a row and in a turn.

**SessionStore.** The disk is `current` (the generation `CURRENT` names), the parts of
each generation, the last step of each journal segment, and the lease. A commit
writes one file a step and points `CURRENT` last; its process may stop, or the
write fail, between any two. Within its process it holds both mutexes, so nothing
else of it runs meanwhile, and another process may. What a session holds beside
its title is a `body`, which this module never looks into. `told` records the title
last put on disk. `Races` names what overlaps although the lease should prevent it:
`"leave"` (a connection that closes releases the lease while its turn runs on),
`"reopen"` (the store is read before the lease is taken), `"rename"` (a stored
session is renamed without a lease). The passing run and the theorems take it as
empty; `two_writers` takes `"leave"`.

**Conversation, SavedSession.** The body is the conversation and how many messages
the person gave. `SavedSession` has every section of the core that changes either:
`driver` is the turn or compaction a process runs (`begin_unified_turn`'s sections,
the rounds of `run_turn` with notifications, answers, calls that end in any order,
steering, compaction in and between turns, early ends, settlement), `handler` a
client's request that writes the conversation (context injection, a shell
command's record, a rewind), `steering` what was accepted and not pushed, `unread`
the person's messages no model call carried yet. Contents are left out: a message
is who wrote it and what it answers.

In each module the operators introduced as *faults* are plausible slips (a
dropped guard, an off-by-one, a missing reset) that no specification uses: each
stands in for a definition to see that a property notices.

## Properties and hazards

One type invariant per module. The others are about what tests hardly reach:

| Property | Hazard |
|---|---|
| `FirstInFirstOut`, `InOrder` | replacement, removal and pauses between two pops |
| `PauseHoldsItems`, `HeldItemsWait` | a failed turn's queue drained by whoever looks first; a pause nobody can lift |
| `KeyAnswersOnce`, `LeavesOnce` | retries around removal and running |
| `WithinCapacity` | the queue at its limit |
| `FateAgrees` | an item both gone and present, or steered and not recorded |
| `KeepsQueuedWork` | the whole of it, as a refinement, alone and inside the session |
| `OneTurnAtATime` | two actors that begin |
| `HostFollowsCore`, `ShownIsInProgress` | the two mutexes' states drifting apart |
| `BusyHasDriver`, `BecomesIdle` | a session busy for ever |
| `TakenItemRuns`, `ItemRunsOnce` | a popped item dropped, or run twice |
| `SteeringHasATurn` | steering stranded between a settlement and an acceptance |
| `OnlyAskedAreSignalled` | an interrupt that reaches the next turn |
| `MirrorSettles` | publications out of order |
| `QueuedItemsAreServed`, `InterruptedTurnsEnd` | starvation, and a turn that ignores its interrupt |
| `OpenHasItsWaiter`, `NoCallForgotten`, `NoneOpenBetweenTurns` | a callback without a call, a call without a callback |
| `ResumesWithTheAnswer`, `HearsOnce` | repeated, late and racing answers |
| `UnansweredCallsGoOn` | a call that waits although its client answers |
| `OpenIsUnanswered` | an identifier opened again |
| `RunsAreApproved` | a call let through by an approval that covers another, by a verdict on a protected file, or by grants that changed while it waited |
| `BlockedCallsReachThePerson` | counts that interleaved calls, turns or changes of mode keep below their limits for ever |
| `PublishedIsWhole`, `PublishedIsNotRewritten` | a crash or a failed write inside a commit; a second process' commit |
| `ReopenReadsLastStep` | a step journaled where nobody will look, or found where it is stale |
| `HandleIsCurrent` | a generation published behind the handle's back |
| `SavesAtOnce` | the whole of saving, as a refinement of `DurableSession` |
| `AtRestIsSaved` | work that waits for an exit to be saved |
| `CallsAreAnsweredInTurn` | results missing, doubled or out of order, after interrupts, compactions, injections and rewinds |
| `UserMessagesReachTheModel` | a message lost or repeated between steering, the end of its turn, a compaction and a rewind |

## The runs

| Run | Question | Instance |
|---|---|---|
| `queue` | does the queue alone keep its promises? | 2 keys, 2 inputs, 3 items, capacity 2: a full queue, a retry of an item already gone, a replacement between two others |
| `unattended` | do host, core and driver agree while one thread starts turns? | client requests: enqueue, remove, resume, interrupt, steer; 2 items, 2 loop firings, 2 rounds, 1 pending message |
| `liveness` | is queued work served, does an interrupt end its turn, does the session become free? | 1 item, 1 firing, 1 compaction, 2 rounds; enqueue, remove, resume, interrupt, cancel, compact |
| `everything` | does the queue keep its promise whatever races? | direct, queued and folded turns, replacement, compaction, interrupts; environments may fail to build |
| `callbacks` | does each answer reach its call once, and does nothing run unapproved? | 4 kinds of call, 2 that ask in 2 turns, 2 identifiers repeated at will, limits 2 and 3 |
| `saved` | is what is reopened one whole state, and is the conversation sound? | 4 generations, 1 title, 2 messages, 2 calls an answer, 2 answers a turn, 1 injected message |
| `two_turns`, `queued_item_lost`, `folded_late`, `stale_mirror`, `reopened_callback`, `two_writers` | [disagreements](#disagreements) | the smallest instance that shows each |

**Bounds.** `MaxIds` items are created, `MaxTurns` turns begin, `MaxFirings` loops
fire, `MaxCompactions` compactions run, `MaxRounds` stands for `max_iterations`,
`DirectTurns` is how far a client starts turns itself, `MaxPending` is how much
steering waits unread, `MaxCalls` calls ask. All races in the model are between
two threads over one item, turn or channel, and the second, third and fourth
turn give a stale reference something to be wrong about; capacity 2 with 3 items
meets the limit and leaves room after a removal. `Keys` is empty in the session
runs: idempotency is decided within one section, which `queue` covers.

In `callbacks`, `Width` bounds the calls the classifier judges at a time to one: a
verdict only adds to the counts, so that those of two judged at once come in some
order, as they do one by one. Two calls that ask are enough for one to be approved while the other waits,
and any number runs or is blocked without asking. The limits stand for
`DENY_CONSECUTIVE_LIMIT` = 3 and `DENY_TOTAL_LIMIT` = 20; 2 and 3 keep them apart, and a
count is not kept past its limit. `GatedProofs` has its two properties for every
value of these bounds, and `CallbackProofs` the safety of callbacks.

In `saved`, `MaxGeneration` bounds the watermark and the generations: four are enough
for a promotion, a settlement and a commit that fails or is cut off after it, and
for steps journaled in two segments. With `Races` empty a second process adds no
state (the lease keeps it out, and a process that ended may open the session
again), so one is enough; `SessionStoreProofs` says so for any number
(`OneWriter`). `KeepUnread` is off: the files nothing reads again are forgotten.
`two_writers` has two processes and keeps them.

**Deadlock** is checked in `saved`, where a process may always open or end; elsewhere
it is not: a session whose client is silent and whose bounds are used up rightly
does nothing. What must not stop is stated by the liveness properties.

**Two starters.** `unattended` has no `start` request and `everything` checks no
agreement between host and core, because with two threads that start turns the
agreement fails: `two_turns` and `queued_item_lost` are the counterexamples. What
does hold then is in `everything`.

**Environments.** `EnvironmentMayFail` lets a turn's environment fail to build
after the host was reserved. Every shipped host configures a provider, so the
passing runs that state `BusyHasDriver` or liveness leave it out, and `everything`
keeps it in.

**Races.** `saved` and the theorems about the store leave `Races` empty: with any of the
three, two processes write the session and TLC refutes `HandleIsCurrent`. Within
one process all sections interleave.

**Repeats.** `callbacks` lets identifiers repeat at will. `UnansweredCallsGoOn`
therefore speaks of the callbacks a client may still answer; those it may not
are the subject of `reopened_callback`.

## Fairness

`Spec` of `UnifiedSession` assumes weak fairness of each thread that has something
to do without waiting for the outside: the connection finishes a request it
received (`ClientContinues`), the runner polls every second (`RunnerSteps`), a
driver that can move does (`DriverMoves`), a settled compaction frees the host.
The runtime schedules ready tasks and no step waits for a lock held across an
await, so each stays enabled until it is taken. A client that sends no request
and a provider or tool that never answers are allowed. `QueuedItemsAreServed` and
`BecomesIdle` take `WorldIsFair` as a hypothesis: provider calls and tools end
under timeouts of their own. `InterruptedTurnsEnd` does not: an interrupt works
exactly when they do not answer.

`SavedSession` and `SessionStore` assume none: they state no liveness.

`Spec` of `CallbackBook` and `GateSpec` assume that the connection hands over what it settled
and that the client answers what it is asked.

<a id="disagreements"></a>
## What the code does that it says it does not

Each is a run whose one property quotes the code's own words; `PROJECT.json` has
the quotations.

- `two_turns`: `require_idle` "refuses while a turn or a compaction runs", but the
  host is taken two sections after the check. A client's `turn/start` and a loop's
  firing both pass, and two drivers work on one core.
- `queued_item_lost`: between the runner's pop and its begin a direct turn takes
  the session, since the queue looks empty. The begin is refused and the popped
  item dropped.
- `folded_late`: folding a queued item checks the running turn in the host and
  steers the core later without asking again, as `turn/steer` does. The message
  joins a turn that settled, the session shows that turn running once more, and
  no model call reads it before another turn begins.
- `stale_mirror`: the queue is read under one mutex and mirrored under another. Two
  publishers may write in the other order, and the state keeps showing the older
  queue until the next change.
- `two_writers`: the lease is kept "for as long as the session is its own", but a
  connection that closes, or `session/close`, releases it at once, while a unified
  turn may go on for the grace period and save the session. Another process opens
  it meanwhile; both commit the same generation number, and `CURRENT` names one
  whose parts come from both.
- `reopened_callback`: a callback takes its call's identifier unless an *open* one
  holds it. An identifier that comes again after it was answered opens a callback
  whose answer counts as a repetition: the call waits until the turn is
  interrupted.

Others met while modelling, for which there is no run:

- `replay_journal` (`store.rs:393`) says the last `state` step "names the session's
  latest title", but a title is taken in one core section and journaled in a later
  one (`marks.rs:169-175`, `titles.rs:77-92`): an older title may be journaled last. The
  next settlement repairs it; a process that ends before loses the title.
- `settle_stalled` (`projector.rs:256-258`), which settles "a running turn nothing owns
  any more", has no caller: a session committed in the middle of a turn, by a shell
  command's record, is reopened as running.
- A shell command's result recorded while a compaction is summarised is dropped with
  the conversation the summary replaces; one recorded while calls run lands between
  an answer and its results. `manual_shell.rs:28` says the command "blocks anything
  else from running there until it settles"; a unified turn does not ask.
- A reopening reads the store before it takes the lease (`reopen.rs:413`, `session.rs:217`);
  renaming a stored session (`marks.rs:188`) and deleting one (`stored.rs:134`) take none.
- `gate.rs:290` says an answer to an unscoped call "releases this call alone"; approved
  for the session under smart approve, the same call is remembered (`gate.rs:443`).
- Subagents share their parent's gate (`subagents.rs:781`) under turn identifiers of
  their own, so that alternating calls restart smart approve's counts
  (`smart.rs:346`) before they reach the limits.

## The proofs

Each theorem holds for every value of the constants that satisfies their
assumptions; where a run checks the same property, it does so on one instance.

| Module | Theorem | States |
|---|---|---|
| `TurnQueueProofs` | `QueueTypeCorrect` | `[]QueueTypeOK` |
| | `ServedInOrder`, `StaysInOrder`, `PausedHoldsItems`, `CapacityHolds`, `HistoryAgrees` | the queue's safety invariants |
| | `KeysAnswerOnce`, `ItemsLeaveOnce` | the action properties |
| | `ImplementsQueuedWork` | `QueueSpec` refines `QueuedWork` |
| `SessionProofs` | `SessionRunsTheQueue` | `Spec => QueueSpec`: what is proved of the queue holds in a session |
| | `SessionKeepsQueuedWork` | the session refines `QueuedWork` |
| | `HeldItemsStayPut` | `[]HeldItemsWait` |
| `SessionInvariants` | `SessionTypeCorrect` | `[]TypeOK` |
| | `ItemsRunOnce` | `[]ItemRunsOnce`, with two threads that start turns |
| | `BusyTurnsHaveDrivers` | `[]BusyHasDriver`, if environments can be built |
| | `OneTurn`, `HostAndCoreAgree`, `TakenItemsRun` | `[]OneTurnAtATime`, `[]HostFollowsCore`, `[]TakenItemRuns`, if one thread begins work (`OneStarter`) |
| | `SteeringIsRead` | `[]SteeringHasATurn`, if no item is folded |
| | `ShowsWhatRuns` | `[]ShownIsInProgress`, under both hypotheses |
| | `SignalsAreAskedFor` | `[]OnlyAskedAreSignalled`, if no callback is answered `cancel_turn` |
| `CallbackProofs` | `BookTypeCorrect` | `[]TypeOK` of `CallbackBook` |
| | `CallbacksHaveTheirWaiter`, `NoCallIsForgotten`, `NoCallbackOutlivesItsTurn`, `CallsResumeWithTheAnswer` | the book's safety invariants |
| | `AnswersAreFinal`, `CallsHearOnce` | the action properties |
| `GatedProofs` | `GateRunsTheBook` | `GateSpec => Spec`: what is proved of callbacks holds at the gate |
| | `NothingSlipsPastTheGate` | `[]RunsAreApproved` |
| | `BlockedCallsAreBrought` | `BlockedCallsReachThePerson` |
| `SessionStoreProofs` | `StoreInvariant`, `OneWriter` | the inductive invariant, and one process at a time |
| | `StoreIsWhole`, `StoreReadsLastStep`, `HandlesAreCurrent` | the store's safety invariants |
| | `PublishedStays`, `StoreSavesAtOnce` | a published generation stays; `StoreSpec` refines `DurableSession` |
| `SavedSessionProofs` | `SavedIsWhole`, `SavedReadsLastStep`, `SavedByOne`, `SavedHandleIsCurrent`, `SavedStays`, `SessionSavesAtOnce` | the same of a session at work |
| | `RestIsSaved` | `[]AtRestIsSaved` |
| `ConversationProofs` | `SavedIsTyped` | `[]SavedTypeOK` |
| | `SavedCallsAreAnswered` | `[]CallsAreAnsweredInTurn` |
| | `SavedMessagesReachTheModel` | `[]UserMessagesReachTheModel` |

Assumed: `QueueConstants` (capacity and bounds are natural numbers, `NoKey` is no
key, `NoRecord` is no record), `SessionConstants`, `CallbackConstants`,
`GateConstants` (the limits are at least 1), `StoreConstants`, `SavedConstants`, and in
the theorems about the store `Races = {}`. TLC evaluates them in every run of the module that states them.
`ConversationProofs` also takes `OfTheSession`: what `SessionStore` calls a body is a
session's, as in the run `saved`.

**The queue.** The inductive invariant is `QueueInv`, the conjunction of the type and the five
safety invariants. None but the type is inductive alone. `FirstInFirstOut` needs
`InOrder`, so that the head is the oldest, and `FateAgrees`, so that an older item
whose history says "queued" is really in the queue. `InOrder` needs `FateAgrees`
for a new item: those in the queue are no newer than `created`. `FateAgrees` needs
`InOrder`, which makes identifiers distinct, so that removing one place removes
one identifier. `RemoveAtSeq` says what removing a place from any sequence does;
`LeaveQueued` and `LeaveFate` lift it to the queue, and the three operations by
which an item leaves cite them. The refinement maps waiting works to the queued
identifiers and reads started and folded works off the history and the steered
map; a replacement is a stutter.

**The queue in a session.** `StepsQueue` says what a step of the session does to the
queue and to `held`: an operation of the queue, by the client or the runner; a
resume, which forgets what was held; or the end of a turn, which pauses the queue
and holds what is in it, or finds it paused or empty. `PlacesOK` is needed for
folding: the connection that is about to take an item out of the queue knows
into which turn. `HeldItemsWait` is not inductive: an item could be held and not
yet created, so that it would run when it arrives. `HeldInv` adds that a held item
exists, and `QueueInv` that identifiers are fresh.

**The session.** `SessionInv` adds to the type and to `QueueInv` what the three sections
of `begin_unified_turn` leave in the actors' hands (`TurnsInv`: a committed turn
without a driver belongs to one actor; a turn to come has neither driver nor item;
a driver about to call the model has a round left) and what the runner holds
between its pop and its commit (`ItemsInHand`: an item that is taken and no turn
yet). A session stays busy with a turn only while the driver works, because
`EndTurn` frees the host in the section that ends the driver; that a second driver
may free it earlier does no harm to this property.

**Host, core and drivers.** How far these agree depends on what the client sends,
and each theorem asks for no more than it needs. `OneStarter` says that one thread
begins work: the runner, for a client that queues what it wants to run
(`RunnerAlone`: no `start`, no `compact`), or the connection, for a client that
starts its turns itself where nothing is queued and no loop fires (`ClientAlone`).
`two_turns` and `queued_item_lost` show what happens when both do. `AgreeInv` is
then inductive with `SessionInv`. Its `StarterInv` says that whoever does not
begin work is nowhere near a beginning, and that no turn runs while the other is
between its check, or the runner its pop, and the last section; its `HostInv` that
the channel and `running` name the same turn, that it is the core's latest, in
progress until its driver settles it, and that every driver at work works on it.
Each of `OneTurnAtATime` and `HostFollowsCore` is a consequence; neither is
inductive, since a settled driver that has not freed the host yet is no longer in
progress in the core. `TakenItemRuns` needs both parts, because a begin is refused
exactly when somebody else is at work. `SteeringHasATurn` needs no starter's
hypothesis: the core asks itself for the turn when it takes the message and an
ending empties what is pending, so that it is enough that nobody is in the middle
of a fold (`folded_late`). `OnlyAskedAreSignalled` needs that a channel belongs to
the turn it was opened for (`ChannelInv`), and that nobody sends through a channel
looked up later, which an answer `cancel_turn` does.

**Callbacks.** `BookInv` ties the three places a callback is in: an open one has its
waiter; a released waiter is one whose answer is being handed over (`settling`); an
answer being handed over is recorded. Fresh identifiers are free because every
call's suffix is its own. A turn ends only when every call heard, so that none is
open between turns.

**The gate.** A step of the gate is a step of the book or leaves it alone, so
`BookInv` holds (`GateKeepsBook`). `RunsAreApproved` is not inductive: a call may run on
a grant or a remembered key recorded long before. `GateInv` says who stands for
those: for each there is a call the person approved for the session
(`GrantedByThePerson`, `RememberedByThePerson`), which has acted on its answer and so
stays what it is (`VouchersStay`, from the book's `HeardStays`: a call that resumed
hears nothing more). That a verdict is only used in a turn that smart-approves needs
`JudgedInTurn`. The counts need `CountsWhatItBlocked`: below the limits, whatever was
blocked in a row or in a turn was counted, and in a turn that counts have not been
started for, nothing was blocked.

**The store.** `StoreInv` conjoins its shape; `OneOpener`, one process near the
session and the lease its own; `HandleFollows` and `ReadIsSaved`, that what a process
has read is what is there; `CommitIsAhead`, that a commit is numbered past `CURRENT`
and has written the parts before the next; and `Disk`, that what `CURRENT` names is
whole, the segments past the replayed one are empty, and the title put on disk last
is the one read back. `PublishedIsWhole` needs `CommitIsAhead`, so that no commit
writes into the published generation; that needs `HandleFollows`, which numbers a
commit past `CURRENT`; and that needs `OneOpener`. `ReopenReadsLastStep` needs
`SegmentsAhead`: a new generation is followed by a segment nobody wrote to. `AnyStep`
takes any body and number of journaled steps, so that the steps of a session at work
are among them and its proofs reuse every lemma. `RestInv` adds `Drivers` and
`QuietIsSaved`: between the settlement and the next section, the disk has what memory
has.

**The conversation.** `SaidInv` conjoins `StoreInv`, the type of what processes
hold, and for every process `Said`. A body is `Sound` when every result follows
the answer it belongs to with nothing but results and injected messages between,
every answer has its results in order or none, the answers of a turn are numbered
upwards, no message is newer than `given`, and the person's messages stand in
order. `Sound` must hold of the files as well (`SavedIsSound`), or a reopening
would bring in a body nobody vouches for. `Drives` says that a turn about to call
the model has answers left. `Hears` ties it to the conversation: before a model
call every answer of the turn has its results and none is of a later round, and
while calls run the last answer waits for its results with nothing but injected
messages behind it; so that the results that join follow their answer, and an
early end leaves an answer with none. `Waits` says that pending steering belongs
to a turn in progress and is newer than all the conversation has, which is why
pushing it keeps the order, and that what no model call carried is in one of the
two. Summarising is the step that could lose a message: it is sound because it
takes the conversation the model call just carried, so that nothing unread is left
out. `Begins`, `Added` and their lemmas say what a conversation that grows keeps,
and serve every section that pushes; `LastOwn` is stated by positions so that what
compaction keeps can be proved to be in order.

Only model-checked: liveness (`QueuedItemsAreServed`, `InterruptedTurnsEnd`, `BecomesIdle`,
`UnansweredCallsGoOn`), since the prover does not treat `ENABLED`. Every safety invariant and
action property of the passing runs is a theorem.

## What is not modelled

Within the parts that are: subagents, their callbacks and their calls at the gate;
agents that bypass approvals, calls the rules refuse, the patterns and path scopes
of a requirement, permanent approvals; what a turn streams, entries and what a
client is shown of them, the client's view of revisions; the files a rewind
restores, forks; deletion of a session; a journal line torn by a crash; the chunks a
generation shares with others. Two races `UnifiedSession` has are stated by no run:
`cancel_turn` may signal the turn after the one it was meant for
(`OnlyAskedAreSignalled` with the `cancel` request), and an item popped while it is
folded becomes both steering and a turn. `SavedSession` takes a rewind's idle check and
its section together, and lets an injection come to its section whenever.

Outside them: parts that are pure data or text (wire types, prompts, discovery,
argument parsing), input and output (transport, terminals, voice devices), what
the operating system does with tools, and whatever the plan below has not
reached. `PROJECT.json` gives the reason for each.

## Plan

In this order; the first ten are in place.

1. `QueuedWork`, `TurnQueue`: the promise and the queue.
2. `UnifiedSession`: composes the queue with host, core, drivers and runner.
3. `CallbackBook`: the calls' side of a turn.
4. `TurnQueueProofs`: type, invariants, action properties, refinement.
5. Runs and mutants for each.
6. `CallbackProofs`: the callback book's promises for any number of calls.
7. `SessionProofs`, `SessionInvariants`: the queue's promises inside a session, and the
   session's type; the agreement of host, core and drivers, under what each of its
   promises asks of the client's requests.
8. `Conversation`, `SavedSession`, `ConversationProofs`: messages, calls and results across
   answers, interrupts, compaction, injection and rewind.
9. `DurableSession`, `SessionStore` and their proofs: commits, crash, reopening, and the
   lease that keeps two processes from one session.
10. `GatedCalls`, `GatedProofs`: which calls ask, what an answer grants, what smart
    approve adds. To come: subagents behind their parent's gate.
11. `Subagents`: children, their callbacks and a parent's interruption.
12. `LegacySession`: queue promotion, leases and callbacks over several
    connections; the same `QueuedWork` as its promise.

Runs for 11 and 12: two children or connections, two calls, one interruption; one run
per question, the smaller disagreements folded away where they crowd out a new
module.

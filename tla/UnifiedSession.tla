--------------------------- MODULE UnifiedSession ---------------------------
(***************************************************************************)
(* A session of the default backend at work: the host state and the        *)
(* harness core it drives, each behind a mutex of its own, and the threads *)
(* that take the two mutexes in turn:                                      *)
(*   - the connection that serves the client, one request after another;   *)
(*   - the session's runner, which starts queued turns and due loops;      *)
(*   - one driver per turn or compaction, spawned when it begins.          *)
(* One step is one mutex section with the code around it, so that whatever *)
(* the code reads under a lock and uses after it is released can be stale. *)
(*                                                                         *)
(* Source: vibe-app-server/src/server/unified.rs, unified/{turns,queue,    *)
(* loops}.rs; vibe-harness/src/engine/{turn,session_core,compaction_run}.rs*)
(***************************************************************************)
EXTENDS TurnQueue, FiniteSets

CONSTANTS
    Client,          \* the connection that serves the client
    Runner,          \* the session's runner
    Compaction,      \* what the session runs when it compacts between turns
    Requests,        \* the requests the client sends, by name
    Foldable,        \* the inputs a steer accepts: user content, no context
    MaxRounds,       \* max_iterations: the model calls a turn may make
    DirectTurns,     \* bound: a client starts turns while fewer than this began
    MaxFirings,      \* bound on the firings of scheduled loops
    MaxPending,      \* bound on the messages steered and not yet read
    MaxCompactions,  \* bound on the compactions between turns
    EnvironmentMayFail  \* whether building a turn's environment may fail

Actors     == {Client, Runner}
Publishers == Actors \union Turns
NoItem     == 0

ASSUME SessionConstants ==
    /\ Client # Runner /\ Actors \intersect Turns = {}
    /\ Compaction \notin Turns \union {NoTurn}
    /\ Foldable \subseteq Inputs
    /\ MaxRounds \in Nat \ {0}
    /\ DirectTurns \in Nat /\ MaxFirings \in Nat
    /\ DirectTurns + MaxFirings + MaxIds <= MaxTurns
    /\ MaxPending \in Nat /\ MaxCompactions \in Nat
    /\ EnvironmentMayFail \in BOOLEAN

VARIABLES
    (* The host, beside the queue. *)
    running,      \* Running: a turn, Compaction, or NoTurn
    channel,      \* whose interrupt channel the host holds the sender of
    (* The core. *)
    begun,        \* how many turns began; the last one is numbered begun
    latest,       \* latest_turn: its id and its status
    shown,        \* the turn the session status says is running, or NoTurn
    pendingSteer, \* the turns whose steering no model call carried yet, in order
    mirror,       \* the queue as the session state shows it
    queueItem,    \* the queue item each turn runs
    (* The channels, the drivers and the compaction. *)
    signalled,    \* the turns whose channel holds an interrupt reason
    cancelled,    \* the turns a call of which was answered cancel_turn
    driver,       \* where each turn's driver is
    rounds,       \* the model calls each turn made
    ends,         \* how each turn ended
    compacting,   \* where the compaction between turns is
    compactions,  \* how many there were
    (* The connection and the runner. *)
    at,           \* the section each is about to enter
    item,         \* the queue item it works on
    turn,         \* the turn it works on
    copy,         \* the queue as each publisher read it
    firings,      \* how many loop firings there were
    (* History variables. *)
    held,         \* the items a failed or interrupted turn left behind
    asked         \* the turns a client asked to interrupt

hostVars    == <<running, channel>>
coreVars    == <<begun, latest, shown, pendingSteer, mirror, queueItem>>
driverVars  == <<signalled, cancelled, driver, rounds, ends, compacting, compactions>>
actorVars   == <<at, item, turn, copy, firings>>
historyVars == <<held, asked>>

vars == <<queueVars, hostVars, coreVars, driverVars, actorVars, historyVars>>

View   == [items |-> items, paused |-> paused]
NoView == [items |-> <<>>, paused |-> FALSE]

Init ==
    /\ QueueInit
    /\ running = NoTurn /\ channel = NoTurn
    /\ begun = 0
    /\ latest = [id |-> NoTurn, status |-> "none"]
    /\ shown = NoTurn
    /\ pendingSteer = <<>>
    /\ mirror = NoView
    /\ queueItem = [t \in Turns |-> NoItem]
    /\ signalled = {} /\ cancelled = {}
    /\ driver = [t \in Turns |-> "none"]
    /\ rounds = [t \in Turns |-> 0]
    /\ ends = [t \in Turns |-> "none"]
    /\ compacting = "no" /\ compactions = 0
    /\ at = [a \in Actors |-> "idle"]
    /\ item = [a \in Actors |-> NoItem]
    /\ turn = [a \in Actors |-> NoTurn]
    /\ copy = [p \in Publishers |-> NoView]
    /\ firings = 0
    /\ held = {} /\ asked = {}

\* Faults: only a compaction keeps turns out, a turn leaves the host without an
\* interrupt channel, the host is not freed, a steer or an interrupt is accepted
\* for another turn, the queue pauses after failures only, tools run without
\* looking at the interrupt, one model call too many, a queued turn that waits
\* for an empty queue.
NothingLookedAt  == running # Compaction
TakenSilently(t) == running' = t /\ UNCHANGED channel
NeverFreed       == channel' = NoTurn /\ UNCHANGED running
LatestIs(t)      == latest.id = t
SomeTurnRuns(t)  == running \in Turns
Failed(t)        == ends[t] = "failed"
WaitingForModel  == {"compacting", "calling"}
OneRoundMore(t)  == rounds[t] <= MaxRounds
EmptyQueue(a)    == running = NoTurn /\ items = <<>>

\* latest_turn is the turn t, in progress.
Active(t) == latest = [id |-> t, status |-> "in_progress"]

Goto(a, step) == at' = [at EXCEPT ![a] = step]

-----------------------------------------------------------------------------
(* publish_queue: the queue is read in one section of the host mutex and    *)
(* written to the state in a later one of the core mutex.                   *)

ReadQueue(p)  == copy' = [copy EXCEPT ![p] = View]

WriteQueue(p) ==
    /\ mirror' = copy[p]
    /\ copy' = [copy EXCEPT ![p] = NoView]

ActorReads(a) ==
    /\ at[a] = "publish"
    /\ ReadQueue(a)
    /\ Goto(a, "write")
    /\ UNCHANGED <<queueVars, hostVars, coreVars, driverVars, item, turn, firings,
                   historyVars>>

\* The runner goes on to begin the turn it took; the client's request is over.
ActorWrites(a) ==
    /\ at[a] = "write"
    /\ WriteQueue(a)
    /\ Goto(a, IF item[a] = NoItem THEN "idle" ELSE "check")
    /\ UNCHANGED <<queueVars, hostVars, begun, latest, shown, pendingSteer, queueItem,
                   driverVars, item, turn, firings, historyVars>>

-----------------------------------------------------------------------------
(* The queue's requests: one host section, then the change is published.    *)

ClientQueues ==
    /\ at[Client] = "idle"
    /\ Goto(Client, "publish")
    /\ UNCHANGED <<hostVars, coreVars, driverVars, item, turn, copy, firings, asked>>

ClientEnqueues ==
    /\ "enqueue" \in Requests
    /\ ClientQueues
    /\ \E key \in Keys \union {NoKey}, params \in Inputs : Enqueue(key, params)
    /\ UNCHANGED held

ClientReplaces ==
    /\ "replace" \in Requests
    /\ ClientQueues
    /\ \E key \in Keys \union {NoKey}, params \in Inputs, id \in Ids :
           Replace(key, params, id)
    /\ UNCHANGED held

ClientRemoves ==
    /\ "remove" \in Requests
    /\ ClientQueues
    /\ \E id \in Ids : RemoveItem(id)
    /\ UNCHANGED held

ClientResumes ==
    /\ "resume" \in Requests
    /\ ClientQueues
    /\ Resume
    /\ held' = {}

-----------------------------------------------------------------------------
(* begin_unified_turn: the host is checked in one section, the core commits *)
(* the turn in a second, and the host takes it in a third.                  *)

ClientStarts ==
    /\ "start" \in Requests
    /\ at[Client] = "idle"
    /\ begun < DirectTurns
    /\ Goto(Client, "check")
    /\ UNCHANGED <<queueVars, hostVars, coreVars, driverVars, item, turn, copy,
                   firings, historyVars>>

\* require_idle.
Idle == running = NoTurn

\* A turn no queue item brought waits for the queue to empty.
MayBegin(a) == Idle /\ (item[a] = NoItem => items = <<>>)

\* A refused queue item was already popped: nothing puts it back.
BeginRefused(a) ==
    /\ at[a] = "check"
    /\ ~MayBegin(a)
    /\ Goto(a, "idle")
    /\ item' = [item EXCEPT ![a] = NoItem]
    /\ UNCHANGED <<queueVars, hostVars, coreVars, driverVars, turn, copy, firings,
                   historyVars>>

BeginChecked(a) ==
    /\ at[a] = "check"
    /\ MayBegin(a)
    /\ Goto(a, "commit")
    /\ UNCHANGED <<queueVars, hostVars, coreVars, driverVars, item, turn, copy,
                   firings, historyVars>>

\* start_turn, with the turn's fresh identifier.
BeginCommitted(a) ==
    LET t == begun + 1 IN
    /\ at[a] = "commit"
    /\ t \in Turns
    /\ begun' = t
    /\ latest' = [id |-> t, status |-> "in_progress"]
    /\ shown' = t
    /\ queueItem' = [queueItem EXCEPT ![t] = item[a]]
    /\ turn' = [turn EXCEPT ![a] = t]
    /\ item' = [item EXCEPT ![a] = NoItem]
    /\ Goto(a, "reserve")
    /\ UNCHANGED <<queueVars, hostVars, pendingSteer, mirror, driverVars, copy, firings,
                   historyVars>>

TakeHost(t) == running' = t /\ channel' = t

\* The turn takes the host; its driver is spawned unless its environment
\* cannot be built, an error that leaves the host as it is.
BeginReserved(a) ==
    LET t == turn[a] IN
    /\ at[a] = "reserve"
    /\ TakeHost(t)
    /\ \/ driver' = [driver EXCEPT ![t] = "ready"]
       \/ EnvironmentMayFail /\ UNCHANGED driver
    /\ turn' = [turn EXCEPT ![a] = NoTurn]
    /\ Goto(a, "idle")
    /\ UNCHANGED <<queueVars, coreVars, signalled, cancelled, rounds, ends, compacting,
                   compactions, item, copy, firings, historyVars>>

Begins(a) ==
    \/ BeginRefused(a)
    \/ BeginChecked(a)
    \/ BeginCommitted(a)
    \/ BeginReserved(a)

-----------------------------------------------------------------------------
(* The runner: woken, or at the latest a second later, it looks for work.   *)

\* drain_unified_queue up to begin_unified_turn.
RunnerPops ==
    /\ at[Runner] = "idle"
    /\ Idle
    /\ PopNext
    /\ item' = [item EXCEPT ![Runner] = Head(items).id]
    /\ Goto(Runner, "publish")
    /\ UNCHANGED <<hostVars, coreVars, driverVars, turn, copy, firings, historyVars>>

\* A loop is due and the queue gave nothing: it is rescheduled whether or not
\* its turn can begin.
RunnerFires ==
    /\ at[Runner] = "idle"
    /\ Idle
    /\ paused \/ items = <<>>
    /\ firings < MaxFirings
    /\ firings' = firings + 1
    /\ Goto(Runner, "check")
    /\ UNCHANGED <<queueVars, hostVars, coreVars, driverVars, item, turn, copy,
                   historyVars>>

-----------------------------------------------------------------------------
(* Interrupting and steering the running turn.                              *)

\* Whoever holds the channel now reads the reason; a compaction never does.
Signal == signalled' = signalled \union ({channel} \intersect Turns)

\* require_turn: the turn running is the one the client names.
RequireTurn(t) == running = t

ClientInterrupts(t) ==
    /\ "interrupt" \in Requests
    /\ at[Client] = "idle"
    /\ RequireTurn(t)
    /\ Signal
    /\ asked' = asked \union {t}
    /\ UNCHANGED <<queueVars, hostVars, coreVars, cancelled, driver, rounds, ends,
                   compacting, compactions, actorVars, held>>

\* The core takes a steering message for t.
Steer(t) ==
    /\ pendingSteer' = Append(pendingSteer, t)
    /\ shown' = t
    /\ UNCHANGED <<begun, latest, mirror, queueItem>>

ClientSteers(t) ==
    /\ "steer" \in Requests
    /\ at[Client] = "idle"
    /\ Len(pendingSteer) < MaxPending
    /\ RequireTurn(t)
    /\ turn' = [turn EXCEPT ![Client] = t]
    /\ Goto(Client, "steer")
    /\ UNCHANGED <<queueVars, hostVars, coreVars, driverVars, item, copy, firings,
                   historyVars>>

\* The input was prepared meanwhile: the core is asked again.
SteerAccepted ==
    /\ at[Client] = "steer"
    /\ Active(turn[Client])
    /\ Steer(turn[Client])
    /\ turn' = [turn EXCEPT ![Client] = NoTurn]
    /\ Goto(Client, "idle")
    /\ UNCHANGED <<queueVars, hostVars, driverVars, item, copy, firings, historyVars>>

SteerRefused ==
    /\ at[Client] = "steer"
    /\ ~Active(turn[Client])
    /\ turn' = [turn EXCEPT ![Client] = NoTurn]
    /\ Goto(Client, "idle")
    /\ UNCHANGED <<queueVars, hostVars, coreVars, driverVars, item, copy, firings,
                   historyVars>>

\* unified_queue_steer, host section: an item steered before is answered again.
ClientFolds(id, t) ==
    /\ "fold" \in Requests
    /\ at[Client] = "idle"
    /\ Len(pendingSteer) < MaxPending
    /\ steered[id] = NoTurn
    /\ RequireTurn(t)
    /\ \E i \in DOMAIN items : items[i].id = id /\ items[i].params \in Foldable
    /\ item' = [item EXCEPT ![Client] = id]
    /\ turn' = [turn EXCEPT ![Client] = t]
    /\ Goto(Client, "fold")
    /\ UNCHANGED <<queueVars, hostVars, coreVars, driverVars, copy, firings, historyVars>>

\* Core section: the message joins the turn named, whatever became of it.
FoldSteers ==
    /\ at[Client] = "fold"
    /\ Steer(turn[Client])
    /\ Goto(Client, "leave")
    /\ UNCHANGED <<queueVars, hostVars, driverVars, item, turn, copy, firings,
                   historyVars>>

\* Host section: the item leaves the queue, if it is still there.
FoldLeaves ==
    /\ at[Client] = "leave"
    /\ IF item[Client] \in QueuedIds
       THEN SteerOut(item[Client], turn[Client])
       ELSE UNCHANGED queueVars
    /\ item' = [item EXCEPT ![Client] = NoItem]
    /\ turn' = [turn EXCEPT ![Client] = NoTurn]
    /\ Goto(Client, "publish")
    /\ UNCHANGED <<hostVars, coreVars, driverVars, copy, firings, historyVars>>

-----------------------------------------------------------------------------
(* callback/result with cancel_turn: the answer settles a callback of a     *)
(* running call, the call is handed it, then the turn is interrupted.       *)

ClientCancels(t) ==
    /\ "cancel" \in Requests
    /\ at[Client] = "idle"
    /\ driver[t] = "tools"
    /\ t \notin asked
    /\ asked' = asked \union {t}
    /\ turn' = [turn EXCEPT ![Client] = t]
    /\ Goto(Client, "release")
    /\ UNCHANGED <<queueVars, hostVars, coreVars, driverVars, item, copy, firings, held>>

CancelReleases ==
    /\ at[Client] = "release"
    /\ cancelled' = cancelled \union {turn[Client]}
    /\ turn' = [turn EXCEPT ![Client] = NoTurn]
    /\ Goto(Client, "signal")
    /\ UNCHANGED <<queueVars, hostVars, coreVars, signalled, driver, rounds, ends,
                   compacting, compactions, item, copy, firings, historyVars>>

\* The channel is whichever the host holds by now.
CancelSignals ==
    /\ at[Client] = "signal"
    /\ Signal
    /\ Goto(Client, "idle")
    /\ UNCHANGED <<queueVars, hostVars, coreVars, cancelled, driver, rounds, ends,
                   compacting, compactions, item, turn, copy, firings, historyVars>>

-----------------------------------------------------------------------------
(* The compaction a client asks for between turns.                          *)

ClientCompacts ==
    /\ "compact" \in Requests
    /\ at[Client] = "idle"
    /\ compactions < MaxCompactions
    /\ Idle
    /\ TakeHost(Compaction)
    /\ compactions' = compactions + 1
    /\ \/ compacting' = "summarizing"
       \/ EnvironmentMayFail /\ UNCHANGED compacting
    /\ UNCHANGED <<queueVars, coreVars, signalled, cancelled, driver, rounds, ends,
                   actorVars, historyVars>>

\* Summarized or failed, it leaves the session idle.
CompactionSettles ==
    /\ compacting = "summarizing"
    /\ compacting' = "settled"
    /\ shown' = NoTurn
    /\ UNCHANGED <<queueVars, hostVars, begun, latest, pendingSteer, mirror, queueItem,
                   signalled, cancelled, driver, rounds, ends, compactions, actorVars,
                   historyVars>>

\* end_turn.
FreeHost == running' = NoTurn /\ channel' = NoTurn

CompactionEnds ==
    /\ compacting = "settled"
    /\ compacting' = "no"
    /\ FreeHost
    /\ UNCHANGED <<queueVars, coreVars, signalled, cancelled, driver, rounds, ends,
                   compactions, actorVars, historyVars>>

-----------------------------------------------------------------------------
(* The driver of a turn: run_turn, then what drive_unified_turn does when   *)
(* it returns.                                                              *)

Drive(t, from, to) ==
    /\ driver[t] = from
    /\ driver' = [driver EXCEPT ![t] = to]

\* The turn settles in one core section, which leaves no steering pending: a
\* turn that completes has none or just handed it over, and the others keep
\* it in the conversation.
Settle(t, how) ==
    /\ driver' = [driver EXCEPT ![t] = "settled"]
    /\ ends' = [ends EXCEPT ![t] = how]
    /\ latest' = [id |-> t, status |-> how]
    /\ shown' = NoTurn
    /\ pendingSteer' = <<>>
    /\ UNCHANGED <<queueVars, hostVars, begun, mirror, queueItem, signalled, cancelled,
                   rounds, compacting, compactions, actorVars, historyVars>>

MoreRounds(t) == rounds[t] < MaxRounds

CallsModel(t) ==
    /\ \/ Drive(t, "ready", "calling")
       \/ Drive(t, "compacted", "calling")
    /\ rounds' = [rounds EXCEPT ![t] = @ + 1]
    /\ UNCHANGED <<queueVars, hostVars, coreVars, signalled, cancelled, ends, compacting,
                   compactions, actorVars, historyVars>>

\* The context outgrew its threshold; a compaction empties it.
CompactsFirst(t) ==
    /\ Drive(t, "ready", "compacting")
    /\ UNCHANGED <<queueVars, hostVars, coreVars, signalled, cancelled, rounds, ends,
                   compacting, compactions, actorVars, historyVars>>

Compacted(t) ==
    /\ Drive(t, "compacting", "compacted")
    /\ shown' = t
    /\ UNCHANGED <<queueVars, hostVars, begun, latest, pendingSteer, mirror, queueItem,
                   signalled, cancelled, rounds, ends, compacting, compactions, actorVars,
                   historyVars>>

\* A call or pending steering keeps the turn going.
AnswerContinues(t) ==
    /\ Drive(t, "calling", "tools")
    /\ shown' = t
    /\ UNCHANGED <<queueVars, hostVars, begun, latest, pendingSteer, mirror, queueItem,
                   signalled, cancelled, rounds, ends, compacting, compactions, actorVars,
                   historyVars>>

AnswerCompletes(t) ==
    /\ driver[t] = "calling"
    /\ pendingSteer = <<>>
    /\ Settle(t, "completed")

\* The calls' results and the pending steering join the conversation.
ToolsFinish(t) ==
    /\ MoreRounds(t)
    /\ Drive(t, "tools", "ready")
    /\ shown' = t
    /\ pendingSteer' = <<>>
    /\ UNCHANGED <<queueVars, hostVars, begun, latest, mirror, queueItem, signalled,
                   cancelled, rounds, ends, compacting, compactions, actorVars,
                   historyVars>>

LastRoundCompletes(t) ==
    /\ driver[t] = "tools"
    /\ ~MoreRounds(t)
    /\ Settle(t, "completed")

\* An image the model cannot read, a provider's error, a summary refused, a
\* callback closed.
TurnFails(t) ==
    /\ driver[t] \in {"ready", "compacted", "compacting", "calling", "tools"}
    /\ Settle(t, "failed")

\* Where the driver selects between its work and the interrupt.
Interruptible == {"compacting", "calling", "tools"}

\* What the turn waits for loses to the interrupt, or wins.
TurnInterrupted(t) ==
    /\ t \in signalled
    /\ driver[t] \in Interruptible
    /\ Settle(t, "interrupted")

TurnCancelled(t) ==
    /\ t \in cancelled
    /\ driver[t] = "tools"
    /\ Settle(t, "interrupted")

\* What the driver held goes with it.
Dropped(t) ==
    /\ signalled' = signalled \ {t}
    /\ cancelled' = cancelled \ {t}
    /\ rounds' = [rounds EXCEPT ![t] = 0]
    /\ ends' = [ends EXCEPT ![t] = "none"]

PausesQueue(t) == ends[t] # "completed"

\* drive_unified_turn's last host section: the queue pauses in the same
\* section that frees the session.
EndTurn(t) ==
    /\ driver[t] = "settled"
    /\ FreeHost
    /\ IF PausesQueue(t) /\ ~paused /\ items # <<>>
       THEN Pause /\ driver' = [driver EXCEPT ![t] = "publish"]
       ELSE UNCHANGED queueVars /\ driver' = [driver EXCEPT ![t] = "over"]
    /\ held' = IF ends[t] # "completed" THEN QueuedIds ELSE held
    /\ Dropped(t)
    /\ asked' = asked \ {t}
    /\ UNCHANGED <<coreVars, compacting, compactions, actorVars>>

DriverReads(t) ==
    /\ Drive(t, "publish", "write")
    /\ ReadQueue(t)
    /\ UNCHANGED <<queueVars, hostVars, coreVars, signalled, cancelled, rounds, ends,
                   compacting, compactions, at, item, turn, firings, historyVars>>

DriverWrites(t) ==
    /\ Drive(t, "write", "over")
    /\ WriteQueue(t)
    /\ UNCHANGED <<queueVars, hostVars, begun, latest, shown, pendingSteer, queueItem,
                   signalled, cancelled, rounds, ends, compacting, compactions, at, item,
                   turn, firings, historyVars>>

-----------------------------------------------------------------------------
(* The specification. *)

\* A request the connection received; it serves no other until it is done.
ClientRequests ==
    \/ ClientEnqueues \/ ClientReplaces \/ ClientRemoves \/ ClientResumes
    \/ ClientStarts \/ ClientCompacts
    \/ \E t \in Turns : ClientInterrupts(t) \/ ClientSteers(t) \/ ClientCancels(t)
    \/ \E id \in Ids, t \in Turns : ClientFolds(id, t)

ClientContinues ==
    \/ ActorReads(Client) \/ ActorWrites(Client)
    \/ Begins(Client)
    \/ SteerAccepted \/ SteerRefused
    \/ FoldSteers \/ FoldLeaves
    \/ CancelReleases \/ CancelSignals

RunnerSteps ==
    \/ RunnerPops \/ RunnerFires
    \/ ActorReads(Runner) \/ ActorWrites(Runner)
    \/ Begins(Runner)

\* What a driver does without waiting for anything outside the session, or
\* for an interrupt it was sent.
DriverMoves(t) ==
    \/ CallsModel(t) \/ CompactsFirst(t)
    \/ TurnInterrupted(t) \/ TurnCancelled(t)
    \/ EndTurn(t) \/ DriverReads(t) \/ DriverWrites(t)

\* What it waits for: the provider and the calls.
WorldAnswers(t) ==
    \/ Compacted(t)
    \/ AnswerContinues(t) \/ AnswerCompletes(t)
    \/ ToolsFinish(t) \/ LastRoundCompletes(t)
    \/ TurnFails(t)

Next ==
    \/ ClientRequests \/ ClientContinues
    \/ RunnerSteps
    \/ CompactionSettles \/ CompactionEnds
    \/ \E t \in Turns : DriverMoves(t) \/ WorldAnswers(t)

\* Threads are scheduled and a request received is served to its end. Nothing
\* says that a client sends a request, nor that the world answers.
Fairness ==
    /\ WF_vars(ClientContinues)
    /\ WF_vars(RunnerSteps)
    /\ WF_vars(CompactionEnds)
    /\ \A t \in Turns : WF_vars(DriverMoves(t))

Spec == Init /\ [][Next]_vars /\ Fairness

\* What liveness may need besides: the provider and the tools answer at last,
\* each under its own timeout.
WorldIsFair ==
    /\ WF_vars(CompactionSettles)
    /\ \A t \in Turns : WF_vars(WorldAnswers(t))

-----------------------------------------------------------------------------
(* Properties. *)

Steps == {"idle", "publish", "write", "check", "commit", "reserve", "steer", "fold",
          "leave", "release", "signal"}
Phases == {"none", "ready", "calling", "compacting", "compacted", "tools", "settled",
           "publish", "write", "over"}
Endings == {"completed", "interrupted", "failed"}
Views == [items : Seq(Record), paused : BOOLEAN]

\* The type of the session's state.
TypeOK ==
    /\ QueueTypeOK
    /\ running \in Turns \union {NoTurn, Compaction}
    /\ channel \in Turns \union {NoTurn, Compaction}
    /\ begun \in 0..MaxTurns
    /\ latest \in [id : Turns \union {NoTurn},
                   status : Endings \union {"none", "in_progress"}]
    /\ shown \in Turns \union {NoTurn}
    /\ pendingSteer \in Seq(Turns)
    /\ mirror \in Views
    /\ queueItem \in [Turns -> Ids \union {NoItem}]
    /\ signalled \subseteq Turns
    /\ cancelled \subseteq Turns
    /\ driver \in [Turns -> Phases]
    /\ rounds \in [Turns -> 0..MaxRounds]
    /\ ends \in [Turns -> Endings \union {"none"}]
    /\ compacting \in {"no", "summarizing", "settled"}
    /\ compactions \in 0..MaxCompactions
    /\ at \in [Actors -> Steps]
    /\ item \in [Actors -> Ids \union {NoItem}]
    /\ turn \in [Actors -> Turns \union {NoTurn}]
    /\ copy \in [Publishers -> Views]
    /\ firings \in 0..MaxFirings
    /\ held \subseteq Ids
    /\ asked \subseteq Turns

\* The turns and the compaction that may still touch the session.
AtWork == {t \in Turns : driver[t] \notin {"none", "publish", "write", "over"}}

\* The session runs one turn or one compaction at a time: what require_idle is
\* there for.
OneTurnAtATime ==
    /\ Cardinality(AtWork) <= 1
    /\ compacting # "no" => AtWork = {}

\* The host, the core and the driver agree on the turn that runs: the turn the
\* host would interrupt or steer is the one the core has in progress, until
\* its driver settled it, and no other is.
HostFollowsCore ==
    /\ running \in Turns =>
           /\ channel = running
           /\ latest.id = running
           /\ latest.status = "in_progress" \/ driver[running] = "settled"
    /\ latest.status = "in_progress" =>
           running = latest.id \/ \E a \in Actors : turn[a] = latest.id

\* A session busy with a turn has a driver for it, so that it becomes free
\* again.
BusyHasDriver == running \in Turns => running \in AtWork

\* A queued item the runner took is in its hands or became a turn.
TakenItemRuns ==
    \A id \in Ids : fate[id] = "taken" =>
        item[Runner] = id \/ \E t \in Turns : queueItem[t] = id

\* An item reaches the model once: as one turn, or as steering of another, and
\* not after the client took it back.
ItemRunsOnce ==
    /\ \A t, u \in Turns : t # u /\ queueItem[t] = queueItem[u] => queueItem[t] = NoItem
    /\ \A t \in Turns : queueItem[t] # NoItem => fate[queueItem[t]] = "taken"

\* An item a failed or interrupted turn left in the queue waits there for the
\* client to resume, steer or remove it, whoever looks at the queue first.
HeldItemsWait == held \intersect QueuedIds # {} => paused

\* Steering waits only while a turn is in progress whose next model call will
\* carry it.
SteeringHasATurn == pendingSteer # <<>> => latest.status = "in_progress"

\* The session shows a turn running exactly while one is in progress.
ShownIsInProgress ==
    /\ shown # NoTurn => latest = [id |-> shown, status |-> "in_progress"]
    /\ latest.status = "in_progress" => shown = latest.id

\* Only a turn the client asked to stop is told to.
OnlyAskedAreSignalled == signalled \subseteq asked

\* Once every change was published, the session state shows the queue as it is.
MirrorSettles ==
    (/\ \A a \in Actors : at[a] \notin {"publish", "write"}
     /\ \A t \in Turns : driver[t] \notin {"publish", "write"})
    => mirror = View

\* What the client queues starts, is folded or is removed, unless the queue is
\* paused: whatever the drivers, the loops and the client do meanwhile.
QueuedItemsAreServed ==
    WorldIsFair => \A id \in Ids : fate[id] = "queued" ~> fate[id] # "queued" \/ paused

\* A turn the client interrupts ends, even if the provider or a tool never
\* answers.
InterruptedTurnsEnd == \A t \in Turns : t \in signalled ~> driver[t] = "over"

\* The session becomes free again, for a client or for the runner.
BecomesIdle == WorldIsFair => (running # NoTurn ~> running = NoTurn)
=============================================================================

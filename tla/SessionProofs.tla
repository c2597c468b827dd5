---------------------------- MODULE SessionProofs ----------------------------
(***************************************************************************)
(* What the queue's promises are worth inside a session: they hold under   *)
(* every interleaving of the connection, the runner and the drivers, for   *)
(* any number of items, turns, loops and compactions.                      *)
(***************************************************************************)
EXTENDS UnifiedSession, TurnQueueProofs

-----------------------------------------------------------------------------
(* Where the connection and the runner are.  A fold knows its turn until the *)
(* item left the queue.                                                      *)

PlacesOK ==
    /\ at \in [Actors -> Steps]
    /\ turn \in [Actors -> Turns \union {NoTurn}]
    /\ at[Client] \in {"fold", "leave"} => turn[Client] \in Turns

\* An actor that goes elsewhere, or a step of nobody's place.
LEMMA MovesKeepPlaces ==
    ASSUME PlacesOK, NEW a \in Actors, NEW step \in Steps, Goto(a, step),
           NEW t \in Turns \union {NoTurn},
           turn' \in {turn, [turn EXCEPT ![a] = t]},
           step \in {"fold", "leave"} => turn'[a] \in Turns
    PROVE  PlacesOK'
  BY SessionConstants DEF PlacesOK, Goto, Actors

LEMMA SamePlaces ==
    ASSUME PlacesOK, UNCHANGED <<at, turn>>
    PROVE  PlacesOK'
  BY DEF PlacesOK

\* A step of an actor that folds nothing.
LEMMA ActorKeepsPlaces ==
    ASSUME PlacesOK, NEW a \in Actors,
           ActorReads(a) \/ ActorWrites(a) \/ Begins(a)
    PROVE  PlacesOK'
  <1>1. CASE ActorReads(a) \/ ActorWrites(a)
    <2>1. PICK step \in {"write", "idle", "check"} : Goto(a, step)
      BY <1>1 DEF ActorReads, ActorWrites
    <2>2. turn' = turn
      BY <1>1 DEF ActorReads, ActorWrites
    <2>3. QED
      BY <2>1, <2>2, MovesKeepPlaces DEF Steps
  <1>2. CASE BeginRefused(a) \/ BeginChecked(a)
    <2>1. PICK step \in {"idle", "commit"} : Goto(a, step)
      BY <1>2 DEF BeginRefused, BeginChecked
    <2>2. turn' = turn
      BY <1>2 DEF BeginRefused, BeginChecked
    <2>3. QED
      BY <2>1, <2>2, MovesKeepPlaces DEF Steps
  <1>3. CASE BeginCommitted(a)
    <2>1. PICK t \in Turns : turn' = [turn EXCEPT ![a] = t]
      BY <1>3 DEF BeginCommitted
    <2>2. Goto(a, "reserve")
      BY <1>3 DEF BeginCommitted
    <2>3. QED
      BY <2>1, <2>2, MovesKeepPlaces DEF Steps
  <1>4. CASE BeginReserved(a)
    <2>1. turn' = [turn EXCEPT ![a] = NoTurn] /\ Goto(a, "idle")
      BY <1>4 DEF BeginReserved
    <2>2. QED
      BY <2>1, MovesKeepPlaces DEF Steps
  <1>5. QED
    BY <1>1, <1>2, <1>3, <1>4 DEF Begins

LEMMA RequestsKeepPlaces ==
    ASSUME PlacesOK, ClientRequests
    PROVE  PlacesOK'
  <1>1. Client \in Actors
    BY DEF Actors
  <1>2. CASE ClientEnqueues \/ ClientReplaces \/ ClientRemoves \/ ClientResumes
    <2>1. Goto(Client, "publish") /\ turn' = turn
      BY <1>2 DEF ClientEnqueues, ClientReplaces, ClientRemoves, ClientResumes, ClientQueues
    <2>2. QED
      BY <1>1, <2>1, MovesKeepPlaces DEF Steps
  <1>3. CASE ClientStarts
    <2>1. Goto(Client, "check") /\ turn' = turn
      BY <1>3 DEF ClientStarts
    <2>2. QED
      BY <1>1, <2>1, MovesKeepPlaces DEF Steps
  <1>4. CASE ClientCompacts
    BY <1>4, SamePlaces DEF ClientCompacts, actorVars
  <1>5. ASSUME NEW t \in Turns, ClientInterrupts(t)
        PROVE  PlacesOK'
    BY <1>5, SamePlaces DEF ClientInterrupts, actorVars
  <1>6. ASSUME NEW t \in Turns, NEW step \in {"steer", "release", "fold"},
               turn' = [turn EXCEPT ![Client] = t], Goto(Client, step)
        PROVE  PlacesOK'
    <2>1. turn'[Client] = t
      BY <1>1, <1>6 DEF PlacesOK
    <2>2. QED
      BY <1>1, <1>6, <2>1, MovesKeepPlaces DEF Steps
  <1>7. ASSUME NEW t \in Turns, ClientSteers(t)
        PROVE  PlacesOK'
    BY <1>6, <1>7 DEF ClientSteers
  <1>8. ASSUME NEW t \in Turns, ClientCancels(t)
        PROVE  PlacesOK'
    BY <1>6, <1>8 DEF ClientCancels
  <1>9. ASSUME NEW t \in Turns, NEW id \in Ids, ClientFolds(id, t)
        PROVE  PlacesOK'
    BY <1>6, <1>9 DEF ClientFolds
  <1>10. QED
    BY <1>2, <1>3, <1>4, <1>5, <1>7, <1>8, <1>9 DEF ClientRequests

LEMMA ContinuesKeepPlaces ==
    ASSUME PlacesOK, ClientContinues
    PROVE  PlacesOK'
  <1>1. Client \in Actors
    BY DEF Actors
  <1>2. CASE ActorReads(Client) \/ ActorWrites(Client) \/ Begins(Client)
    BY <1>1, <1>2, ActorKeepsPlaces
  <1>3. CASE SteerAccepted \/ SteerRefused \/ FoldLeaves \/ CancelReleases
    <2>1. PICK step \in {"idle", "publish", "signal"} : Goto(Client, step)
      BY <1>3 DEF SteerAccepted, SteerRefused, FoldLeaves, CancelReleases
    <2>2. turn' = [turn EXCEPT ![Client] = NoTurn]
      BY <1>3 DEF SteerAccepted, SteerRefused, FoldLeaves, CancelReleases
    <2>3. QED
      BY <1>1, <2>1, <2>2, MovesKeepPlaces DEF Steps
  <1>4. CASE FoldSteers
    <2>1. turn' = turn /\ turn[Client] \in Turns /\ Goto(Client, "leave")
      BY <1>4 DEF FoldSteers, PlacesOK
    <2>2. QED
      BY <1>1, <2>1, MovesKeepPlaces DEF Steps
  <1>5. CASE CancelSignals
    <2>1. turn' = turn /\ Goto(Client, "idle")
      BY <1>5 DEF CancelSignals
    <2>2. QED
      BY <1>1, <2>1, MovesKeepPlaces DEF Steps
  <1>6. QED
    BY <1>2, <1>3, <1>4, <1>5 DEF ClientContinues

LEMMA RunnerKeepsPlaces ==
    ASSUME PlacesOK, RunnerSteps
    PROVE  PlacesOK'
  <1>1. Runner \in Actors
    BY DEF Actors
  <1>2. CASE RunnerPops \/ RunnerFires
    <2>1. PICK step \in {"publish", "check"} : Goto(Runner, step)
      BY <1>2 DEF RunnerPops, RunnerFires
    <2>2. turn' = turn
      BY <1>2 DEF RunnerPops, RunnerFires
    <2>3. QED
      BY <1>1, <2>1, <2>2, MovesKeepPlaces DEF Steps
  <1>3. CASE ActorReads(Runner) \/ ActorWrites(Runner) \/ Begins(Runner)
    BY <1>1, <1>3, ActorKeepsPlaces
  <1>4. QED
    BY <1>2, <1>3 DEF RunnerSteps

\* Drivers and compactions leave the connection and the runner where they are.
LEMMA DriversStayOut ==
    ASSUME \/ CompactionSettles \/ CompactionEnds
           \/ \E t \in Turns : DriverMoves(t) \/ WorldAnswers(t)
    PROVE  UNCHANGED <<at, turn>>
  <1>1. CASE CompactionSettles \/ CompactionEnds
    BY <1>1 DEF CompactionSettles, CompactionEnds, actorVars
  <1>2. ASSUME NEW t \in Turns, NEW how, Settle(t, how)
        PROVE  UNCHANGED <<at, turn>>
    BY <1>2 DEF Settle, actorVars
  <1>3. ASSUME NEW t \in Turns, DriverMoves(t)
        PROVE  UNCHANGED <<at, turn>>
    BY <1>2, <1>3 DEF DriverMoves, CallsModel, CompactsFirst, TurnInterrupted, TurnCancelled,
                      EndTurn, DriverReads, DriverWrites, actorVars
  <1>4. ASSUME NEW t \in Turns, WorldAnswers(t)
        PROVE  UNCHANGED <<at, turn>>
    BY <1>2, <1>4 DEF WorldAnswers, Compacted, AnswerContinues, AnswerCompletes, ToolsFinish,
                      LastRoundCompletes, TurnFails, actorVars
  <1>5. QED
    BY <1>1, <1>3, <1>4

LEMMA PlacesHold == Spec => []PlacesOK
  <1>1. Init => PlacesOK
    BY DEF Init, PlacesOK, Steps, Actors
  <1>2. PlacesOK /\ [Next]_vars => PlacesOK'
    <2> SUFFICES ASSUME PlacesOK, [Next]_vars
                 PROVE  PlacesOK'
      OBVIOUS
    <2>1. CASE ClientRequests \/ ClientContinues \/ RunnerSteps
      BY <2>1, RequestsKeepPlaces, ContinuesKeepPlaces, RunnerKeepsPlaces
    <2>2. CASE \/ CompactionSettles \/ CompactionEnds
               \/ \E t \in Turns : DriverMoves(t) \/ WorldAnswers(t)
      BY <2>2, DriversStayOut, SamePlaces
    <2>3. CASE UNCHANGED vars
      BY <2>3, SamePlaces DEF vars, actorVars
    <2>4. QED
      BY <2>1, <2>2, <2>3 DEF Next
  <1>3. QED
    BY <1>1, <1>2, PTL DEF Spec

-----------------------------------------------------------------------------
(* What a step of the session does to the queue, and to what is remembered  *)
(* of the items a failed or interrupted turn left in it.                    *)

QueueWorks ==
    \/ \E key \in Keys \union {NoKey}, params \in Inputs : Enqueue(key, params)
    \/ \E key \in Keys \union {NoKey}, params \in Inputs, id \in Ids :
           Replace(key, params, id)
    \/ \E id \in Ids : RemoveItem(id)
    \/ \E id \in Ids, t \in Turns : SteerOut(id, t)
    \/ PopNext

SessionQueueStep ==
    \/ QueueWorks /\ UNCHANGED held
    \/ Resume /\ held' = {}
    \/ Pause /\ held' = QueuedIds
    \/ UNCHANGED <<queueVars, held>>
    \/ UNCHANGED queueVars /\ held' = QueuedIds /\ (paused \/ items = <<>>)

LEMMA RequestsQueue ==
    ASSUME ClientRequests
    PROVE  SessionQueueStep
  <1>1. CASE ClientEnqueues \/ ClientReplaces \/ ClientRemoves \/ ClientResumes
    BY <1>1 DEF ClientEnqueues, ClientReplaces, ClientRemoves, ClientResumes,
                SessionQueueStep, QueueWorks
  <1>2. CASE ClientStarts \/ ClientCompacts
    BY <1>2 DEF ClientStarts, ClientCompacts, SessionQueueStep, historyVars
  <1>3. ASSUME NEW t \in Turns, ClientInterrupts(t) \/ ClientSteers(t) \/ ClientCancels(t)
        PROVE  SessionQueueStep
    BY <1>3 DEF ClientInterrupts, ClientSteers, ClientCancels, SessionQueueStep, historyVars
  <1>4. ASSUME NEW id \in Ids, NEW t \in Turns, ClientFolds(id, t)
        PROVE  SessionQueueStep
    BY <1>4 DEF ClientFolds, SessionQueueStep, historyVars
  <1>5. QED
    BY <1>1, <1>2, <1>3, <1>4 DEF ClientRequests

LEMMA ActorQueues ==
    ASSUME NEW a \in Actors, ActorReads(a) \/ ActorWrites(a) \/ Begins(a)
    PROVE  SessionQueueStep
  BY DEF ActorReads, ActorWrites, Begins, BeginRefused, BeginChecked, BeginCommitted,
         BeginReserved, SessionQueueStep, historyVars

LEMMA ContinuesQueue ==
    ASSUME PlacesOK, QueueTypeOK, ClientContinues
    PROVE  SessionQueueStep
  <1>1. CASE ActorReads(Client) \/ ActorWrites(Client) \/ Begins(Client)
    BY <1>1, ActorQueues DEF Actors
  <1>2. CASE SteerAccepted \/ SteerRefused \/ FoldSteers \/ CancelReleases \/ CancelSignals
    BY <1>2 DEF SteerAccepted, SteerRefused, FoldSteers, CancelReleases, CancelSignals,
                SessionQueueStep, historyVars
  <1>3. CASE FoldLeaves
    <2>1. turn[Client] \in Turns /\ UNCHANGED held
      BY <1>3 DEF FoldLeaves, PlacesOK, historyVars
    <2>2. CASE item[Client] \in QueuedIds
      <3>1. item[Client] \in Ids
        BY <2>2, ItemHasId DEF QueuedIds
      <3>2. SteerOut(item[Client], turn[Client])
        BY <1>3, <2>2 DEF FoldLeaves
      <3>3. QED
        BY <2>1, <3>1, <3>2 DEF SessionQueueStep, QueueWorks
    <2>3. CASE item[Client] \notin QueuedIds
      BY <1>3, <2>1, <2>3 DEF FoldLeaves, SessionQueueStep
    <2>4. QED
      BY <2>2, <2>3
  <1>4. QED
    BY <1>1, <1>2, <1>3 DEF ClientContinues

LEMMA RunnerQueues ==
    ASSUME RunnerSteps
    PROVE  SessionQueueStep
  <1>1. CASE RunnerPops \/ RunnerFires
    BY <1>1 DEF RunnerPops, RunnerFires, SessionQueueStep, QueueWorks, historyVars
  <1>2. CASE ActorReads(Runner) \/ ActorWrites(Runner) \/ Begins(Runner)
    BY <1>2, ActorQueues DEF Actors
  <1>3. QED
    BY <1>1, <1>2 DEF RunnerSteps

\* Of all a driver does, only its last host section touches the queue.
LEMMA DriverQueues ==
    ASSUME NEW t \in Turns, DriverMoves(t) \/ WorldAnswers(t)
    PROVE  SessionQueueStep
  <1>1. ASSUME NEW how, Settle(t, how)
        PROVE  SessionQueueStep
    BY <1>1 DEF Settle, SessionQueueStep, historyVars
  <1>2. CASE EndTurn(t)
    BY <1>2 DEF EndTurn, PausesQueue, SessionQueueStep
  <1>3. CASE CallsModel(t) \/ CompactsFirst(t) \/ DriverReads(t) \/ DriverWrites(t)
    BY <1>3 DEF CallsModel, CompactsFirst, DriverReads, DriverWrites, SessionQueueStep,
                historyVars
  <1>4. CASE TurnInterrupted(t) \/ TurnCancelled(t)
    BY <1>1, <1>4 DEF TurnInterrupted, TurnCancelled
  <1>5. CASE Compacted(t) \/ AnswerContinues(t) \/ ToolsFinish(t)
    BY <1>5 DEF Compacted, AnswerContinues, ToolsFinish, SessionQueueStep, historyVars
  <1>6. CASE AnswerCompletes(t) \/ LastRoundCompletes(t) \/ TurnFails(t)
    BY <1>1, <1>6 DEF AnswerCompletes, LastRoundCompletes, TurnFails
  <1>7. QED
    BY <1>2, <1>3, <1>4, <1>5, <1>6 DEF DriverMoves, WorldAnswers

LEMMA StepsQueue ==
    ASSUME PlacesOK, QueueTypeOK, [Next]_vars
    PROVE  SessionQueueStep
  <1>1. CASE ClientRequests \/ ClientContinues \/ RunnerSteps
    BY <1>1, RequestsQueue, ContinuesQueue, RunnerQueues
  <1>2. CASE CompactionSettles \/ CompactionEnds
    BY <1>2 DEF CompactionSettles, CompactionEnds, SessionQueueStep, historyVars
  <1>3. ASSUME NEW t \in Turns, DriverMoves(t) \/ WorldAnswers(t)
        PROVE  SessionQueueStep
    BY <1>3, DriverQueues
  <1>4. CASE UNCHANGED vars
    BY <1>4 DEF vars, historyVars, SessionQueueStep
  <1>5. QED
    BY <1>1, <1>2, <1>3, <1>4 DEF Next

LEMMA QueueStepsOnly ==
    ASSUME SessionQueueStep
    PROVE  [QueueNext]_queueVars
  BY DEF SessionQueueStep, QueueWorks, QueueNext

-----------------------------------------------------------------------------
(* The session's queue is a queue.                                           *)

\* Whatever the threads of a session do in between, the queue takes no step but
\* those of queue.rs: all that is proved of the queue alone holds in a session.
THEOREM SessionRunsTheQueue == Spec => QueueSpec
  <1>1. Init => QueueInit
    BY DEF Init
  <1>2. PlacesOK /\ QueueTypeOK /\ [Next]_vars => [QueueNext]_queueVars
    BY StepsQueue, QueueStepsOnly
  <1>3. PlacesOK /\ QueueTypeOK /\ [Next]_vars => QueueTypeOK'
    BY <1>2, QueueTypeInductive
  <1>4. Spec => []QueueTypeOK
    BY <1>1, <1>3, QueueTypeInit, PlacesHold, PTL DEF Spec
  <1>5. QED
    BY <1>1, <1>2, <1>4, PlacesHold, PTL DEF Spec, QueueSpec

\* What a client of a session may rely on: its queued work is served oldest
\* first, once, and never while the queue is held.
THEOREM SessionKeepsQueuedWork == Spec => KeepsQueuedWork
  BY SessionRunsTheQueue, ImplementsQueuedWork, PTL

-----------------------------------------------------------------------------
(* Items a failed or interrupted turn left behind wait for the client.       *)

\* The invariant adds that a held item was created: one created later is new,
\* and may run.
HeldInv ==
    /\ HeldItemsWait
    /\ \A id \in held : id \in Ids /\ fate[id] # "unknown"

\* An item that leaves, for whatever reason, keeps the others waiting.
LEMMA LeaveKeepsHeld ==
    ASSUME QueueInv, HeldInv, NEW i \in DOMAIN items,
           NEW how \in {"taken", "removed", "steered"}, Leave(i, how), UNCHANGED held
    PROVE  HeldInv'
  <1>1. /\ QueuedIds' = QueuedIds \ {items[i].id}
        /\ paused' = (paused /\ items' # <<>>)
    BY LeaveQueued, LeaveShape DEF QueueInv
  <1>2. \A id \in Ids : fate'[id] = IF id = items[i].id THEN how ELSE fate[id]
    BY LeaveFate
  <1>3. \A id \in held' : id \in Ids /\ fate'[id] # "unknown"
    BY <1>2 DEF HeldInv
  <1>4. QueuedIds' # {} => items' # <<>>
    BY DEF QueuedIds
  <1>5. HeldItemsWait'
    BY <1>1, <1>4 DEF HeldInv, HeldItemsWait
  <1>6. QED
    BY <1>3, <1>5 DEF HeldInv

LEMMA EnqueueKeepsHeld ==
    ASSUME QueueInv, QueueInv', HeldInv, UNCHANGED held,
           NEW key \in Keys \union {NoKey}, NEW params \in Inputs, Enqueue(key, params)
    PROVE  HeldInv'
  <1>1. /\ created < MaxIds /\ UNCHANGED paused
        /\ fate' = [fate EXCEPT ![created + 1] = "queued"]
    BY DEF Enqueue, FreshId
  <1>2. created + 1 \in Ids /\ fate[created + 1] = "unknown"
    BY <1>1, QueueConstants DEF QueueInv, QueueTypeOK, FateAgrees, Ids
  <1>3. \A id \in Ids : fate'[id] = IF id = created + 1 THEN "queued" ELSE fate[id]
    BY <1>1 DEF QueueInv, QueueTypeOK
  <1>4. \A id \in held' : id \in Ids /\ fate'[id] # "unknown"
    BY <1>3 DEF HeldInv
  <1>5. held' \intersect QueuedIds' \subseteq held \intersect QueuedIds
    BY <1>2, <1>3, QueuedIdsTyped DEF HeldInv, QueueInv, FateAgrees
  <1>6. QED
    BY <1>1, <1>4, <1>5 DEF HeldInv, HeldItemsWait

LEMMA ReplaceKeepsHeld ==
    ASSUME QueueInv, QueueInv', HeldInv, UNCHANGED held,
           NEW key \in Keys \union {NoKey}, NEW params \in Inputs, NEW id \in Ids,
           Replace(key, params, id)
    PROVE  HeldInv'
  <1>1. UNCHANGED <<paused, fate>>
    BY DEF Replace
  <1>2. held' \intersect QueuedIds' \subseteq held \intersect QueuedIds
    BY <1>1, QueuedIdsTyped DEF HeldInv, QueueInv, FateAgrees
  <1>3. QED
    BY <1>1, <1>2 DEF HeldInv, HeldItemsWait

LEMMA WorksKeepHeld ==
    ASSUME QueueInv, QueueInv', HeldInv, QueueWorks, UNCHANGED held
    PROVE  HeldInv'
  <1>1. ASSUME NEW id \in Ids, RemoveItem(id)
        PROVE  HeldInv'
    BY <1>1, LeaveKeepsHeld DEF RemoveItem
  <1>2. ASSUME NEW id \in Ids, NEW t \in Turns, SteerOut(id, t)
        PROVE  HeldInv'
    BY <1>2, LeaveKeepsHeld DEF SteerOut
  <1>3. CASE PopNext
    <2>1. 1 \in DOMAIN items
      BY <1>3 DEF PopNext, QueueInv, QueueTypeOK
    <2>2. QED
      BY <1>3, <2>1, LeaveKeepsHeld DEF PopNext
  <1>4. QED
    BY <1>1, <1>2, <1>3, EnqueueKeepsHeld, ReplaceKeepsHeld DEF QueueWorks

LEMMA StepsKeepHeld ==
    ASSUME QueueInv, QueueInv', HeldInv, SessionQueueStep
    PROVE  HeldInv'
  <1>1. CASE QueueWorks /\ UNCHANGED held
    BY <1>1, WorksKeepHeld
  <1>2. CASE Resume /\ held' = {}
    BY <1>2 DEF HeldInv, HeldItemsWait
  <1>3. \A id \in QueuedIds : id \in Ids /\ fate[id] # "unknown"
    BY QueuedIdsTyped DEF QueueInv, FateAgrees
  <1>4. CASE Pause /\ held' = QueuedIds
    BY <1>3, <1>4 DEF Pause, HeldInv, HeldItemsWait
  <1>5. CASE UNCHANGED <<queueVars, held>>
    BY <1>5 DEF queueVars, HeldInv, HeldItemsWait, QueuedIds
  <1>6. CASE UNCHANGED queueVars /\ held' = QueuedIds /\ (paused \/ items = <<>>)
    <2>1. items = <<>> => QueuedIds = {}
      BY DEF QueuedIds
    <2>2. UNCHANGED <<items, paused, fate>> /\ QueuedIds' = QueuedIds
      BY <1>6 DEF queueVars, QueuedIds
    <2>3. QED
      BY <1>3, <1>6, <2>1, <2>2 DEF HeldInv, HeldItemsWait
  <1>7. QED
    BY <1>1, <1>2, <1>4, <1>5, <1>6 DEF SessionQueueStep

\* After a turn failed or was interrupted, nothing it left in the queue starts
\* before the client has resumed the queue, whichever thread looks at it first.
THEOREM HeldItemsStayPut == Spec => []HeldItemsWait
  <1>1. Init => HeldInv
    BY DEF Init, HeldInv, HeldItemsWait
  <1>2. Spec => []QueueInv
    BY SessionRunsTheQueue, QueueInvHolds, PTL
  <1>3. PlacesOK /\ QueueInv /\ QueueInv' /\ HeldInv /\ [Next]_vars => HeldInv'
    BY StepsQueue, StepsKeepHeld DEF QueueInv
  <1>4. HeldInv => HeldItemsWait
    BY DEF HeldInv
  <1>5. QED
    BY <1>1, <1>2, <1>3, <1>4, PlacesHold, PTL DEF Spec
=============================================================================

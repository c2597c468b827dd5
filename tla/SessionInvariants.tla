-------------------------- MODULE SessionInvariants --------------------------
(***************************************************************************)
(* What holds of a session's state for any number of items, turns, loops   *)
(* and compactions, with two threads that start turns, a client that does  *)
(* as it likes, and a provider and tools that answer as they like.         *)
(***************************************************************************)
EXTENDS SessionProofs, FiniteSetTheorems

-----------------------------------------------------------------------------
(* What the session's type and its promises rest on. *)

\* Turns: one that was committed and has no driver yet is in one actor's hands;
\* a request about a turn knows which; those to come have nothing; a driver
\* about to call the model still may; a busy session has a driver.
TurnsInv ==
    /\ \A a \in Actors : at[a] = "reserve" =>
           turn[a] \in Turns /\ turn[a] <= begun /\ driver[turn[a]] = "none"
    /\ at[Client] = "reserve" /\ at[Runner] = "reserve" => turn[Client] # turn[Runner]
    /\ at[Client] \in {"steer", "fold", "leave", "release"} => turn[Client] \in Turns
    /\ \A t \in Turns :
           /\ t > begun => driver[t] = "none" /\ queueItem[t] = NoItem
           /\ driver[t] = "none" => rounds[t] = 0
           /\ driver[t] \in {"ready", "compacting", "compacted"} => rounds[t] < MaxRounds
    /\ EnvironmentMayFail \/ BusyHasDriver

\* Items: the one the runner took is no turn yet, and the connection begins no
\* turn for the one it folds.
ItemsInHand ==
    /\ item[Runner] # NoItem =>
           /\ fate[item[Runner]] = "taken"
           /\ \A t \in Turns : queueItem[t] # item[Runner]
           /\ at[Runner] \in {"publish", "write", "check", "commit"}
    /\ item[Client] # NoItem => at[Client] \in {"fold", "leave"}

SessionInv ==
    /\ QueueInv
    /\ TypeOK
    /\ TurnsInv
    /\ ItemsInHand
    /\ ItemRunsOnce

\* What the proofs of every step need of the constants, and of what a
\* publisher reads.
LEMMA SessionBasics ==
    /\ MaxRounds \in Nat /\ 0 \in 0..MaxRounds /\ 0 < MaxRounds
    /\ NoTurn \notin Turns /\ NoItem \notin Ids
    /\ Client \in Actors /\ Runner \in Actors /\ Client # Runner
    /\ \A a \in Actors : a = Client \/ a = Runner
    /\ Actors \subseteq Publishers /\ Turns \subseteq Publishers
    /\ \A t \in Turns : t \in Int
    /\ Compaction \notin Turns /\ Compaction # NoTurn
  BY SessionConstants, QueueConstants
     DEF Turns, NoTurn, Ids, NoItem, Actors, Publishers

LEMMA ViewsTyped ==
    /\ NoView \in Views
    /\ QueueInv => View \in Views
  BY DEF NoView, View, Views, QueueInv, QueueTypeOK

\* The item a pop takes.
LEMMA HeadIsFirst ==
    ASSUME QueueTypeOK, items # <<>>
    PROVE  1 \in DOMAIN items /\ Head(items) = items[1]
  BY DEF QueueTypeOK

\* An item taken stays taken.
LEMMA TakenStays ==
    ASSUME QueueInv, SessionQueueStep
    PROVE  \A id \in Ids : fate[id] = "taken" => fate'[id] = "taken"
  <1>1. ASSUME NEW i \in DOMAIN items, NEW how, Leave(i, how)
        PROVE  \A id \in Ids : fate[id] = "taken" => fate'[id] = "taken"
    BY <1>1, LeaveFate
  <1>2. ASSUME NEW key \in Keys \union {NoKey}, NEW params \in Inputs, Enqueue(key, params)
        PROVE  \A id \in Ids : fate[id] = "taken" => fate'[id] = "taken"
    <2>1. fate' = [fate EXCEPT ![created + 1] = "queued"] /\ created < MaxIds
      BY <1>2 DEF Enqueue, FreshId
    <2>2. created + 1 \in Ids /\ fate[created + 1] = "unknown"
      BY <2>1, QueueConstants DEF QueueInv, QueueTypeOK, FateAgrees, Ids
    <2>3. QED
      BY <2>1, <2>2 DEF QueueInv, QueueTypeOK
  <1>3. CASE PopNext
    <2>1. 1 \in DOMAIN items
      BY <1>3 DEF PopNext, QueueInv, QueueTypeOK
    <2>2. QED
      BY <1>1, <1>3, <2>1 DEF PopNext
  <1>4. QED
    BY <1>1, <1>2, <1>3 DEF SessionQueueStep, QueueWorks, Replace, RemoveItem, SteerOut,
                            Resume, Pause, queueVars

\* An item that is a turn stays one.
LEMMA SameQueueItems ==
    ASSUME SessionInv, SessionQueueStep, UNCHANGED queueItem
    PROVE  ItemRunsOnce'
  BY TakenStays DEF SessionInv, TypeOK, ItemRunsOnce

-----------------------------------------------------------------------------
(* One lemma per family of steps.  The frames of the actions are expanded   *)
(* throughout.                                                              *)

USE SessionBasics
USE DEF SessionInv, TypeOK, hostVars, coreVars, driverVars, actorVars, historyVars,
        Goto

LEMMA RequestsToTheQueue ==
    ASSUME SessionInv, QueueInv', QueueTypeOK', SessionQueueStep,
           ClientEnqueues \/ ClientReplaces \/ ClientRemoves \/ ClientResumes
    PROVE  SessionInv'
  <1>1. TypeOK'
    <2>1. CASE ClientEnqueues
      BY SMTT(30), <2>1 DEF ClientEnqueues, ClientQueues, Steps
    <2>2. CASE ClientReplaces
      BY SMTT(30), <2>2 DEF ClientReplaces, ClientQueues, Steps
    <2>3. CASE ClientRemoves
      BY SMTT(30), <2>3 DEF ClientRemoves, ClientQueues, Steps
    <2>4. CASE ClientResumes
      BY SMTT(30), <2>4 DEF ClientResumes, ClientQueues, Steps
    <2>5. QED
      BY <2>1, <2>2, <2>3, <2>4
  <1>2. TurnsInv'
    BY SMTT(30)
       DEF ClientEnqueues, ClientReplaces, ClientRemoves, ClientResumes, ClientQueues,
           TurnsInv, BusyHasDriver, AtWork
  <1>3. ItemsInHand'
    BY SMTT(30), TakenStays
       DEF ClientEnqueues, ClientReplaces, ClientRemoves, ClientResumes, ClientQueues,
           ItemsInHand
  <1>4. ItemRunsOnce'
    BY SameQueueItems
       DEF ClientEnqueues, ClientReplaces, ClientRemoves, ClientResumes, ClientQueues
  <1>5. QED
    BY <1>1, <1>2, <1>3, <1>4

LEMMA ClientBegins ==
    ASSUME SessionInv, QueueInv', QueueTypeOK', SessionQueueStep,
           ClientStarts \/ ClientCompacts
    PROVE  SessionInv'
  <1>1. TypeOK'
    <2>1. CASE ClientStarts
      BY SMTT(30), <2>1 DEF ClientStarts, Steps
    <2>2. CASE ClientCompacts
      BY SMTT(30), <2>2, SessionConstants DEF ClientCompacts, TakeHost
    <2>3. QED
      BY <2>1, <2>2
  <1>2. TurnsInv'
    BY SMTT(30)
       DEF ClientStarts, ClientCompacts, TakeHost, TurnsInv, BusyHasDriver, AtWork
  <1>3. ItemsInHand'
    BY SMTT(30), TakenStays DEF ClientStarts, ClientCompacts, TakeHost, ItemsInHand
  <1>4. ItemRunsOnce'
    BY SameQueueItems DEF ClientStarts, ClientCompacts, TakeHost
  <1>5. QED
    BY <1>1, <1>2, <1>3, <1>4

LEMMA RequestsToTheTurn ==
    ASSUME SessionInv, QueueInv', QueueTypeOK', SessionQueueStep,
           NEW t \in Turns, ClientInterrupts(t) \/ ClientSteers(t) \/ ClientCancels(t)
    PROVE  SessionInv'
  <1>1. TypeOK'
    <2>1. CASE ClientInterrupts(t)
      BY SMTT(30), <2>1 DEF ClientInterrupts, Signal
    <2>2. CASE ClientSteers(t)
      BY SMTT(30), <2>2 DEF ClientSteers, Steps
    <2>3. CASE ClientCancels(t)
      BY SMTT(30), <2>3 DEF ClientCancels, Steps
    <2>4. QED
      BY <2>1, <2>2, <2>3
  <1>2. TurnsInv'
    <2>1. CASE ClientInterrupts(t)
      BY SMTT(30), <2>1 DEF ClientInterrupts, Signal, TurnsInv, BusyHasDriver, AtWork
    <2>2. CASE ClientSteers(t)
      BY SMTT(30), <2>2 DEF ClientSteers, TurnsInv, BusyHasDriver, AtWork
    <2>3. CASE ClientCancels(t)
      BY SMTT(30), <2>3 DEF ClientCancels, TurnsInv, BusyHasDriver, AtWork
    <2>4. QED
      BY <2>1, <2>2, <2>3
  <1>3. ItemsInHand'
    <2>1. CASE ClientInterrupts(t)
      BY <2>1, TakenStays DEF ClientInterrupts, Signal, ItemsInHand
    <2>2. CASE ClientSteers(t)
      BY <2>2, TakenStays DEF ClientSteers, ItemsInHand
    <2>3. CASE ClientCancels(t)
      BY <2>3, TakenStays DEF ClientCancels, ItemsInHand
    <2>4. QED
      BY <2>1, <2>2, <2>3
  <1>4. ItemRunsOnce'
    BY SameQueueItems DEF ClientInterrupts, ClientSteers, ClientCancels, Signal
  <1>5. QED
    BY <1>1, <1>2, <1>3, <1>4

LEMMA ClientFoldsAnItem ==
    ASSUME SessionInv, QueueInv', QueueTypeOK', SessionQueueStep,
           NEW id \in Ids, NEW t \in Turns, ClientFolds(id, t)
    PROVE  SessionInv'
  <1>1. TypeOK'
    BY DEF ClientFolds, Steps
  <1>2. TurnsInv'
    BY SMTT(30) DEF ClientFolds, TurnsInv, BusyHasDriver, AtWork
  <1>3. ItemsInHand'
    BY SMTT(30), TakenStays DEF ClientFolds, ItemsInHand
  <1>4. ItemRunsOnce'
    BY SameQueueItems DEF ClientFolds
  <1>5. QED
    BY <1>1, <1>2, <1>3, <1>4

LEMMA SteeringEnds ==
    ASSUME SessionInv, QueueInv', QueueTypeOK', SessionQueueStep,
           SteerAccepted \/ SteerRefused
    PROVE  SessionInv'
  <1>1. TypeOK'
    <2>1. CASE SteerAccepted
      BY SMTT(30), <2>1 DEF SteerAccepted, Steer, Steps, TurnsInv
    <2>2. CASE SteerRefused
      BY SMTT(30), <2>2 DEF SteerRefused, Steps
    <2>3. QED
      BY <2>1, <2>2
  <1>2. TurnsInv'
    <2>1. CASE SteerAccepted
      BY SMTT(30), <2>1 DEF SteerAccepted, Steer, TurnsInv, BusyHasDriver, AtWork
    <2>2. CASE SteerRefused
      BY SMTT(30), <2>2 DEF SteerRefused, TurnsInv, BusyHasDriver, AtWork
    <2>3. QED
      BY <2>1, <2>2
  <1>3. ItemsInHand'
    BY SMTT(30), TakenStays DEF SteerAccepted, SteerRefused, Steer, ItemsInHand
  <1>4. ItemRunsOnce'
    BY SameQueueItems DEF SteerAccepted, SteerRefused, Steer
  <1>5. QED
    BY <1>1, <1>2, <1>3, <1>4

LEMMA FoldContinues ==
    ASSUME SessionInv, QueueInv', QueueTypeOK', SessionQueueStep,
           FoldSteers \/ FoldLeaves
    PROVE  SessionInv'
  <1>1. TypeOK'
    <2>1. CASE FoldSteers
      BY SMTT(30), <2>1 DEF FoldSteers, Steer, Steps, TurnsInv
    <2>2. CASE FoldLeaves
      BY SMTT(30), <2>2 DEF FoldLeaves, Steps
    <2>3. QED
      BY <2>1, <2>2
  <1>2. TurnsInv'
    BY SMTT(30) DEF FoldSteers, FoldLeaves, Steer, TurnsInv, BusyHasDriver, AtWork
  <1>3. ItemsInHand'
    BY SMTT(30), TakenStays DEF FoldSteers, FoldLeaves, Steer, ItemsInHand
  <1>4. ItemRunsOnce'
    BY SameQueueItems DEF FoldSteers, FoldLeaves, Steer
  <1>5. QED
    BY <1>1, <1>2, <1>3, <1>4

LEMMA CancelContinues ==
    ASSUME SessionInv, QueueInv', QueueTypeOK', SessionQueueStep,
           CancelReleases \/ CancelSignals
    PROVE  SessionInv'
  <1>1. TypeOK'
    <2>1. CASE CancelReleases
      BY SMTT(30), <2>1 DEF CancelReleases, Steps, TurnsInv
    <2>2. CASE CancelSignals
      BY SMTT(30), <2>2 DEF CancelSignals, Signal, Steps
    <2>3. QED
      BY <2>1, <2>2
  <1>2. TurnsInv'
    <2>1. CASE CancelReleases
      BY SMTT(30), <2>1 DEF CancelReleases, TurnsInv, BusyHasDriver, AtWork
    <2>2. CASE CancelSignals
      BY SMTT(30), <2>2 DEF CancelSignals, Signal, TurnsInv, BusyHasDriver, AtWork
    <2>3. QED
      BY <2>1, <2>2
  <1>3. ItemsInHand'
    BY SMTT(30), TakenStays DEF CancelReleases, CancelSignals, Signal, ItemsInHand
  <1>4. ItemRunsOnce'
    BY SameQueueItems DEF CancelReleases, CancelSignals, Signal
  <1>5. QED
    BY <1>1, <1>2, <1>3, <1>4

LEMMA ActorPublishes ==
    ASSUME SessionInv, QueueInv', QueueTypeOK', SessionQueueStep,
           NEW a \in Actors, ActorReads(a) \/ ActorWrites(a)
    PROVE  SessionInv'
  <1>1. TypeOK'
    <2>1. CASE ActorReads(a)
      BY SMTT(30), <2>1, ViewsTyped DEF ActorReads, ReadQueue, Steps
    <2>2. CASE ActorWrites(a)
      BY SMTT(30), <2>2, ViewsTyped DEF ActorWrites, WriteQueue, Steps
    <2>3. QED
      BY <2>1, <2>2
  <1>2. TurnsInv'
    BY SMTT(30)
       DEF ActorReads, ActorWrites, ReadQueue, WriteQueue, TurnsInv, BusyHasDriver,
           AtWork
  <1>3. ItemsInHand'
    BY SMTT(30), TakenStays
       DEF ActorReads, ActorWrites, ReadQueue, WriteQueue, ItemsInHand
  <1>4. ItemRunsOnce'
    BY SameQueueItems DEF ActorReads, ActorWrites, ReadQueue, WriteQueue
  <1>5. QED
    BY <1>1, <1>2, <1>3, <1>4

LEMMA BeginIsChecked ==
    ASSUME SessionInv, QueueInv', QueueTypeOK', SessionQueueStep,
           NEW a \in Actors, BeginRefused(a) \/ BeginChecked(a)
    PROVE  SessionInv'
  <1>1. TypeOK'
    <2>1. CASE BeginRefused(a)
      BY SMTT(30), <2>1 DEF BeginRefused, Steps
    <2>2. CASE BeginChecked(a)
      BY SMTT(30), <2>2 DEF BeginChecked, Steps
    <2>3. QED
      BY <2>1, <2>2
  <1>2. TurnsInv'
    BY SMTT(30) DEF BeginRefused, BeginChecked, TurnsInv, BusyHasDriver, AtWork
  <1>3. ItemsInHand'
    BY SMTT(30), TakenStays DEF BeginRefused, BeginChecked, ItemsInHand
  <1>4. ItemRunsOnce'
    BY SameQueueItems DEF BeginRefused, BeginChecked
  <1>5. QED
    BY <1>1, <1>2, <1>3, <1>4

LEMMA TurnIsCommitted ==
    ASSUME SessionInv, QueueInv', QueueTypeOK', SessionQueueStep,
           NEW a \in Actors, BeginCommitted(a)
    PROVE  SessionInv'
  <1>1. TypeOK'
    <2>1. begun' \in 0..MaxTurns /\ begun' \in Turns
      BY DEF BeginCommitted, Turns
    <2>2. queueItem' \in [Turns -> Ids \union {NoItem}]
      BY DEF BeginCommitted
    <2>3. QED
      BY <2>1, <2>2 DEF BeginCommitted, Steps
  <1>2. TurnsInv'
    BY SMTT(30) DEF BeginCommitted, TurnsInv, BusyHasDriver, AtWork
  <1>3. ItemsInHand'
    BY SMTT(30), TakenStays DEF BeginCommitted, ItemsInHand
  <1>4. ItemRunsOnce'
    <2>1. begun + 1 \in Turns /\ queueItem' = [queueItem EXCEPT ![begun + 1] = item[a]]
      BY DEF BeginCommitted
    <2>2. \A t \in Turns : queueItem'[t] = IF t = begun + 1 THEN item[a] ELSE queueItem[t]
      BY <2>1
    <2>3. item[a] # NoItem =>
              fate'[item[a]] = "taken" /\ \A t \in Turns : queueItem[t] # item[a]
      BY TakenStays DEF ItemsInHand, BeginCommitted
    <2>4. \A t \in Turns : queueItem[t] # NoItem => fate'[queueItem[t]] = "taken"
      BY TakenStays DEF ItemRunsOnce
    <2>5. \A t \in Turns : queueItem'[t] # NoItem => fate'[queueItem'[t]] = "taken"
      BY <2>2, <2>3, <2>4
    <2>6. ASSUME NEW t \in Turns, NEW u \in Turns, t # u, queueItem'[t] = queueItem'[u]
          PROVE  queueItem'[t] = NoItem
      BY <2>2, <2>3, <2>6 DEF ItemRunsOnce
    <2>7. QED
      BY <2>5, <2>6 DEF ItemRunsOnce
  <1>5. QED
    BY <1>1, <1>2, <1>3, <1>4

LEMMA HostIsReserved ==
    ASSUME SessionInv, QueueInv', QueueTypeOK', SessionQueueStep,
           NEW a \in Actors, BeginReserved(a)
    PROVE  SessionInv'
  <1>1. TypeOK'
    BY DEF BeginReserved, TakeHost, Phases, Steps
  <1>2. TurnsInv'
    BY SMTT(30) DEF BeginReserved, TakeHost, TurnsInv, BusyHasDriver, AtWork
  <1>3. ItemsInHand'
    BY SMTT(30), TakenStays DEF BeginReserved, TakeHost, ItemsInHand
  <1>4. ItemRunsOnce'
    BY SameQueueItems DEF BeginReserved, TakeHost
  <1>5. QED
    BY <1>1, <1>2, <1>3, <1>4

LEMMA RunnerTakes ==
    ASSUME SessionInv, QueueInv', QueueTypeOK', SessionQueueStep,
           RunnerPops
    PROVE  SessionInv'
  <1>1. TypeOK'
    <2>1. item' = [item EXCEPT ![Runner] = items[1].id] /\ items[1].id \in Ids
      BY HeadIsFirst, ItemHasId DEF RunnerPops, PopNext, QueueInv
    <2>2. QED
      BY <2>1 DEF RunnerPops, Steps
  <1>2. TurnsInv'
    BY SMTT(30) DEF RunnerPops, TurnsInv, BusyHasDriver, AtWork
  <1>3. ItemsInHand'
    <2>1. item' = [item EXCEPT ![Runner] = items[1].id] /\ 1 \in DOMAIN items
      BY HeadIsFirst DEF RunnerPops, PopNext, QueueInv
    <2>2. /\ items[1].id \in Ids /\ fate[items[1].id] = "queued"
          /\ fate'[items[1].id] = "taken"
      BY <2>1, LeaveFate DEF RunnerPops, PopNext
    <2>3. \A t \in Turns : queueItem[t] # items[1].id
      BY <2>2 DEF ItemRunsOnce
    <2>4. QED
      BY <2>1, <2>2, <2>3 DEF RunnerPops, ItemsInHand
  <1>4. ItemRunsOnce'
    BY SameQueueItems DEF RunnerPops
  <1>5. QED
    BY <1>1, <1>2, <1>3, <1>4

LEMMA LoopFires ==
    ASSUME SessionInv, QueueInv', QueueTypeOK', SessionQueueStep,
           RunnerFires
    PROVE  SessionInv'
  <1>1. TypeOK'
    BY SessionConstants DEF RunnerFires, Steps
  <1>2. TurnsInv'
    BY SMTT(30) DEF RunnerFires, TurnsInv, BusyHasDriver, AtWork
  <1>3. ItemsInHand'
    BY SMTT(30), TakenStays DEF RunnerFires, ItemsInHand
  <1>4. ItemRunsOnce'
    BY SameQueueItems DEF RunnerFires
  <1>5. QED
    BY <1>1, <1>2, <1>3, <1>4

LEMMA CompactionFinishes ==
    ASSUME SessionInv, QueueInv', QueueTypeOK', SessionQueueStep,
           CompactionSettles \/ CompactionEnds
    PROVE  SessionInv'
  <1>1. TypeOK'
    <2>1. CASE CompactionSettles
      BY SMTT(30), <2>1 DEF CompactionSettles
    <2>2. CASE CompactionEnds
      BY SMTT(30), <2>2 DEF CompactionEnds, FreeHost
    <2>3. QED
      BY <2>1, <2>2
  <1>2. TurnsInv'
    BY SMTT(30)
       DEF CompactionSettles, CompactionEnds, FreeHost, TurnsInv, BusyHasDriver,
           AtWork
  <1>3. ItemsInHand'
    BY SMTT(30), TakenStays
       DEF CompactionSettles, CompactionEnds, FreeHost, ItemsInHand
  <1>4. ItemRunsOnce'
    BY SameQueueItems DEF CompactionSettles, CompactionEnds, FreeHost
  <1>5. QED
    BY <1>1, <1>2, <1>3, <1>4

LEMMA DriverCalls ==
    ASSUME SessionInv, QueueInv', QueueTypeOK', SessionQueueStep,
           NEW t \in Turns, CallsModel(t) \/ CompactsFirst(t)
    PROVE  SessionInv'
  <1>1. TypeOK'
    <2>1. CASE CallsModel(t)
      <3>1. driver[t] \in {"ready", "compacted"} /\ driver' = [driver EXCEPT ![t] = "calling"]
        BY <2>1 DEF CallsModel, Drive
      <3>2. rounds[t] \in 0..MaxRounds /\ rounds[t] < MaxRounds
        BY <3>1 DEF TurnsInv
      <3>3. rounds' \in [Turns -> 0..MaxRounds]
        BY SMTT(30), <2>1, <3>2 DEF CallsModel
      <3>4. QED
        BY <2>1, <3>1, <3>3 DEF CallsModel, Phases
    <2>2. CASE CompactsFirst(t)
      BY <2>2 DEF CompactsFirst, Drive, Phases
    <2>3. QED
      BY <2>1, <2>2
  <1>2. TurnsInv'
    <2>1. CASE CallsModel(t)
      <3>1. /\ driver[t] \in {"ready", "compacted"}
            /\ driver' = [driver EXCEPT ![t] = "calling"]
            /\ UNCHANGED <<at, turn, begun, queueItem, running>>
        BY <2>1 DEF CallsModel, Drive
      <3>2. \A u \in Turns : u # t => driver'[u] = driver[u] /\ rounds'[u] = rounds[u]
        BY <2>1 DEF CallsModel, Drive
      <3>3. driver'[t] = "calling"
        BY <3>1
      <3>4. \A u \in Turns : driver[u] = "none" <=> driver'[u] = "none"
        BY <3>1, <3>2, <3>3
      <3>5. AtWork' = AtWork
        BY <3>1, <3>2, <3>3 DEF AtWork
      <3>6. EnvironmentMayFail \/ BusyHasDriver'
        BY <3>1, <3>5 DEF TurnsInv, BusyHasDriver
      <3>7. \A u \in Turns :
                /\ driver'[u] = "none" => rounds'[u] = 0
                /\ driver'[u] \in {"ready", "compacting", "compacted"} =>
                       rounds'[u] < MaxRounds
        BY <3>2, <3>3 DEF TurnsInv
      <3>8. QED
        BY <3>1, <3>4, <3>6, <3>7 DEF TurnsInv
    <2>2. CASE CompactsFirst(t)
      BY <2>2 DEF CompactsFirst, Drive, TurnsInv, BusyHasDriver, AtWork
    <2>3. QED
      BY <2>1, <2>2
  <1>3. ItemsInHand'
    BY SMTT(30), TakenStays DEF CallsModel, CompactsFirst, Drive, ItemsInHand
  <1>4. ItemRunsOnce'
    BY SameQueueItems DEF CallsModel, CompactsFirst, Drive
  <1>5. QED
    BY <1>1, <1>2, <1>3, <1>4

LEMMA DriverIsStopped ==
    ASSUME SessionInv, QueueInv', QueueTypeOK', SessionQueueStep,
           NEW t \in Turns, TurnInterrupted(t) \/ TurnCancelled(t)
    PROVE  SessionInv'
  <1>1. TypeOK'
    <2>1. CASE TurnInterrupted(t)
      BY SMTT(30), <2>1 DEF TurnInterrupted, Interruptible, Settle, Endings, Phases
    <2>2. CASE TurnCancelled(t)
      BY SMTT(30), <2>2 DEF TurnCancelled, Settle, Endings, Phases
    <2>3. QED
      BY <2>1, <2>2
  <1>2. TurnsInv'
    BY SMTT(30)
       DEF TurnInterrupted, TurnCancelled, Interruptible, Settle, TurnsInv,
           BusyHasDriver, AtWork
  <1>3. ItemsInHand'
    BY SMTT(30), TakenStays
       DEF TurnInterrupted, TurnCancelled, Interruptible, Settle, ItemsInHand
  <1>4. ItemRunsOnce'
    BY SameQueueItems DEF TurnInterrupted, TurnCancelled, Interruptible, Settle
  <1>5. QED
    BY <1>1, <1>2, <1>3, <1>4

LEMMA DriverEnds ==
    ASSUME SessionInv, QueueInv', QueueTypeOK', SessionQueueStep,
           NEW t \in Turns, EndTurn(t)
    PROVE  SessionInv'
  <1>1. TypeOK'
    <2>1. PICK phase \in {"publish", "over"} : driver' = [driver EXCEPT ![t] = phase]
      BY DEF EndTurn
    <2>2. held' \subseteq Ids
      BY QueuedIdsTyped DEF EndTurn
    <2>3. rounds' \in [Turns -> 0..MaxRounds] /\ ends' \in [Turns -> Endings \union {"none"}]
      BY DEF EndTurn, Dropped
    <2>4. /\ signalled' \subseteq Turns /\ cancelled' \subseteq Turns /\ asked' \subseteq Turns
          /\ running' = NoTurn /\ channel' = NoTurn
          /\ UNCHANGED <<coreVars, compacting, compactions, actorVars>>
      BY DEF EndTurn, Dropped, FreeHost
    <2>5. QED
      BY <2>1, <2>2, <2>3, <2>4 DEF Phases
  <1>2. TurnsInv'
    BY SMTT(30) DEF EndTurn, FreeHost, Dropped, TurnsInv, BusyHasDriver, AtWork
  <1>3. ItemsInHand'
    BY SMTT(30), TakenStays DEF EndTurn, FreeHost, Dropped, ItemsInHand
  <1>4. ItemRunsOnce'
    BY SameQueueItems DEF EndTurn, FreeHost, Dropped
  <1>5. QED
    BY <1>1, <1>2, <1>3, <1>4

LEMMA DriverPublishes ==
    ASSUME SessionInv, QueueInv', QueueTypeOK', SessionQueueStep,
           NEW t \in Turns, DriverReads(t) \/ DriverWrites(t)
    PROVE  SessionInv'
  <1>1. TypeOK'
    <2>1. CASE DriverReads(t)
      BY SMTT(30), <2>1, ViewsTyped DEF DriverReads, Drive, ReadQueue, Phases
    <2>2. CASE DriverWrites(t)
      BY SMTT(30), <2>2, ViewsTyped DEF DriverWrites, Drive, WriteQueue, Phases
    <2>3. QED
      BY <2>1, <2>2
  <1>2. TurnsInv'
    <2>1. CASE DriverReads(t)
      BY SMTT(30), <2>1
         DEF DriverReads, Drive, ReadQueue, TurnsInv, BusyHasDriver, AtWork
    <2>2. CASE DriverWrites(t)
      BY SMTT(30), <2>2
         DEF DriverWrites, Drive, WriteQueue, TurnsInv, BusyHasDriver, AtWork
    <2>3. QED
      BY <2>1, <2>2
  <1>3. ItemsInHand'
    BY SMTT(30), TakenStays
       DEF DriverReads, DriverWrites, Drive, ReadQueue, WriteQueue, ItemsInHand
  <1>4. ItemRunsOnce'
    BY SameQueueItems DEF DriverReads, DriverWrites, Drive, ReadQueue, WriteQueue
  <1>5. QED
    BY <1>1, <1>2, <1>3, <1>4

LEMMA AnswersContinue ==
    ASSUME SessionInv, QueueInv', QueueTypeOK', SessionQueueStep,
           NEW t \in Turns, Compacted(t) \/ AnswerContinues(t) \/ ToolsFinish(t)
    PROVE  SessionInv'
  <1>1. TypeOK'
    <2>1. CASE Compacted(t)
      BY SMTT(30), <2>1 DEF Compacted, Drive, Phases
    <2>2. CASE AnswerContinues(t)
      BY SMTT(30), <2>2 DEF AnswerContinues, Drive, Phases
    <2>3. CASE ToolsFinish(t)
      BY SMTT(30), <2>3 DEF ToolsFinish, MoreRounds, Drive, Phases
    <2>4. QED
      BY <2>1, <2>2, <2>3
  <1>2. TurnsInv'
    <2>1. CASE Compacted(t)
      BY SMTT(30), <2>1 DEF Compacted, Drive, TurnsInv, BusyHasDriver, AtWork
    <2>2. CASE AnswerContinues(t)
      BY SMTT(30), <2>2 DEF AnswerContinues, Drive, TurnsInv, BusyHasDriver, AtWork
    <2>3. CASE ToolsFinish(t)
      BY SMTT(30), <2>3
         DEF ToolsFinish, MoreRounds, Drive, TurnsInv, BusyHasDriver, AtWork
    <2>4. QED
      BY <2>1, <2>2, <2>3
  <1>3. ItemsInHand'
    BY SMTT(30), TakenStays
       DEF Compacted, AnswerContinues, ToolsFinish, Drive, MoreRounds, ItemsInHand
  <1>4. ItemRunsOnce'
    BY SameQueueItems DEF Compacted, AnswerContinues, ToolsFinish, Drive, MoreRounds
  <1>5. QED
    BY <1>1, <1>2, <1>3, <1>4

LEMMA AnswersSettle ==
    ASSUME SessionInv, QueueInv', QueueTypeOK', SessionQueueStep,
           NEW t \in Turns, AnswerCompletes(t) \/ LastRoundCompletes(t) \/ TurnFails(t)
    PROVE  SessionInv'
  <1>1. TypeOK'
    <2>1. CASE AnswerCompletes(t)
      BY SMTT(30), <2>1 DEF AnswerCompletes, Settle, Endings, Phases
    <2>2. CASE LastRoundCompletes(t)
      BY SMTT(30), <2>2 DEF LastRoundCompletes, MoreRounds, Settle, Endings, Phases
    <2>3. CASE TurnFails(t)
      BY SMTT(30), <2>3 DEF TurnFails, Settle, Endings, Phases
    <2>4. QED
      BY <2>1, <2>2, <2>3
  <1>2. TurnsInv'
    <2>1. CASE AnswerCompletes(t)
      BY SMTT(30), <2>1 DEF AnswerCompletes, Settle, TurnsInv, BusyHasDriver, AtWork
    <2>2. CASE LastRoundCompletes(t)
      BY SMTT(30), <2>2
         DEF LastRoundCompletes, MoreRounds, Settle, TurnsInv, BusyHasDriver, AtWork
    <2>3. CASE TurnFails(t)
      BY SMTT(30), <2>3 DEF TurnFails, Settle, TurnsInv, BusyHasDriver, AtWork
    <2>4. QED
      BY <2>1, <2>2, <2>3
  <1>3. ItemsInHand'
    <2>1. CASE AnswerCompletes(t)
      BY <2>1, TakenStays DEF AnswerCompletes, Settle, ItemsInHand
    <2>2. CASE LastRoundCompletes(t)
      BY <2>2, TakenStays DEF LastRoundCompletes, MoreRounds, Settle, ItemsInHand
    <2>3. CASE TurnFails(t)
      BY <2>3, TakenStays DEF TurnFails, Settle, ItemsInHand
    <2>4. QED
      BY <2>1, <2>2, <2>3
  <1>4. ItemRunsOnce'
    BY SameQueueItems
       DEF AnswerCompletes, LastRoundCompletes, TurnFails, Settle, MoreRounds
  <1>5. QED
    BY <1>1, <1>2, <1>3, <1>4

-----------------------------------------------------------------------------
(* What follows.                                                            *)

LEMMA SessionInvInit == Init => SessionInv
  <1> SUFFICES ASSUME Init
               PROVE  SessionInv
    OBVIOUS
  <1>1. QueueInv /\ QueueTypeOK
    BY QueueInvInit, QueueTypeInit DEF Init
  <1>2. TypeOK
    <2>1. /\ begun \in 0..MaxTurns /\ compactions \in 0..MaxCompactions
          /\ firings \in 0..MaxFirings
      BY SessionConstants, QueueConstants DEF Init
    <2>2. /\ pendingSteer \in Seq(Turns)
          /\ latest \in [id : Turns \union {NoTurn},
                          status : Endings \union {"none", "in_progress"}]
      BY DEF Init
    <2>3. QED
      BY <1>1, <2>1, <2>2, ViewsTyped DEF Init, Phases, Steps
  <1>3. TurnsInv
    BY DEF Init, TurnsInv, BusyHasDriver
  <1>4. ItemsInHand /\ ItemRunsOnce
    BY DEF Init, ItemsInHand, ItemRunsOnce
  <1>5. QED
    BY <1>1, <1>2, <1>3, <1>4

LEMMA SessionInvStep ==
    ASSUME SessionInv, PlacesOK, [Next]_vars
    PROVE  SessionInv'
  <1>1. SessionQueueStep
    BY StepsQueue DEF QueueInv
  <1>2. QueueInv' /\ QueueTypeOK'
    BY <1>1, QueueStepsOnly, QueueInvStep, QueueTypeInductive DEF QueueInv
  <1>3. CASE ClientRequests
    BY <1>1, <1>2, <1>3, RequestsToTheQueue, ClientBegins, RequestsToTheTurn,
       ClientFoldsAnItem DEF ClientRequests
  <1>4. ASSUME NEW a \in Actors, ActorReads(a) \/ ActorWrites(a) \/ Begins(a)
        PROVE  SessionInv'
    BY <1>1, <1>2, <1>4, ActorPublishes, BeginIsChecked, TurnIsCommitted, HostIsReserved
       DEF Begins
  <1>5. CASE ClientContinues
    BY <1>1, <1>2, <1>4, <1>5, SteeringEnds, FoldContinues, CancelContinues
       DEF ClientContinues
  <1>6. CASE RunnerSteps
    BY <1>1, <1>2, <1>4, <1>6, RunnerTakes, LoopFires DEF RunnerSteps
  <1>7. CASE CompactionSettles \/ CompactionEnds
    BY <1>1, <1>2, <1>7, CompactionFinishes
  <1>8. ASSUME NEW t \in Turns, DriverMoves(t)
        PROVE  SessionInv'
    BY <1>1, <1>2, <1>8, DriverCalls, DriverIsStopped, DriverEnds, DriverPublishes
       DEF DriverMoves
  <1>9. ASSUME NEW t \in Turns, WorldAnswers(t)
        PROVE  SessionInv'
    BY <1>1, <1>2, <1>9, AnswersContinue, AnswersSettle DEF WorldAnswers
  <1>10. CASE UNCHANGED vars
    <2>1. TypeOK'
      BY <1>2, <1>10, SMTT(30) DEF vars
    <2>2. TurnsInv'
      BY <1>10, SMTT(30) DEF vars, TurnsInv, BusyHasDriver, AtWork
    <2>3. ItemsInHand' /\ ItemRunsOnce'
      BY <1>10 DEF vars, queueVars, ItemsInHand, ItemRunsOnce
    <2>4. QED
      BY <1>2, <2>1, <2>2, <2>3
  <1>11. QED
    BY <1>3, <1>5, <1>6, <1>7, <1>8, <1>9, <1>10 DEF Next

LEMMA SessionInvHolds == Spec => []SessionInv
  BY SessionInvInit, SessionInvStep, PlacesHold, PTL DEF Spec

\* The session's state always has its type, whoever begins turns and whichever
\* turn an answer, an interrupt or steering was meant for.
THEOREM SessionTypeCorrect == Spec => []TypeOK
  BY SessionInvHolds, PTL DEF SessionInv

\* A queued item is at most one turn, though the runner holds it over three
\* sections while a client starts turns, folds items and interrupts.
THEOREM ItemsRunOnce == Spec => []ItemRunsOnce
  BY SessionInvHolds, PTL DEF SessionInv

\* A session busy with a turn has a driver that will free it, even when two
\* turns began at once, as long as environments can be built.
THEOREM BusyTurnsHaveDrivers ==
    ASSUME ~EnvironmentMayFail
    PROVE  Spec => []BusyHasDriver
  <1>1. SessionInv => BusyHasDriver
    BY DEF TurnsInv
  <1>2. QED
    BY <1>1, SessionInvHolds, PTL
-----------------------------------------------------------------------------
(* When the host, the core and the drivers of a session agree: what each    *)
(* promise asks of the requests the client sends, and no more.  The runs     *)
(* two_turns, queued_item_lost and folded_late show what becomes of the      *)
(* promises of a session whose client sends the others.                      *)

\* One thread begins work: the runner, for a client that queues what it wants to
\* run, or the connection, for one that starts its turns where no loop fires.
RunnerAlone == Requests \intersect {"start", "compact"} = {}
ClientAlone == "enqueue" \notin Requests /\ MaxFirings = 0
OneStarter  == RunnerAlone \/ ClientAlone

-----------------------------------------------------------------------------
(* The inductive invariant.                                                 *)

\* A driver that has not settled its turn.
Working == {"ready", "calling", "compacting", "compacted", "tools"}

\* Whoever does not begin work is at nothing of the kind...
WhoBegins ==
    \/ /\ RunnerAlone
       /\ at[Client] \notin {"check", "commit", "reserve"}
       /\ compacting = "no" /\ running # Compaction
    \/ /\ ClientAlone
       /\ items = <<>> /\ at[Runner] = "idle"

\* ... and whoever does finds none running until it takes the host.
StarterInv ==
    /\ WhoBegins
    /\ at[Runner] \in {"publish", "write", "check"} => running = NoTurn
    /\ \A a \in Actors : at[a] \in {"commit", "reserve"} => running = NoTurn
    /\ \A a \in Actors : at[a] = "reserve" => Active(turn[a])
    /\ compacting # "no" => running = Compaction

\* The host runs the turn of the one driver at work, and it is the core's latest.
HostInv ==
    /\ channel = running
    /\ running \in Turns =>
           /\ latest.id = running
           /\ driver[running] = "settled" <=> latest.status # "in_progress"
    /\ latest.status = "in_progress" =>
           /\ latest.id \in Turns
           /\ \/ running = latest.id
              \/ \E a \in Actors : at[a] = "reserve" /\ turn[a] = latest.id
    /\ \A t \in Turns : driver[t] \in Working \union {"settled"} => running = t

AgreeInv == StarterInv /\ HostInv

LEMMA AtWorkPhases ==
    ASSUME TypeOK
    PROVE  AtWork = {t \in Turns : driver[t] \in Working \union {"settled"}}
  BY DEF TypeOK, Phases, AtWork, Working

-----------------------------------------------------------------------------
(* One lemma per family of steps. *)

USE SessionBasics
USE DEF SessionInv, TypeOK, hostVars, coreVars, driverVars, actorVars, historyVars,
        queueVars, Goto

LEMMA EmptyStaysEmpty ==
    ASSUME items = <<>>,
           \/ \E key \in Keys \union {NoKey}, params \in Inputs, id \in Ids :
                  Replace(key, params, id)
           \/ \E id \in Ids : RemoveItem(id)
           \/ \E id \in Ids, t \in Turns : SteerOut(id, t)
           \/ PopNext \/ Resume \/ Pause
    PROVE  UNCHANGED items
  BY DEF Replace, RemoveItem, SteerOut, PopNext, Resume, Pause

\* The connection at anything but a beginning, which leaves the runner, the host
\* and the drivers as they are.
LEMMA AsideAgrees ==
    ASSUME SessionInv, AgreeInv,
           UNCHANGED <<hostVars, latest, compacting, driver>>,
           ClientAlone /\ items = <<>> => UNCHANGED items,
           at'[Runner] = at[Runner], turn'[Runner] = turn[Runner],
           at[Client] # "reserve", at'[Client] \notin {"check", "commit", "reserve"}
    PROVE  AgreeInv'
  <1>1. WhoBegins'
    BY DEF AgreeInv, StarterInv, WhoBegins
  <1>2. StarterInv'
    BY <1>1 DEF AgreeInv, StarterInv, Active
  <1>3. HostInv'
    BY DEF AgreeInv, HostInv
  <1>4. QED
    BY <1>2, <1>3 DEF AgreeInv

\* The connection on its way to begin a turn, alone.
LEMMA ClientAgrees ==
    ASSUME SessionInv, AgreeInv, ClientAlone, items = <<>>,
           UNCHANGED <<items, hostVars, latest, compacting, driver, turn>>,
           at'[Runner] = at[Runner], at[Runner] = "idle", at[Client] # "reserve",
           \/ at'[Client] = "check"
           \/ (at'[Client] = "commit" /\ running = NoTurn)
    PROVE  AgreeInv'
  <1>1. WhoBegins'
    BY DEF WhoBegins
  <1>2. StarterInv'
    BY <1>1 DEF AgreeInv, StarterInv, Active
  <1>3. HostInv'
    BY DEF AgreeInv, HostInv
  <1>4. QED
    BY <1>2, <1>3 DEF AgreeInv

\* The runner on its way to begin one, or giving up.
LEMMA RunnerGoesAgree ==
    ASSUME SessionInv, AgreeInv, RunnerAlone, running = NoTurn,
           UNCHANGED <<hostVars, latest, compacting, driver, turn>>,
           at'[Client] = at[Client], at[Client] \notin {"check", "commit", "reserve"},
           compacting = "no", at[Runner] # "reserve", at'[Runner] # "reserve"
    PROVE  AgreeInv'
  <1>1. WhoBegins'
    BY DEF WhoBegins
  <1>2. StarterInv'
    BY <1>1 DEF AgreeInv, StarterInv, Active
  <1>3. HostInv'
    BY DEF AgreeInv, HostInv
  <1>4. QED
    BY <1>2, <1>3 DEF AgreeInv

\* Whichever begins, it is alone.
LEMMA NoneElseBegins ==
    ASSUME AgreeInv, NEW a \in Actors, at[a] \in {"check", "commit", "reserve"}
    PROVE  /\ \A b \in Actors : b # a => at[b] \notin {"check", "commit", "reserve"}
           /\ a = Runner => RunnerAlone /\ at[Client] \notin {"check", "commit", "reserve"}
                            /\ compacting = "no" /\ running # Compaction
           /\ a = Client => ClientAlone /\ items = <<>> /\ at[Runner] = "idle"
  BY DEF AgreeInv, StarterInv, WhoBegins

\* The sections of begin_unified_turn, of either actor.
LEMMA CommitsAgree ==
    ASSUME SessionInv, AgreeInv, NEW a \in Actors, BeginCommitted(a)
    PROVE  AgreeInv'
  <1> DEFINE t == begun + 1
  <1>1. /\ at[a] = "commit" /\ t \in Turns /\ running = NoTurn
        /\ \A b \in Actors : b # a => at[b] \notin {"check", "commit", "reserve"}
    BY NoneElseBegins DEF BeginCommitted, AgreeInv, StarterInv
  <1>2. /\ latest' = [id |-> t, status |-> "in_progress"]
        /\ at'[a] = "reserve" /\ turn'[a] = t
        /\ \A b \in Actors : b # a => at'[b] = at[b]
        /\ UNCHANGED <<items, hostVars, compacting, driver>>
    BY DEF BeginCommitted
  <1> HIDE DEF t
  <1>3. WhoBegins'
    BY <1>1, <1>2, NoneElseBegins DEF WhoBegins
  <1>4. StarterInv'
    BY <1>1, <1>2, <1>3 DEF AgreeInv, StarterInv, WhoBegins, Active
  <1>5. HostInv'
    BY <1>1, <1>2 DEF AgreeInv, HostInv
  <1>6. QED
    BY <1>4, <1>5 DEF AgreeInv

LEMMA ReservesAgree ==
    ASSUME SessionInv, AgreeInv, NEW a \in Actors, BeginReserved(a)
    PROVE  AgreeInv'
  <1> DEFINE t == turn[a]
  <1>1. /\ at[a] = "reserve" /\ t \in Turns /\ running = NoTurn /\ driver[t] = "none"
        /\ latest = [id |-> t, status |-> "in_progress"] /\ compacting = "no"
        /\ \A b \in Actors : b # a => at[b] \notin {"check", "commit", "reserve"}
    BY NoneElseBegins DEF BeginReserved, AgreeInv, StarterInv, Active, TurnsInv
  <1>2. /\ running' = t /\ channel' = t
        /\ \/ driver' = [driver EXCEPT ![t] = "ready"]
           \/ UNCHANGED driver
        /\ at'[a] = "idle"
        /\ \A b \in Actors : b # a => at'[b] = at[b]
        /\ UNCHANGED <<items, latest, compacting>>
    BY DEF BeginReserved, TakeHost
  <1> HIDE DEF t
  <1>3. WhoBegins'
    BY <1>1, <1>2, NoneElseBegins DEF WhoBegins
  <1>4. StarterInv'
    <2>1. at'[Runner] = "idle"
      <3>1. CASE a = Runner
        BY <1>2, <3>1
      <3>2. CASE a = Client
        <4>1. at[Runner] = "idle"
          BY <1>1, <3>2, NoneElseBegins
        <4>2. QED
          BY <1>2, <3>2, <4>1
      <3>3. QED
        BY <3>1, <3>2
    <2>2. \A b \in Actors : at'[b] \notin {"commit", "reserve"}
      <3> TAKE b \in Actors
      <3>1. CASE b = a
        BY <1>2, <3>1
      <3>2. CASE b # a
        <4>1. at'[b] = at[b] /\ at[b] \notin {"check", "commit", "reserve"}
          BY <1>1, <1>2, <3>2
        <4>2. QED
          BY <4>1
      <3>3. QED
        BY <3>1, <3>2
    <2>3. QED
      BY <1>1, <1>2, <1>3, <2>1, <2>2 DEF StarterInv
  <1>5. \A u \in Turns : driver[u] \notin Working \union {"settled"}
    BY <1>1 DEF AgreeInv, HostInv
  <1>6. HostInv'
    BY <1>1, <1>2, <1>5 DEF HostInv, Working
  <1>7. QED
    BY <1>4, <1>6 DEF AgreeInv

LEMMA BeginsAgree ==
    ASSUME SessionInv, AgreeInv, NEW a \in Actors, Begins(a)
    PROVE  AgreeInv'
  <1>1. ASSUME BeginRefused(a) \/ BeginChecked(a)
        PROVE  /\ at[a] = "check" /\ at'[a] # "reserve" /\ at'[a] # "check"
               /\ at'[a] = "commit" => running = NoTurn
               /\ at'[a] \in {"idle", "commit"}
               /\ \A b \in Actors : b # a => at'[b] = at[b]
               /\ UNCHANGED <<items, hostVars, latest, compacting, driver, turn>>
    BY <1>1 DEF BeginRefused, BeginChecked, MayBegin, Idle
  <1>2. CASE (BeginRefused(a) \/ BeginChecked(a)) /\ a = Runner
    <2>1. running = NoTurn
      BY <1>1, <1>2 DEF AgreeInv, StarterInv
    <2>2. QED
      BY <1>1, <1>2, <2>1, NoneElseBegins, RunnerGoesAgree
  <1>3. CASE (BeginRefused(a) \/ BeginChecked(a)) /\ a = Client
    <2>1. at'[Client] = "idle" \/ (at'[Client] = "commit" /\ running = NoTurn)
      BY <1>1, <1>3
    <2>2. QED
      BY <1>1, <1>3, <2>1, NoneElseBegins, ClientAgrees, AsideAgrees
  <1>4. QED
    BY <1>2, <1>3, CommitsAgree, ReservesAgree DEF Begins

LEMMA CompactionAgrees ==
    ASSUME SessionInv, AgreeInv, ClientCompacts
    PROVE  AgreeInv'
  <1>1. /\ ClientAlone /\ items = <<>> /\ at[Runner] = "idle" /\ at[Client] = "idle"
        /\ running = NoTurn
    BY DEF ClientCompacts, Idle, RunnerAlone, AgreeInv, StarterInv, WhoBegins
  <1>2. /\ running' = Compaction /\ channel' = Compaction
        /\ UNCHANGED <<items, latest, driver, at, turn>>
    BY DEF ClientCompacts, TakeHost
  <1>3. latest.status # "in_progress"
    BY <1>1 DEF AgreeInv, HostInv
  <1>4. \A u \in Turns : driver[u] \notin Working \union {"settled"}
    BY <1>1 DEF AgreeInv, HostInv
  <1>5. StarterInv'
    BY <1>1, <1>2 DEF StarterInv, WhoBegins
  <1>6. HostInv'
    BY <1>2, <1>3, <1>4 DEF HostInv
  <1>7. QED
    BY <1>5, <1>6 DEF AgreeInv

LEMMA RequestsAgree ==
    ASSUME SessionInv, AgreeInv, ClientRequests
    PROVE  AgreeInv'
  <1>1. CASE ClientEnqueues \/ ClientReplaces \/ ClientRemoves \/ ClientResumes
    <2>1. ClientAlone /\ items = <<>> => UNCHANGED items
      BY <1>1, EmptyStaysEmpty
         DEF ClientEnqueues, ClientReplaces, ClientRemoves, ClientResumes, ClientAlone
    <2>2. /\ UNCHANGED <<hostVars, latest, compacting, driver, turn>>
          /\ at[Client] = "idle" /\ at' = [at EXCEPT ![Client] = "publish"]
      BY <1>1 DEF ClientEnqueues, ClientReplaces, ClientRemoves, ClientResumes,
                  ClientQueues
    <2>3. QED
      BY <2>1, <2>2, AsideAgrees
  <1>2. CASE ClientStarts
    <2>1. /\ UNCHANGED <<items, hostVars, latest, compacting, driver, turn>>
          /\ at[Client] = "idle" /\ at' = [at EXCEPT ![Client] = "check"] /\ ~RunnerAlone
      BY <1>2 DEF ClientStarts, RunnerAlone
    <2>2. ClientAlone /\ items = <<>> /\ at[Runner] = "idle"
      BY <2>1 DEF AgreeInv, StarterInv, WhoBegins
    <2>3. QED
      BY <2>1, <2>2, ClientAgrees
  <1>3. CASE ClientCompacts
    BY <1>3, CompactionAgrees
  <1>4. ASSUME NEW t \in Turns, ClientInterrupts(t) PROVE AgreeInv'
    <2>1. UNCHANGED <<items, hostVars, latest, compacting, driver, at, turn>>
          /\ at[Client] = "idle"
      BY <1>4 DEF ClientInterrupts
    <2>2. QED
      BY <2>1, AsideAgrees
  <1>5. ASSUME NEW t \in Turns, \/ ClientSteers(t) \/ ClientCancels(t)
                                \/ \E id \in Ids : ClientFolds(id, t)
        PROVE  AgreeInv'
    <2>1. /\ UNCHANGED <<items, hostVars, latest, compacting, driver>>
          /\ at[Client] = "idle" /\ turn' = [turn EXCEPT ![Client] = t]
          /\ \/ at' = [at EXCEPT ![Client] = "steer"]
             \/ at' = [at EXCEPT ![Client] = "fold"]
             \/ at' = [at EXCEPT ![Client] = "release"]
      BY <1>5 DEF ClientSteers, ClientCancels, ClientFolds
    <2>2. QED
      BY <2>1, AsideAgrees
  <1>6. QED
    BY <1>1, <1>2, <1>3, <1>4, <1>5 DEF ClientRequests

LEMMA ContinuesAgree ==
    ASSUME SessionInv, AgreeInv, ClientContinues
    PROVE  AgreeInv'
  <1> DEFINE Aside == /\ UNCHANGED <<hostVars, latest, compacting, driver>>
                      /\ ClientAlone /\ items = <<>> => UNCHANGED items
                      /\ at'[Runner] = at[Runner] /\ turn'[Runner] = turn[Runner]
                      /\ at[Client] # "reserve"
                      /\ at'[Client] \notin {"check", "commit", "reserve"}
  <1>1. CASE ActorReads(Client)
    <2>1. Aside
      BY <1>1 DEF ActorReads
    <2>2. QED
      BY <2>1, AsideAgrees
  <1>2. CASE ActorWrites(Client)
    <2>1. item[Client] = NoItem
      BY <1>2 DEF ActorWrites, ItemsInHand
    <2>2. Aside
      BY <1>2, <2>1 DEF ActorWrites
    <2>3. QED
      BY <2>2, AsideAgrees
  <1>3. CASE Begins(Client)
    BY <1>3, BeginsAgree
  <1>4. CASE SteerAccepted \/ SteerRefused \/ FoldSteers
    <2>1. Aside
      BY <1>4 DEF SteerAccepted, SteerRefused, FoldSteers, Steer
    <2>2. QED
      BY <2>1, AsideAgrees
  <1>5. CASE FoldLeaves
    <2>1. items = <<>> => UNCHANGED items
      BY <1>5 DEF FoldLeaves, SteerOut
    <2>2. Aside
      BY <1>5, <2>1 DEF FoldLeaves
    <2>3. QED
      BY <2>2, AsideAgrees
  <1>6. CASE CancelReleases \/ CancelSignals
    <2>1. Aside
      BY <1>6 DEF CancelReleases, CancelSignals
    <2>2. QED
      BY <2>1, AsideAgrees
  <1>7. QED
    BY <1>1, <1>2, <1>3, <1>4, <1>5, <1>6 DEF ClientContinues

LEMMA RunnerAgrees ==
    ASSUME SessionInv, AgreeInv, RunnerSteps
    PROVE  AgreeInv'
  <1>1. CASE RunnerPops \/ RunnerFires \/ ActorReads(Runner) \/ ActorWrites(Runner)
    <2>1. /\ UNCHANGED <<hostVars, latest, compacting, driver, turn>>
          /\ at'[Client] = at[Client] /\ at[Runner] # "reserve" /\ at'[Runner] # "reserve"
      BY <1>1 DEF RunnerPops, RunnerFires, ActorReads, ActorWrites
    <2>2. running = NoTurn
      BY <1>1 DEF RunnerPops, RunnerFires, ActorReads, ActorWrites, Idle, AgreeInv,
                  StarterInv
    <2>3. ~(ClientAlone /\ items = <<>> /\ at[Runner] = "idle")
      BY <1>1 DEF RunnerPops, RunnerFires, ActorReads, ActorWrites, PopNext, ClientAlone
    <2>4. /\ RunnerAlone /\ compacting = "no"
          /\ at[Client] \notin {"check", "commit", "reserve"}
      BY <2>3 DEF AgreeInv, StarterInv, WhoBegins
    <2>5. QED
      BY <2>1, <2>2, <2>4, RunnerGoesAgree
  <1>2. CASE Begins(Runner)
    BY <1>2, BeginsAgree
  <1>3. QED
    BY <1>1, <1>2 DEF RunnerSteps

\* A driver settles the turn the host runs.
LEMMA SettlesAgree ==
    ASSUME SessionInv, AgreeInv, NEW t \in Turns, driver[t] \in Working,
           NEW how \in Endings, Settle(t, how)
    PROVE  AgreeInv'
  BY DEF AgreeInv, StarterInv, WhoBegins, HostInv, Active, Settle, Endings, Working

\* It goes on with it, or has nothing more to do with it.
LEMMA GoesOn ==
    ASSUME SessionInv, AgreeInv, NEW t \in Turns,
           NEW from \in Working, NEW to \in Working, Drive(t, from, to),
           UNCHANGED <<items, hostVars, latest, compacting, at, turn>>
    PROVE  AgreeInv'
  BY DEF AgreeInv, StarterInv, WhoBegins, HostInv, Active, Drive, Working

LEMMA StaysOut ==
    ASSUME SessionInv, AgreeInv, NEW t \in Turns,
           NEW from, from \notin Working \union {"settled"},
           NEW to, to \notin Working \union {"settled"}, Drive(t, from, to),
           UNCHANGED <<items, hostVars, latest, compacting, at, turn>>
    PROVE  AgreeInv'
  BY DEF AgreeInv, StarterInv, WhoBegins, HostInv, Active, Drive, Working

LEMMA DriversAgree ==
    ASSUME SessionInv, AgreeInv, NEW t \in Turns, DriverMoves(t) \/ WorldAnswers(t)
    PROVE  AgreeInv'
  <1>1. CASE CallsModel(t) \/ CompactsFirst(t) \/ DriverReads(t) \/ DriverWrites(t)
    <2>1. UNCHANGED <<items, hostVars, latest, compacting, at, turn>>
      BY <1>1 DEF CallsModel, CompactsFirst, DriverReads, DriverWrites
    <2>2. \/ Drive(t, "ready", "calling") \/ Drive(t, "compacted", "calling")
          \/ Drive(t, "ready", "compacting")
          \/ Drive(t, "publish", "write") \/ Drive(t, "write", "over")
      BY <1>1 DEF CallsModel, CompactsFirst, DriverReads, DriverWrites
    <2>3. CASE Drive(t, "ready", "calling") \/ Drive(t, "compacted", "calling")
               \/ Drive(t, "ready", "compacting")
      BY <2>1, <2>3, GoesOn DEF Working
    <2>4. CASE Drive(t, "publish", "write") \/ Drive(t, "write", "over")
      BY <2>1, <2>4, StaysOut DEF Working
    <2>5. QED
      BY <2>2, <2>3, <2>4
  <1>2. CASE Compacted(t) \/ AnswerContinues(t) \/ ToolsFinish(t)
    <2>1. UNCHANGED <<items, hostVars, latest, compacting, at, turn>>
      BY <1>2 DEF Compacted, AnswerContinues, ToolsFinish
    <2>2. \/ Drive(t, "compacting", "compacted") \/ Drive(t, "calling", "tools")
          \/ Drive(t, "tools", "ready")
      BY <1>2 DEF Compacted, AnswerContinues, ToolsFinish
    <2>3. QED
      BY <2>1, <2>2, GoesOn DEF Working
  <1>3. CASE TurnInterrupted(t) \/ TurnCancelled(t) \/ AnswerCompletes(t)
             \/ LastRoundCompletes(t) \/ TurnFails(t)
    BY <1>3, SettlesAgree
       DEF TurnInterrupted, TurnCancelled, AnswerCompletes, LastRoundCompletes, TurnFails,
           Interruptible, Working, Endings
  <1>4. CASE EndTurn(t)
    <2>1. UNCHANGED items
      BY <1>4 DEF EndTurn, Pause
    <2>2. /\ running' = NoTurn /\ channel' = NoTurn /\ driver[t] = "settled"
          /\ driver' = [driver EXCEPT ![t] = driver'[t]] /\ driver'[t] \in {"publish", "over"}
          /\ UNCHANGED <<latest, compacting, at, turn>>
      BY <1>4 DEF EndTurn, FreeHost, Dropped
    <2>3. running = t /\ latest.status # "in_progress" /\ compacting = "no"
      BY <2>2 DEF AgreeInv, StarterInv, HostInv
    <2>4. \A u \in Turns : u # t => driver[u] \notin Working \union {"settled"}
      BY <2>3 DEF AgreeInv, HostInv
    <2>5. StarterInv'
      BY <2>1, <2>2, <2>3 DEF AgreeInv, StarterInv, WhoBegins, Active
    <2>6. HostInv'
      BY <2>2, <2>3, <2>4 DEF HostInv, Working
    <2>7. QED
      BY <2>5, <2>6 DEF AgreeInv
  <1>5. QED
    BY <1>1, <1>2, <1>3, <1>4 DEF DriverMoves, WorldAnswers

LEMMA AgreeInvStep ==
    ASSUME SessionInv, AgreeInv, [Next]_vars
    PROVE  AgreeInv'
  <1>1. CASE CompactionSettles
    <2>1. /\ UNCHANGED <<items, hostVars, latest, driver, at, turn>>
          /\ compacting = "summarizing" /\ compacting' = "settled"
      BY <1>1 DEF CompactionSettles
    <2>2. StarterInv'
      BY <2>1 DEF AgreeInv, StarterInv, WhoBegins, Active
    <2>3. HostInv'
      BY <2>1 DEF AgreeInv, HostInv
    <2>4. QED
      BY <2>2, <2>3 DEF AgreeInv
  <1>2. CASE CompactionEnds
    <2>1. /\ UNCHANGED <<items, latest, driver, at, turn>>
          /\ compacting # "no" /\ compacting' = "no"
          /\ running' = NoTurn /\ channel' = NoTurn
      BY <1>2 DEF CompactionEnds, FreeHost
    <2>2. running = Compaction
      BY <2>1 DEF AgreeInv, StarterInv
    <2>3. StarterInv'
      BY <2>1, <2>2 DEF AgreeInv, StarterInv, WhoBegins, Active
    <2>4. HostInv'
      BY <2>1, <2>2 DEF AgreeInv, HostInv
    <2>5. QED
      BY <2>3, <2>4 DEF AgreeInv
  <1>3. CASE UNCHANGED vars
    BY <1>3 DEF vars, AgreeInv, StarterInv, WhoBegins, HostInv, Active
  <1>4. QED
    BY <1>1, <1>2, <1>3, RequestsAgree, ContinuesAgree, RunnerAgrees, DriversAgree DEF Next

LEMMA AgreeInvHolds == ASSUME OneStarter PROVE Spec => []AgreeInv
  <1>1. Init => AgreeInv
    BY DEF Init, QueueInit, AgreeInv, StarterInv, WhoBegins, HostInv, Active, Working,
           OneStarter
  <1>2. QED
    BY <1>1, SessionInvHolds, AgreeInvStep, PTL DEF Spec

-----------------------------------------------------------------------------
(* What follows where one thread begins work. *)

\* One driver works at a time, however the client, the loops and the drivers
\* interleave: require_idle keeps its word where one thread begins work.
THEOREM OneTurn == ASSUME OneStarter PROVE Spec => []OneTurnAtATime
  <1>1. SessionInv /\ AgreeInv => OneTurnAtATime
    <2> SUFFICES ASSUME SessionInv, AgreeInv
                 PROVE  OneTurnAtATime
      OBVIOUS
    <2>1. AtWork \subseteq {running}
      BY AtWorkPhases DEF AgreeInv, HostInv
    <2>2. Cardinality(AtWork) <= 1
      <3>1. AtWork = {} \/ AtWork = {running}
        BY <2>1
      <3>2. Cardinality({}) = 0 /\ Cardinality({running}) = 1
        BY FS_EmptySet, FS_Singleton, Zenon
      <3>3. Cardinality(AtWork) \in {0, 1}
        BY ONLY <3>1, <3>2, Zenon
      <3>4. QED
        BY ONLY <3>3
    <2>3. compacting # "no" => AtWork = {}
      BY <2>1 DEF AgreeInv, StarterInv, AtWork
    <2>4. QED
      BY <2>2, <2>3 DEF OneTurnAtATime
  <1>2. QED
    BY <1>1, SessionInvHolds, AgreeInvHolds, PTL

\* What the host would interrupt or steer is the turn the core has in progress,
\* in whatever section of its beginning, its rounds or its end it is.
THEOREM HostAndCoreAgree == ASSUME OneStarter PROVE Spec => []HostFollowsCore
  <1>1. AgreeInv => HostFollowsCore
    BY DEF AgreeInv, HostInv, HostFollowsCore
  <1>2. QED
    BY <1>1, AgreeInvHolds, PTL

-----------------------------------------------------------------------------
(* An item the runner took becomes a turn. *)

\* Only a pop takes an item.
TakesNothing == \A id \in Ids : fate'[id] = "taken" => fate[id] = "taken"

\* The items in the runner's hands, and those that are turns, stay what they are.
KeepsItems ==
    /\ TakesNothing
    /\ item'[Runner] = item[Runner]
    /\ UNCHANGED queueItem

LEMMA OnlyPopsTake ==
    ASSUME QueueInv,
           \/ \E key \in Keys \union {NoKey}, params \in Inputs : Enqueue(key, params)
           \/ \E key \in Keys \union {NoKey}, params \in Inputs, id \in Ids :
                  Replace(key, params, id)
           \/ \E id \in Ids : RemoveItem(id)
           \/ \E id \in Ids, t \in Turns : SteerOut(id, t)
           \/ Resume \/ Pause \/ UNCHANGED queueVars
    PROVE  TakesNothing
  <1>1. ASSUME NEW i \in DOMAIN items, NEW how, how # "taken", Leave(i, how)
        PROVE  TakesNothing
    BY <1>1, LeaveFate DEF TakesNothing
  <1>2. ASSUME NEW key \in Keys \union {NoKey}, NEW params \in Inputs, Enqueue(key, params)
        PROVE  TakesNothing
    BY <1>2 DEF Enqueue, FreshId, QueueInv, QueueTypeOK, TakesNothing
  <1>3. QED
    BY <1>1, <1>2 DEF Replace, RemoveItem, SteerOut, Resume, Pause, queueVars, TakesNothing

LEMMA RequestsKeepItems ==
    ASSUME SessionInv, ClientRequests
    PROVE  KeepsItems
  <1>1. CASE ClientEnqueues \/ ClientReplaces \/ ClientRemoves \/ ClientResumes
    BY <1>1, OnlyPopsTake
       DEF ClientEnqueues, ClientReplaces, ClientRemoves, ClientResumes, ClientQueues,
           KeepsItems
  <1>2. CASE ClientStarts \/ ClientCompacts
    BY <1>2, OnlyPopsTake DEF ClientStarts, ClientCompacts, KeepsItems
  <1>3. ASSUME NEW t \in Turns, ClientInterrupts(t) \/ ClientSteers(t) \/ ClientCancels(t)
        PROVE  KeepsItems
    BY <1>3, OnlyPopsTake DEF ClientInterrupts, ClientSteers, ClientCancels, KeepsItems
  <1>4. ASSUME NEW t \in Turns, NEW id \in Ids, ClientFolds(id, t) PROVE KeepsItems
    BY <1>4, OnlyPopsTake DEF ClientFolds, KeepsItems
  <1>5. QED
    BY <1>1, <1>2, <1>3, <1>4 DEF ClientRequests

LEMMA ContinuesKeepItems ==
    ASSUME SessionInv, ClientContinues, ~BeginCommitted(Client)
    PROVE  KeepsItems
  <1>1. CASE BeginRefused(Client) \/ BeginChecked(Client) \/ BeginReserved(Client)
    BY <1>1, OnlyPopsTake DEF BeginRefused, BeginChecked, BeginReserved, KeepsItems
  <1>2. CASE ActorReads(Client) \/ ActorWrites(Client)
    BY <1>2, OnlyPopsTake DEF ActorReads, ActorWrites, KeepsItems
  <1>3. CASE SteerAccepted \/ SteerRefused \/ FoldSteers
    BY <1>3, OnlyPopsTake DEF SteerAccepted, SteerRefused, FoldSteers, Steer, KeepsItems
  <1>4. CASE FoldLeaves
    <2>1. item'[Runner] = item[Runner] /\ UNCHANGED queueItem
      BY <1>4 DEF FoldLeaves
    <2>2. CASE item[Client] \in QueuedIds
      <3>1. item[Client] \in Ids /\ turn[Client] \in Turns
        BY <1>4, <2>2, ItemHasId DEF QueuedIds, QueueInv, FoldLeaves, TurnsInv
      <3>2. SteerOut(item[Client], turn[Client])
        BY <1>4, <2>2 DEF FoldLeaves
      <3>3. QED
        BY <2>1, <3>1, <3>2, OnlyPopsTake DEF KeepsItems
    <2>3. CASE item[Client] \notin QueuedIds
      BY <1>4, <2>1, <2>3, OnlyPopsTake DEF FoldLeaves, KeepsItems
    <2>4. QED
      BY <2>2, <2>3
  <1>5. CASE CancelReleases \/ CancelSignals
    BY <1>5, OnlyPopsTake DEF CancelReleases, CancelSignals, KeepsItems
  <1>6. QED
    BY <1>1, <1>2, <1>3, <1>4, <1>5 DEF ClientContinues, Begins

\* A turn the runner took from the queue is never refused: no other began, and
\* a turn of a loop finds nothing to put down.
LEMMA RunnerKeepsItems ==
    ASSUME SessionInv, AgreeInv, RunnerSteps, ~RunnerPops, ~BeginCommitted(Runner)
    PROVE  KeepsItems
  <1>1. CASE RunnerFires \/ ActorReads(Runner) \/ ActorWrites(Runner)
    BY <1>1, OnlyPopsTake DEF RunnerFires, ActorReads, ActorWrites, KeepsItems
  <1>2. CASE BeginRefused(Runner)
    <2>1. item[Runner] = NoItem
      BY <1>2 DEF BeginRefused, MayBegin, Idle, AgreeInv, StarterInv
    <2>2. QED
      BY <1>2, <2>1, OnlyPopsTake DEF BeginRefused, KeepsItems
  <1>3. CASE BeginChecked(Runner) \/ BeginReserved(Runner)
    BY <1>3, OnlyPopsTake DEF BeginChecked, BeginReserved, KeepsItems
  <1>4. QED
    BY <1>1, <1>2, <1>3 DEF RunnerSteps, Begins

LEMMA DriversKeepItems ==
    ASSUME SessionInv, NEW t \in Turns, DriverMoves(t) \/ WorldAnswers(t)
    PROVE  KeepsItems
  <1>1. ASSUME NEW how, Settle(t, how) PROVE KeepsItems
    BY <1>1, OnlyPopsTake DEF Settle, KeepsItems
  <1>2. CASE EndTurn(t)
    BY <1>2, OnlyPopsTake DEF EndTurn, KeepsItems
  <1>3. CASE CallsModel(t) \/ CompactsFirst(t) \/ DriverReads(t) \/ DriverWrites(t)
    BY <1>3, OnlyPopsTake
       DEF CallsModel, CompactsFirst, DriverReads, DriverWrites, KeepsItems
  <1>4. CASE Compacted(t) \/ AnswerContinues(t) \/ ToolsFinish(t)
    BY <1>4, OnlyPopsTake DEF Compacted, AnswerContinues, ToolsFinish, KeepsItems
  <1>5. CASE TurnInterrupted(t) \/ TurnCancelled(t) \/ AnswerCompletes(t)
             \/ LastRoundCompletes(t) \/ TurnFails(t)
    BY <1>1, <1>5
       DEF TurnInterrupted, TurnCancelled, AnswerCompletes, LastRoundCompletes, TurnFails
  <1>6. QED
    BY <1>2, <1>3, <1>4, <1>5 DEF DriverMoves, WorldAnswers

\* A turn keeps its item, and the runner its own until it is one.
LEMMA TakenStep ==
    ASSUME SessionInv, AgreeInv, TakenItemRuns, [Next]_vars
    PROVE  TakenItemRuns'
  <1>1. CASE RunnerPops
    <2>1. item[Runner] = NoItem
      BY <1>1 DEF RunnerPops, ItemsInHand
    <2>2. 1 \in DOMAIN items /\ Leave(1, "taken") /\ item'[Runner] = items[1].id
      BY <1>1, HeadIsFirst DEF RunnerPops, PopNext, QueueInv
    <2>3. \A id \in Ids : fate'[id] = "taken" => fate[id] = "taken" \/ id = items[1].id
      BY <2>2, LeaveFate
    <2>4. UNCHANGED queueItem
      BY <1>1 DEF RunnerPops
    <2>5. QED
      BY <2>1, <2>2, <2>3, <2>4 DEF TakenItemRuns
  <1>2. ASSUME NEW a \in Actors, BeginCommitted(a) PROVE TakenItemRuns'
    <2>1. begun + 1 \in Turns /\ queueItem[begun + 1] = NoItem
      BY <1>2 DEF BeginCommitted, TurnsInv
    <2>2. /\ queueItem' = [queueItem EXCEPT ![begun + 1] = item[a]] /\ UNCHANGED fate
          /\ a # Runner => item'[Runner] = item[Runner]
      BY <1>2 DEF BeginCommitted, queueVars
    <2>3. QED
      BY <2>1, <2>2 DEF TakenItemRuns
  <1>3. CASE KeepsItems
    BY <1>3 DEF KeepsItems, TakesNothing, TakenItemRuns
  <1>4. CASE CompactionSettles \/ CompactionEnds \/ UNCHANGED vars
    BY <1>4, OnlyPopsTake, <1>3 DEF CompactionSettles, CompactionEnds, vars, KeepsItems
  <1>5. QED
    BY <1>1, <1>2, <1>3, <1>4, RequestsKeepItems, ContinuesKeepItems, RunnerKeepsItems,
       DriversKeepItems DEF Next

\* No queued item is lost between the pop and the turn it becomes, though the
\* runner holds it over three sections of two mutexes, as long as the client
\* starts nothing in between.
THEOREM TakenItemsRun == ASSUME OneStarter PROVE Spec => []TakenItemRuns
  <1>1. Init => TakenItemRuns
    BY DEF Init, QueueInit, TakenItemRuns
  <1>2. QED
    BY <1>1, SessionInvHolds, AgreeInvHolds, TakenStep, PTL DEF Spec

-----------------------------------------------------------------------------
(* Steering, of a client that folds no queued item into a turn.             *)

NoFold == "fold" \notin Requests /\ at[Client] # "fold"

SteeringInv == NoFold /\ SteeringHasATurn

LEMMA NoFoldStep ==
    ASSUME SessionInv, NoFold, [Next]_vars
    PROVE  NoFold'
  <1>1. CASE ClientEnqueues \/ ClientReplaces \/ ClientRemoves \/ ClientResumes
    BY <1>1 DEF ClientEnqueues, ClientReplaces, ClientRemoves, ClientResumes, ClientQueues,
                NoFold
  <1>2. CASE ClientStarts \/ ClientCompacts
    BY <1>2 DEF ClientStarts, ClientCompacts, NoFold
  <1>3. ASSUME NEW t \in Turns, ClientInterrupts(t) \/ ClientSteers(t) \/ ClientCancels(t)
        PROVE  NoFold'
    BY <1>3 DEF ClientInterrupts, ClientSteers, ClientCancels, NoFold
  <1>4. ASSUME NEW t \in Turns, NEW id \in Ids PROVE ~ClientFolds(id, t)
    BY DEF ClientFolds, NoFold
  <1>5. ASSUME NEW a \in Actors, ActorReads(a) \/ ActorWrites(a) \/ Begins(a)
        PROVE  NoFold'
    BY <1>5 DEF ActorReads, ActorWrites, Begins, BeginRefused, BeginChecked,
                BeginCommitted, BeginReserved, NoFold
  <1>6. CASE SteerAccepted \/ SteerRefused \/ FoldSteers \/ FoldLeaves \/ CancelReleases
             \/ CancelSignals
    BY <1>6 DEF SteerAccepted, SteerRefused, FoldSteers, FoldLeaves, CancelReleases,
                CancelSignals, NoFold
  <1>7. CASE RunnerPops \/ RunnerFires
    BY <1>7 DEF RunnerPops, RunnerFires, NoFold
  <1>8. CASE CompactionSettles \/ CompactionEnds \/ UNCHANGED vars
    BY <1>8 DEF CompactionSettles, CompactionEnds, vars, NoFold
  <1>9. ASSUME NEW t \in Turns, DriverMoves(t) \/ WorldAnswers(t)
        PROVE  NoFold'
    BY <1>9, DriversStayOut DEF NoFold
  <1>10. QED
    BY <1>1, <1>2, <1>3, <1>4, <1>5, <1>6, <1>7, <1>8, <1>9
       DEF Next, ClientRequests, ClientContinues, RunnerSteps

\* What a step does to the core's steering and to its latest turn.
CoreStays == UNCHANGED <<latest, shown, pendingSteer>>

LEMMA HostStepsLeaveTheCore ==
    ASSUME ClientRequests \/ ActorReads(Client) \/ ActorWrites(Client)
           \/ SteerRefused \/ FoldLeaves \/ CancelReleases \/ CancelSignals
           \/ RunnerPops \/ RunnerFires \/ ActorReads(Runner) \/ ActorWrites(Runner)
           \/ CompactionEnds \/ UNCHANGED vars
    PROVE  CoreStays
  <1>1. CASE ClientRequests
    BY <1>1
       DEF ClientRequests, ClientEnqueues, ClientReplaces, ClientRemoves, ClientResumes,
           ClientQueues, ClientStarts, ClientCompacts, ClientInterrupts, ClientSteers,
           ClientCancels, ClientFolds, CoreStays
  <1>2. CASE RunnerPops \/ RunnerFires \/ CompactionEnds \/ UNCHANGED vars
    BY <1>2 DEF RunnerPops, RunnerFires, CompactionEnds, vars, CoreStays
  <1>3. CASE SteerRefused \/ FoldLeaves \/ CancelReleases \/ CancelSignals
    BY <1>3 DEF SteerRefused, FoldLeaves, CancelReleases, CancelSignals, CoreStays
  <1>4. ASSUME NEW a \in Actors, ActorReads(a) \/ ActorWrites(a)
        PROVE  CoreStays
    BY <1>4 DEF ActorReads, ActorWrites, CoreStays
  <1>5. QED
    BY <1>1, <1>2, <1>3, <1>4

LEMMA BeginsInTheCore ==
    ASSUME NEW a \in Actors, Begins(a)
    PROVE  \/ CoreStays
           \/ /\ begun + 1 \in Turns
              /\ latest' = [id |-> begun + 1, status |-> "in_progress"]
              /\ shown' = begun + 1 /\ UNCHANGED pendingSteer
  BY DEF Begins, BeginRefused, BeginChecked, BeginCommitted, BeginReserved, CoreStays

LEMMA SteeringStep ==
    ASSUME SessionInv, SteeringInv, [Next]_vars
    PROVE  SteeringInv'
  <1> USE DEF SteeringInv, SteeringHasATurn
  <1>1. NoFold'
    BY NoFoldStep
  <1>2. CASE CoreStays
    BY <1>1, <1>2 DEF CoreStays
  <1>3. ASSUME NEW a \in Actors, Begins(a) PROVE SteeringInv'
    BY <1>1, <1>2, <1>3, BeginsInTheCore
  <1>4. CASE SteerAccepted \/ FoldSteers
    BY <1>1, <1>4 DEF SteerAccepted, FoldSteers, Steer, Active, NoFold
  <1>5. CASE CompactionSettles
    BY <1>1, <1>5 DEF CompactionSettles
  <1>6. ASSUME NEW t \in Turns, DriverMoves(t) \/ WorldAnswers(t)
        PROVE  SteeringHasATurn'
    <2>1. CASE CallsModel(t) \/ CompactsFirst(t) \/ DriverReads(t) \/ DriverWrites(t)
               \/ EndTurn(t)
      BY <2>1 DEF CallsModel, CompactsFirst, DriverReads, DriverWrites, EndTurn
    <2>2. CASE Compacted(t) \/ AnswerContinues(t) \/ ToolsFinish(t)
      BY <2>2 DEF Compacted, AnswerContinues, ToolsFinish
    <2>3. CASE TurnInterrupted(t) \/ TurnCancelled(t) \/ AnswerCompletes(t)
               \/ LastRoundCompletes(t) \/ TurnFails(t)
      BY <2>3 DEF TurnInterrupted, TurnCancelled, AnswerCompletes, LastRoundCompletes,
                  TurnFails, Settle
    <2>4. QED
      BY <1>6, <2>1, <2>2, <2>3 DEF DriverMoves, WorldAnswers
  <1>7. QED
    BY <1>1, <1>2, <1>3, <1>4, <1>5, <1>6, HostStepsLeaveTheCore
       DEF Next, ClientContinues, RunnerSteps

\* Steering never waits for a turn that is over: the core asks itself again
\* when it takes the message, and no ending leaves one behind. A fold does not
\* ask, which the hypothesis leaves out and the run folded_late shows.
THEOREM SteeringIsRead ==
    ASSUME "fold" \notin Requests
    PROVE  Spec => []SteeringHasATurn
  <1>1. Init => SteeringInv
    BY DEF Init, SteeringInv, NoFold, SteeringHasATurn
  <1>2. Spec => []SteeringInv
    BY <1>1, SessionInvHolds, SteeringStep, PTL DEF Spec
  <1>3. QED
    BY <1>2, PTL DEF SteeringInv

-----------------------------------------------------------------------------
(* What the session shows. *)

LEMMA ShownStep ==
    ASSUME SessionInv, AgreeInv, NoFold, ShownIsInProgress, [Next]_vars
    PROVE  ShownIsInProgress'
  <1> USE DEF ShownIsInProgress
  <1>1. CASE CoreStays
    BY <1>1 DEF CoreStays
  <1>2. ASSUME NEW a \in Actors, Begins(a) PROVE ShownIsInProgress'
    BY <1>1, <1>2, BeginsInTheCore
  <1>3. CASE SteerAccepted \/ FoldSteers
    BY <1>3 DEF SteerAccepted, FoldSteers, Steer, Active, NoFold
  <1>4. CASE CompactionSettles
    <2>1. latest.status # "in_progress" /\ UNCHANGED latest /\ shown' = NoTurn
      BY <1>4 DEF CompactionSettles, AgreeInv, StarterInv, HostInv
    <2>2. QED
      BY <2>1
  <1>5. ASSUME NEW t \in Turns, DriverMoves(t) \/ WorldAnswers(t)
        PROVE  ShownIsInProgress'
    <2>1. CASE CallsModel(t) \/ CompactsFirst(t) \/ DriverReads(t) \/ DriverWrites(t)
               \/ EndTurn(t)
      BY <2>1 DEF CallsModel, CompactsFirst, DriverReads, DriverWrites, EndTurn
    <2>2. CASE Compacted(t) \/ AnswerContinues(t) \/ ToolsFinish(t)
      <3>1. driver[t] \in Working /\ shown' = t /\ UNCHANGED latest
        BY <2>2 DEF Compacted, AnswerContinues, ToolsFinish, Drive, Working
      <3>2. running = t /\ driver[t] # "settled"
        BY <3>1 DEF AgreeInv, HostInv, Working
      <3>3. latest = [id |-> t, status |-> "in_progress"]
        BY <3>2 DEF AgreeInv, HostInv
      <3>4. QED
        BY <3>1, <3>3
    <2>3. CASE TurnInterrupted(t) \/ TurnCancelled(t) \/ AnswerCompletes(t)
               \/ LastRoundCompletes(t) \/ TurnFails(t)
      BY <2>3 DEF TurnInterrupted, TurnCancelled, AnswerCompletes, LastRoundCompletes,
                  TurnFails, Settle
    <2>4. QED
      BY <1>5, <2>1, <2>2, <2>3 DEF DriverMoves, WorldAnswers
  <1>6. QED
    BY <1>1, <1>2, <1>3, <1>4, <1>5, HostStepsLeaveTheCore
       DEF Next, ClientContinues, RunnerSteps

\* The status a client reads names a running turn exactly while one is in
\* progress, through the beginning of the next one and the end of the last.
THEOREM ShowsWhatRuns ==
    ASSUME OneStarter, "fold" \notin Requests
    PROVE  Spec => []ShownIsInProgress
  <1>1. Init => ShownIsInProgress /\ NoFold
    BY DEF Init, ShownIsInProgress, NoFold
  <1>2. QED
    BY <1>1, SessionInvHolds, AgreeInvHolds, NoFoldStep, ShownStep, PTL DEF Spec

-----------------------------------------------------------------------------
(* Interrupts, of a client that answers no callback with cancel_turn.       *)

\* The channel the host holds is that of the turn it runs.
ChannelInv ==
    /\ "cancel" \notin Requests
    /\ at[Client] \notin {"release", "signal"}
    /\ channel = running
    /\ OnlyAskedAreSignalled

LEMMA ClientKeepsChannel ==
    ASSUME SessionInv, ChannelInv, ClientRequests \/ ClientContinues
    PROVE  ChannelInv'
  <1> USE DEF ChannelInv, OnlyAskedAreSignalled
  <1>1. CASE ClientEnqueues \/ ClientReplaces \/ ClientRemoves \/ ClientResumes
    BY <1>1 DEF ClientEnqueues, ClientReplaces, ClientRemoves, ClientResumes, ClientQueues
  <1>2. CASE ClientStarts \/ ClientCompacts
    BY <1>2 DEF ClientStarts, ClientCompacts, TakeHost
  <1>3. ASSUME NEW t \in Turns, ClientInterrupts(t) PROVE ChannelInv'
    BY <1>3 DEF ClientInterrupts, RequireTurn, Signal
  <1>4. ASSUME NEW t \in Turns, ClientSteers(t) \/ ClientCancels(t) PROVE ChannelInv'
    BY <1>4 DEF ClientSteers, ClientCancels
  <1>5. ASSUME NEW t \in Turns, NEW id \in Ids, ClientFolds(id, t) PROVE ChannelInv'
    BY <1>5 DEF ClientFolds
  <1>6. CASE ActorReads(Client) \/ ActorWrites(Client)
    BY <1>6 DEF ActorReads, ActorWrites
  <1>7. CASE Begins(Client)
    BY <1>7 DEF Begins, BeginRefused, BeginChecked, BeginCommitted, BeginReserved, TakeHost
  <1>8. CASE SteerAccepted \/ SteerRefused \/ FoldSteers \/ FoldLeaves
    BY <1>8 DEF SteerAccepted, SteerRefused, FoldSteers, FoldLeaves, Steer
  <1>9. ~CancelReleases /\ ~CancelSignals
    BY DEF CancelReleases, CancelSignals
  <1>10. QED
    BY <1>1, <1>2, <1>3, <1>4, <1>5, <1>6, <1>7, <1>8, <1>9
       DEF ClientRequests, ClientContinues

LEMMA OthersKeepChannel ==
    ASSUME SessionInv, ChannelInv, RunnerSteps \/ CompactionSettles \/ CompactionEnds
    PROVE  ChannelInv'
  <1> USE DEF ChannelInv, OnlyAskedAreSignalled
  <1>1. CASE RunnerPops \/ RunnerFires
    BY <1>1 DEF RunnerPops, RunnerFires
  <1>2. CASE ActorReads(Runner) \/ ActorWrites(Runner)
    BY <1>2 DEF ActorReads, ActorWrites
  <1>3. CASE Begins(Runner)
    BY <1>3 DEF Begins, BeginRefused, BeginChecked, BeginCommitted, BeginReserved, TakeHost
  <1>4. CASE CompactionSettles \/ CompactionEnds
    BY <1>4 DEF CompactionSettles, CompactionEnds, FreeHost
  <1>5. QED
    BY <1>1, <1>2, <1>3, <1>4 DEF RunnerSteps

LEMMA DriversKeepChannel ==
    ASSUME SessionInv, ChannelInv, NEW t \in Turns, DriverMoves(t) \/ WorldAnswers(t)
    PROVE  ChannelInv'
  <1> USE DEF ChannelInv, OnlyAskedAreSignalled
  <1>1. CASE CallsModel(t) \/ CompactsFirst(t) \/ DriverReads(t) \/ DriverWrites(t)
    BY <1>1 DEF CallsModel, CompactsFirst, DriverReads, DriverWrites
  <1>2. CASE Compacted(t) \/ AnswerContinues(t) \/ ToolsFinish(t)
    BY <1>2 DEF Compacted, AnswerContinues, ToolsFinish
  <1>3. CASE TurnInterrupted(t) \/ TurnCancelled(t) \/ AnswerCompletes(t)
             \/ LastRoundCompletes(t) \/ TurnFails(t)
    BY <1>3 DEF TurnInterrupted, TurnCancelled, AnswerCompletes, LastRoundCompletes,
                TurnFails, Settle
  <1>4. CASE EndTurn(t)
    BY <1>4 DEF EndTurn, FreeHost, Dropped
  <1>5. QED
    BY <1>1, <1>2, <1>3, <1>4 DEF DriverMoves, WorldAnswers

\* An interrupt reaches the turn it names and no other, even when two turns
\* began at once and when the one named ends as it is sent.
THEOREM SignalsAreAskedFor ==
    ASSUME "cancel" \notin Requests
    PROVE  Spec => []OnlyAskedAreSignalled
  <1>1. Init => ChannelInv
    BY DEF Init, ChannelInv, OnlyAskedAreSignalled
  <1>2. SessionInv /\ ChannelInv /\ [Next]_vars => ChannelInv'
    <2>1. UNCHANGED vars /\ ChannelInv => ChannelInv'
      BY DEF vars, ChannelInv, OnlyAskedAreSignalled
    <2>2. QED
      BY <2>1, ClientKeepsChannel, OthersKeepChannel, DriversKeepChannel DEF Next
  <1>3. Spec => []ChannelInv
    BY <1>1, <1>2, SessionInvHolds, PTL DEF Spec
  <1>4. QED
    BY <1>3, PTL DEF ChannelInv
=============================================================================

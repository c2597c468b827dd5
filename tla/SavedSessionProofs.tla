------------------------- MODULE SavedSessionProofs -------------------------
(***************************************************************************)
(* What the store promises, promised of the session at work on it: whatever *)
(* turns, compactions and handlers do, under every bound and for any number *)
(* of processes, while the lease keeps others out.                          *)
(***************************************************************************)
EXTENDS SavedSession, SessionStoreProofs

-----------------------------------------------------------------------------
(* Every section of the session is a step of the store, or none.            *)

LEMMA StepsOfAnyKind ==
    ASSUME NEW p \in Procs
    PROVE  /\ \A b : Change(p, b) => AnyNext
           /\ \A b : AdvanceUntold(p, b) => AnyNext
           /\ \A b : \A n \in Nat : Advance(p, b, n) => AnyNext
           /\ StoreStep(p) => AnyNext
  BY DEF AnyNext, AnyStep

LEMMA TurnIsOfTheStore ==
    ASSUME NEW p \in Procs, Turn(p)
    PROVE  AnyNext \/ UNCHANGED storeVars
  <1>1. CASE Begin(p) \/ Settle(p)
    BY <1>1, StepsOfAnyKind DEF Begin, Settle, Promote, Settles, StoreStep
  <1>2. CASE EndTurn(p) \/ Compact(p)
    BY <1>2 DEF EndTurn, Compact
  <1>3. CASE Publish(p)
    BY <1>3, StepsOfAnyKind DEF Publish, TellRead, StoreStep
  <1>4. CASE BeginTurn(p)
    BY <1>4, StepsOfAnyKind DEF BeginTurn
  <1>5. CASE Call(p) \/ NeedsCompaction(p) \/ AskSummary(p)
    BY <1>5, StepsOfAnyKind DEF Call, NeedsCompaction, AskSummary
  <1>6. CASE CommitAnswer(p)
    BY <1>6, StepsOfAnyKind DEF CommitAnswer
  <1>7. CASE PushResults(p)
    BY <1>7, StepsOfAnyKind DEF PushResults
  <1>8. CASE CallEnds(p) \/ EndEarly(p) \/ RefuseSummary(p) \/ FailSummary(p)
    BY <1>8, StepsOfAnyKind DEF CallEnds, EndEarly, RefuseSummary, FailSummary
  <1>9. CASE TakeSummary(p)
    BY <1>9, StepsOfAnyKind DEF TakeSummary
  <1>10. QED
    BY <1>1, <1>2, <1>3, <1>4, <1>5, <1>6, <1>7, <1>8, <1>9 DEF Turn

LEMMA OthersAreOfTheStore ==
    ASSUME NEW p \in Procs, Others(p)
    PROVE  AnyNext \/ UNCHANGED storeVars
  <1>1. CASE Steer(p) \/ Rewind(p)
    BY <1>1, StepsOfAnyKind DEF Steer, Rewind
  <1>2. CASE Rename(p)
    BY <1>2, StepsOfAnyKind DEF Rename, StoreStep
  <1>3. CASE TellTitle(p) \/ PublishHandler(p)
    <2>1. PICK t \in Titles : Tell(p, t)
      BY <1>3 DEF TellTitle, PublishHandler, TellRead, Titles
    <2>2. QED
      BY <2>1, StepsOfAnyKind DEF StoreStep
  <1>4. CASE PromoteForContext(p) \/ SettleHandler(p)
    BY <1>4, StepsOfAnyKind DEF PromoteForContext, SettleHandler, Settles, StoreStep
  <1>5. CASE InjectContext(p)
    BY <1>5, StepsOfAnyKind DEF InjectContext
  <1>6. QED
    BY <1>1, <1>2, <1>3, <1>4, <1>5 DEF Others

LEMMA NextIsOfTheStore ==
    ASSUME [Next]_vars
    PROVE  AnyNext \/ UNCHANGED storeVars
  <1>1. CASE UNCHANGED vars
    BY <1>1 DEF vars
  <1>2. ASSUME NEW p \in Procs, Open(p) \/ End(p) \/ Store(p) PROVE AnyNext
    BY <1>2, StepsOfAnyKind DEF Open, End, Store, StoreStep
  <1>3. QED
    BY <1>1, <1>2, TurnIsOfTheStore, OthersAreOfTheStore DEF Next

LEMMA SavedInvariant == ASSUME Races = {} PROVE Spec => []StoreInv
  <1>1. Init => StoreInv
    BY StoreInvInit DEF Init
  <1>2. StoreInv /\ [Next]_vars => StoreInv'
    BY NextIsOfTheStore, StoreInvStep
  <1>3. QED
    BY <1>1, <1>2, PTL DEF Spec

-----------------------------------------------------------------------------
(* At rest a session is as it was saved.                                    *)

\* The session of p changes only through a driver or a handler that will settle
\* it: with neither on its way, and no write failed, it is what is on disk.
Quiet(p) ==
    /\ driver[p].at \in {"off", "beginning", "settled"}
    /\ handler[p] \in {"none", "promoted"}

QuietIsSaved ==
    \A p \in Procs : /\ place[p] = "live" /\ current # 0
                     /\ writing[p] = NotWriting /\ ~failed[p] /\ Quiet(p)
                     => body[p] = SavedBody

Drivers ==
    /\ DOMAIN driver = Procs /\ DOMAIN handler = Procs
    /\ \A p \in Procs : "at" \in DOMAIN driver[p]

RestInv == StoreInv /\ Drivers /\ QuietIsSaved

LEMMA DriversStep ==
    ASSUME Drivers, [Next]_vars
    PROVE  Drivers'
  <1> USE DEF Drivers, Goes, HandlerGoes, Off
  <1>1. CASE UNCHANGED volatile
    BY <1>1 DEF volatile
  <1>2. ASSUME NEW p \in Procs, Turn(p) PROVE Drivers'
    <2>1. CASE Begin(p) \/ BeginTurn(p) \/ Publish(p) \/ Call(p) \/ NeedsCompaction(p)
      BY <2>1 DEF Begin, BeginTurn, Publish, Call, NeedsCompaction
    <2>2. CASE CommitAnswer(p) \/ CallEnds(p) \/ PushResults(p) \/ EndEarly(p)
      BY <2>2 DEF CommitAnswer, CallEnds, PushResults, EndEarly
    <2>3. CASE Compact(p) \/ AskSummary(p) \/ RefuseSummary(p) \/ TakeSummary(p)
      BY <2>3 DEF Compact, AskSummary, RefuseSummary, TakeSummary
    <2>4. CASE FailSummary(p) \/ Settle(p) \/ EndTurn(p)
      BY <2>4 DEF FailSummary, Settle, EndTurn
    <2>5. QED
      BY <1>2, <2>1, <2>2, <2>3, <2>4 DEF Turn
  <1>3. ASSUME NEW p \in Procs, Others(p) PROVE Drivers'
    BY <1>3 DEF Others, Steer, Rename, TellTitle, PromoteForContext, InjectContext,
       Rewind, PublishHandler, SettleHandler, volatile
  <1>4. ASSUME NEW p \in Procs, Open(p) \/ End(p) \/ Store(p) PROVE Drivers'
    BY <1>4 DEF Open, End, Store, volatile
  <1>5. QED
    BY <1>1, <1>2, <1>3, <1>4 DEF Next, vars, volatile

\* Whatever p does, no other process has the session.
LEMMA OnlyHers ==
    ASSUME StoreInv, StoreInv', NEW p \in Procs, place'[p] # "away",
           place'[p] = "live" /\ current' # 0 /\ writing'[p] = NotWriting
           /\ ~failed'[p] /\ Quiet(p)' => body'[p] = SavedBody'
    PROVE  QuietIsSaved'
  BY DEF StoreInv, OneOpener, QuietIsSaved, Quiet

\* A section that leaves p on its way, or writing.
LEMMA NotQuiet ==
    ASSUME StoreInv, StoreInv', NEW p \in Procs, Works(p), UNCHANGED place,
           ~Quiet(p)' \/ writing'[p] # NotWriting \/ current' = 0
    PROVE  QuietIsSaved'
  BY OnlyHers, WhoWorksIsLive

\* A section that changes nothing of the session but its title.
LEMMA StillQuiet ==
    ASSUME RestInv, StoreInv', NEW p \in Procs, Works(p),
           UNCHANGED <<current, parts, place, body, writing, failed>>,
           Quiet(p)' => Quiet(p)
    PROVE  QuietIsSaved'
  <1>1. place[p] = "live" /\ SavedBody' = SavedBody
    BY WhoWorksIsLive DEF RestInv, SavedBody
  <1>2. QED
    BY <1>1, OnlyHers DEF RestInv, QuietIsSaved

LEMMA SaveIsWriting ==
    ASSUME StoreInv, NEW p \in Procs, Save(p)
    PROVE  Works(p) /\ UNCHANGED place /\ writing'[p] # NotWriting
  BY DEF Save, StoreInv, Shape, NotWriting, Generations

LEMMA TurnKeepsQuiet ==
    ASSUME RestInv, StoreInv', NEW p \in Procs, Turn(p)
    PROVE  QuietIsSaved'
  <1> USE DEF RestInv
  <1>1. CASE Begin(p) \/ Settle(p)
    <2>1. CASE Save(p)
      BY <2>1, SaveIsWriting, NotQuiet
    <2>2. CASE ~Save(p)
      <3>1. Works(p) /\ UNCHANGED storeVars
        BY <1>1, <2>2 DEF Begin, Settle, Promote, Settles
      <3>2. CASE Begin(p)
        BY <3>1, <3>2, StillQuiet
           DEF Begin, Quiet, storeVars, diskVars, memoryVars
      <3>3. CASE Settle(p)
        <4>1. store[p] = 0
          BY <2>2, <3>3 DEF Settle, Settles
        <4>2. current' = 0 /\ UNCHANGED place
          BY <3>1, <4>1, WhoWorksIsLive DEF storeVars, diskVars
        <4>3. QED
          BY <3>1, <4>2, NotQuiet
      <3>4. QED
        BY <1>1, <3>2, <3>3
    <2>3. QED
      BY <2>1, <2>2
  <1>2. CASE EndTurn(p)
    BY <1>2, StillQuiet DEF EndTurn, Quiet, storeVars, diskVars, memoryVars
  <1>3. CASE Compact(p)
    <2>1. Works(p) /\ UNCHANGED place /\ driver'[p].at = "compacting"
      BY <1>3 DEF Compact, Drivers, Off, storeVars
    <2>2. QED
      BY <2>1, NotQuiet DEF Quiet
  <1>4. CASE BeginTurn(p) \/ Publish(p)
    <2>1. Works(p) /\ UNCHANGED place /\ driver'[p].at \in {"begun", "asking"}
      BY <1>4 DEF BeginTurn, Publish, TellRead, Tell, AdvanceUntold, Goes, Drivers, Off
    <2>2. QED
      BY <2>1, NotQuiet DEF Quiet
  <1>5. CASE Call(p) \/ NeedsCompaction(p) \/ AskSummary(p)
    <2>1. Works(p) /\ UNCHANGED place
          /\ driver'[p].at \in {"streaming", "compacting", "summarising"}
      BY <1>5 DEF Call, NeedsCompaction, AskSummary, Change, Goes, Drivers
    <2>2. QED
      BY <2>1, NotQuiet DEF Quiet
  <1>6. CASE CommitAnswer(p)
    <2>1. Works(p) /\ UNCHANGED place /\ driver'[p].at \in {"ended", "calls"}
      BY <1>6 DEF CommitAnswer, Advance, Drivers
    <2>2. QED
      BY <2>1, NotQuiet DEF Quiet
  <1>7. CASE PushResults(p)
    <2>1. Works(p) /\ UNCHANGED place /\ driver'[p].at \in {"ended", "asking"}
      BY <1>7 DEF PushResults, Change, Advance, Drivers
    <2>2. QED
      BY <2>1, NotQuiet DEF Quiet
  <1>8. CASE CallEnds(p) \/ EndEarly(p) \/ RefuseSummary(p) \/ TakeSummary(p)
             \/ FailSummary(p)
    <2>1. Works(p) /\ UNCHANGED place
          /\ driver'[p].at \in {"calls", "ended", "compacting", "asking"}
      BY <1>8 DEF CallEnds, EndEarly, RefuseSummary, TakeSummary, FailSummary, Advance,
         Goes, Drivers
    <2>2. QED
      BY <2>1, NotQuiet DEF Quiet
  <1>9. QED
    BY <1>1, <1>2, <1>3, <1>4, <1>5, <1>6, <1>7, <1>8 DEF Turn

LEMMA OthersKeepQuiet ==
    ASSUME RestInv, StoreInv', NEW p \in Procs, Others(p)
    PROVE  QuietIsSaved'
  <1> USE DEF RestInv
  <1>1. CASE Steer(p)
    <2>1. Works(p) /\ UNCHANGED place /\ ~Quiet(p)'
      BY <1>1 DEF Steer, AdvanceUntold, InProgress, InTurn, Quiet
    <2>2. QED
      BY <2>1, NotQuiet
  <1>2. CASE Rename(p) \/ TellTitle(p)
    BY <1>2, StillQuiet
       DEF Rename, TellTitle, Retitle, Tell, Quiet, volatile, diskVars, memoryVars
  <1>3. CASE PromoteForContext(p)
    BY <1>3, SaveIsWriting, NotQuiet DEF PromoteForContext
  <1>4. CASE InjectContext(p) \/ Rewind(p) \/ PublishHandler(p)
    <2>1. Works(p) /\ UNCHANGED place /\ handler'[p] \in {"changed", "published"}
      BY <1>4 DEF InjectContext, Rewind, PublishHandler, TellRead, Tell, Change,
         AdvanceUntold, HandlerGoes, Drivers
    <2>2. QED
      BY <2>1, NotQuiet DEF Quiet
  <1>5. CASE SettleHandler(p)
    <2>1. CASE Save(p)
      BY <2>1, SaveIsWriting, NotQuiet
    <2>2. CASE ~Save(p)
      <3>1. Works(p) /\ UNCHANGED storeVars /\ store[p] = 0
        BY <1>5, <2>2 DEF SettleHandler, Settles
      <3>2. current' = 0 /\ UNCHANGED place
        BY <3>1, WhoWorksIsLive DEF storeVars, diskVars
      <3>3. QED
        BY <3>1, <3>2, NotQuiet
    <2>3. QED
      BY <2>1, <2>2
  <1>6. QED
    BY <1>1, <1>2, <1>3, <1>4, <1>5 DEF Others

LEMMA OpeningKeepsQuiet ==
    ASSUME Races = {}, RestInv, StoreInv', NEW p \in Procs, Open(p) \/ End(p) \/ Store(p)
    PROVE  QuietIsSaved'
  <1> USE DEF RestInv
  <1>1. CASE Start(p)
    <2>1. current' = 0
      BY <1>1 DEF Start, diskVars
    <2>2. QED
      BY <2>1 DEF QuietIsSaved
  <1>2. CASE Load(p) \/ RenameStored(p)
    <2>1. place'[p] \in {"loaded", "renaming"}
      BY <1>2 DEF Load, RenameStored, StoreInv, Shape
    <2>2. QED
      BY <2>1, OnlyHers
  <1>3. CASE Stop(p)
    <2>1. \A q \in Procs : place'[q] = "away"
      BY <1>3, OthersAreAway DEF Stop, StoreInv, Shape
    <2>2. QED
      BY <2>1 DEF QuietIsSaved
  <1>4. CASE Attach(p)
    <2>1. place'[p] = "live" /\ body'[p] = SavedBody'
      BY <1>4 DEF Attach, StoreInv, Shape, ReadIsSaved, SavedBody, diskVars, memoryVars
    <2>2. QED
      BY <2>1, OnlyHers
  <1>5. CASE WritePart(p)
    <2>1. place'[p] # "away" /\ writing'[p] # NotWriting
      BY <1>5, PartsInOrder
         DEF WritePart, StoreInv, Shape, CommitIsAhead, NotWriting, Generations
    <2>2. QED
      BY <2>1, OnlyHers
  <1>6. CASE PointCurrent(p)
    <2>1. CASE place[p] = "renaming"
      <3>1. \A q \in Procs : place'[q] = "away"
        BY <1>6, <2>1, OthersAreAway DEF PointCurrent, Committed, StoreInv, Shape
      <3>2. QED
        BY <3>1 DEF QuietIsSaved
    <2>2. CASE place[p] # "renaming"
      <3>1. place'[p] # "away" /\ body' = body
        BY <1>6, <2>2, AllPartsWritten DEF PointCurrent, Committed
      <3>2. SavedBody' = body[p]
        <4>1. current' = writing[p].generation /\ parts' = parts
          BY <1>6 DEF PointCurrent
        <4>2. parts[writing[p].generation]["checkpoint"] = Held(p)
          BY <1>6, AllPartsWritten DEF PartNames
        <4>3. QED
          BY <4>1, <4>2 DEF SavedBody, Held
      <3>3. QED
        BY <3>1, <3>2, OnlyHers
    <2>3. QED
      BY <2>1, <2>2
  <1>7. CASE FailWrite(p)
    <2>1. CASE place[p] = "renaming"
      <3>1. \A q \in Procs : place'[q] = "away"
        BY <1>7, <2>1, OthersAreAway DEF FailWrite, Committed, StoreInv, Shape
      <3>2. QED
        BY <3>1 DEF QuietIsSaved
    <2>2. CASE place[p] # "renaming"
      <3>1. place'[p] # "away" /\ failed'[p]
        BY <1>7, <2>2 DEF FailWrite, Committed, StoreInv, Shape, CommitIsAhead
      <3>2. QED
        BY <3>1, OnlyHers
    <2>3. QED
      BY <2>1, <2>2
  <1>8. ~Leave(p)
    BY DEF Leave
  <1>9. QED
    BY <1>1, <1>2, <1>3, <1>4, <1>5, <1>6, <1>7, <1>8 DEF Open, End, Store

LEMMA QuietStep ==
    ASSUME Races = {}, RestInv, StoreInv', [Next]_vars
    PROVE  QuietIsSaved'
  <1>1. CASE UNCHANGED vars
    BY <1>1 DEF vars, storeVars, diskVars, memoryVars, volatile, RestInv, QuietIsSaved,
       Quiet, SavedBody
  <1>2. QED
    BY <1>1, TurnKeepsQuiet, OthersKeepQuiet, OpeningKeepsQuiet DEF Next

LEMMA RestInvariant == ASSUME Races = {} PROVE Spec => []RestInv
  <1>1. Init => RestInv
    BY StoreInvInit DEF Init, StoreInit, RestInv, Drivers, Off, QuietIsSaved
  <1>2. RestInv /\ [Next]_vars => RestInv'
    <2>1. ASSUME RestInv, [Next]_vars PROVE StoreInv'
      BY <2>1, NextIsOfTheStore, StoreInvStep DEF RestInv
    <2>2. QED
      BY <2>1, DriversStep, QuietStep DEF RestInv
  <1>3. QED
    BY <1>1, <1>2, PTL DEF Spec

-----------------------------------------------------------------------------
(* Theorems. *)

\* CURRENT names a generation all of whose parts one commit wrote.
THEOREM SavedIsWhole == ASSUME Races = {} PROVE Spec => []PublishedIsWhole
  BY SavedInvariant, StoreInvIsWorth, PTL

\* A reopened session has the title last put on disk.
THEOREM SavedReadsLastStep == ASSUME Races = {} PROVE Spec => []ReopenReadsLastStep
  BY SavedInvariant, StoreInvIsWorth, PTL

\* One process at a time may write the session.
THEOREM SavedByOne == ASSUME Races = {} PROVE Spec => []OneProcessWrites
  BY SavedInvariant, StoreInvIsWorth, PTL

\* No generation was published behind the back of a process that may write.
THEOREM SavedHandleIsCurrent == ASSUME Races = {} PROVE Spec => []HandleIsCurrent
  BY SavedInvariant, StoreInvIsWorth, PTL

\* What CURRENT named is never written again.
THEOREM SavedStays == ASSUME Races = {} PROVE Spec => PublishedIsNotRewritten
  <1>1. StoreInv /\ [Next]_vars => [KeepsPublished]_storeVars
    BY NextIsOfTheStore, StepKeepsPublished
  <1>2. QED
    BY <1>1, SavedInvariant, PTL DEF Spec, PublishedIsNotRewritten, KeepsPublished

\* The session is saved all at once, whatever stops or fails on the way.
THEOREM SessionSavesAtOnce == ASSUME Races = {} PROVE Spec => SavesAtOnce
  <1>1. Init => Durable!Init
    BY InitIsDurable DEF Init
  <1>2. StoreInv /\ StoreInv' /\ [Next]_vars => [Durable!Next]_(Durable!durableVars)
    BY NextIsOfTheStore, StepIsDurable DEF DurableStep, Durable!durableVars
  <1>3. QED
    BY <1>1, <1>2, SavedInvariant, PTL DEF Spec, SavesAtOnce, Durable!Spec

\* When no driver and no handler is on its way, what was said is on disk.
THEOREM RestIsSaved == ASSUME Races = {} PROVE Spec => []AtRestIsSaved
  <1>1. RestInv => AtRestIsSaved
    <2> SUFFICES ASSUME RestInv, NEW p \in Procs, AtRest(p), store[p] # 0, ~failed[p]
                 PROVE  SavedBody.conversation = body[p].conversation
      BY DEF AtRestIsSaved
    <2>1. place[p] = "live" /\ current # 0 /\ writing[p] = NotWriting /\ Quiet(p)
      BY WhoWorksIsLive DEF AtRest, RestInv, Off, Quiet
    <2>2. QED
      BY <2>1 DEF RestInv, QuietIsSaved
  <1>2. QED
    BY <1>1, RestInvariant, PTL
=============================================================================

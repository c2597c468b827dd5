---------------------------- MODULE SavedSession ----------------------------
(***************************************************************************)
(* A unified session at work on its store: the sections of the core that   *)
(* turns, compactions and clients take, what each does to the conversation, *)
(* and the commits that settle it.                                         *)
(*                                                                         *)
(* In one process the driver runs a turn or a compaction (turns.rs,        *)
(* unified.rs and the engine of vibe-harness), a handler injects context,  *)
(* records a shell command or rewinds, and others steer and name the       *)
(* session.  Whoever else opens it is a process of SessionStore.           *)
(***************************************************************************)
EXTENDS SessionStore, Conversation

CONSTANTS
    MaxGiven,       \* bound on the messages the person sends
    MaxInjected,    \* bound on the injected messages of a conversation
    MaxCalls,       \* bound on the calls an answer asks for
    MaxIterations   \* the environment's max_iterations: the answers of a turn

ASSUME SavedConstants ==
    /\ MaxGiven \in Nat /\ MaxInjected \in Nat /\ MaxCalls \in Nat
    /\ MaxIterations \in Nat \ {0}

VARIABLES
    driver,     \* the turn or compaction of each process, and its next section
    handler,    \* the handler of a client in it, by the section it left
    steering,   \* pending_steer: messages accepted for the turn, not yet pushed
    unread      \* messages of the person's that no model call has carried

volatile == <<driver, handler, steering, unread>>
vars == <<storeVars, volatile>>

MaxAttempts == 2    \* compaction::MAX_ATTEMPTS

\* `left` counts the calls that still run, or the attempts at a summary.
Off == [at |-> "off", turn |-> 0, round |-> 0, calls |-> 0, left |-> 0]

Init ==
    /\ StoreInit
    /\ driver = [p \in Procs |-> Off]
    /\ handler = [p \in Procs |-> "none"]
    /\ steering = [p \in Procs |-> <<>>]
    /\ unread = [p \in Procs |-> {}]

Goes(p, at) == driver' = [driver EXCEPT ![p].at = at]

\* Room for one more injected message.
Room(p) ==
    LET conv == body[p].conversation
    IN Cardinality({i \in DOMAIN conv : conv[i] = Injected}) < MaxInjected

-----------------------------------------------------------------------------
(* A turn, one section at a time. *)

\* host.running is not set: no turn, or one whose sections before that run.
Idle(p) == driver[p].at \in {"off", "beginning", "begun"}

\* promote: the first turn or injection of a session saves it.
Promote(p) == IF store[p] = 0 THEN Save(p) ELSE Works(p) /\ UNCHANGED storeVars

\* Fault: settle leaves what promote wrote.
SettlesOnce(p) == Promote(p)

\* settle: a session that is saved is saved again.
Settles(p) == IF store[p] # 0 THEN Save(p) ELSE Works(p) /\ UNCHANGED storeVars

\* publish, in a section of its own: which title its caller read is not kept.
TellRead(p) == \E t \in Titles : Tell(p, t)

\* begin_unified_turn: the idle check and promote, ...
Begin(p) ==
    /\ driver[p].at = "off" /\ body[p].given < MaxGiven
    /\ Promote(p)
    /\ Goes(p, "beginning")
    /\ UNCHANGED <<handler, steering, unread>>

\* ... begin_turn in the core, ...
BeginTurn(p) ==
    /\ driver[p].at = "beginning" /\ body[p].given < MaxGiven
    /\ AdvanceUntold(p, StartTurn(body[p]))
    /\ LET turn == body[p].given + 1 IN
       /\ driver' = [driver EXCEPT ![p] = [Off EXCEPT !.at = "begun", !.turn = turn]]
       /\ unread' = [unread EXCEPT ![p] = @ \union {turn}]
    /\ UNCHANGED <<handler, steering>>

\* ... and the host: it runs the turn, and publishes the state it began in.
Publish(p) ==
    /\ driver[p].at = "begun"
    /\ TellRead(p)
    /\ Goes(p, "asking")
    /\ UNCHANGED <<handler, steering, unread>>

\* A model call carries the whole conversation.
Carries(p) == unread' = [unread EXCEPT ![p] = @ \ UserIds(body'[p].conversation)]

\* The top of run_turn's loop: notifications join the conversation, and it is
\* sent, or summarized first.
WithNotifications(p) ==
    {body[p]} \union (IF Room(p) THEN {Notified(body[p])} ELSE {})

Call(p) ==
    /\ driver[p].at = "asking"
    /\ \E b \in WithNotifications(p) : Change(p, b)
    /\ Carries(p)
    /\ Goes(p, "streaming")
    /\ UNCHANGED <<handler, steering>>

NeedsCompaction(p) ==
    /\ driver[p].at = "asking"
    /\ \E b \in WithNotifications(p) : Change(p, b)
    /\ driver' = [driver EXCEPT ![p].at = "compacting", ![p].left = MaxAttempts]
    /\ UNCHANGED <<handler, steering, unread>>

\* commit_answer: an answer without calls completes the turn, unless a message
\* is pending; `left` of its calls are run, the others answered at once.
CommitAnswer(p) ==
    LET d == driver[p]
        round == d.round + 1
    IN
    /\ d.at = "streaming"
    /\ \E k \in 0..MaxCalls : \E left \in 0..k :
         /\ Advance(p, Answered(body[p], d.turn, round, k), 1)
         /\ driver' = [driver EXCEPT ![p] =
                [@ EXCEPT !.at = IF k = 0 /\ steering[p] = <<>> THEN "ended" ELSE "calls",
                          !.round = round, !.calls = k, !.left = left]]
    /\ UNCHANGED <<handler, steering, unread>>

\* run_calls: the result of a call is committed as soon as it ends.
CallEnds(p) ==
    /\ driver[p].at = "calls" /\ driver[p].left > 0
    /\ Advance(p, body[p], 1)
    /\ driver' = [driver EXCEPT ![p].left = @ - 1]
    /\ UNCHANGED <<handler, steering, unread>>

\* Fault: one answer more than max_iterations.
PastLimit(d) == d.round > MaxIterations

AtLimit(d) == d.round >= MaxIterations

\* Once all did: the results and the pending steering join the conversation,
\* and the turn goes on, or completes at its limit.
PushResults(p) ==
    LET d == driver[p]
        b == Steered(ResultsInOrder(body[p], d.turn, d.round, d.calls), steering[p])
        steps == (IF steering[p] # <<>> THEN 1 ELSE 0) + (IF AtLimit(d) THEN 1 ELSE 0)
    IN
    /\ d.at = "calls" /\ d.left = 0
    /\ IF steps = 0 THEN Change(p, b) ELSE Advance(p, b, steps)
    /\ driver' = [driver EXCEPT ![p].at = IF AtLimit(d) THEN "ended" ELSE "asking",
                                ![p].calls = 0]
    /\ steering' = [steering EXCEPT ![p] = <<>>]
    /\ UNCHANGED <<handler, unread>>

InTurn == {"asking", "streaming", "calls", "compacting", "summarising"}

InProgress(p) == driver[p].turn # 0 /\ driver[p].at \in InTurn

\* interrupt_turn, fail_turn and a compaction that fails the turn: what was
\* pending stays in the conversation, the calls that run leave nothing in it.
EndEarly(p) ==
    /\ InProgress(p)
    /\ Advance(p, Steered(body[p], steering[p]), 1)
    /\ steering' = [steering EXCEPT ![p] = <<>>]
    /\ Goes(p, "ended")
    /\ UNCHANGED <<handler, unread>>

\* drive_unified_turn, when the turn or compaction is over: settle, ...
Settle(p) ==
    /\ driver[p].at = "ended"
    /\ Settles(p)
    /\ Goes(p, "settled")
    /\ UNCHANGED <<handler, steering, unread>>

\* ... and end_turn.
EndTurn(p) ==
    /\ driver[p].at = "settled" /\ Works(p)
    /\ driver' = [driver EXCEPT ![p] = Off]
    /\ UNCHANGED <<storeVars, handler, steering, unread>>

-----------------------------------------------------------------------------
(* A compaction, between turns (turn 0) or in one. *)

Compact(p) ==
    /\ driver[p].at = "off" /\ Works(p)
    /\ driver' = [driver EXCEPT ![p] = [Off EXCEPT !.at = "compacting",
                                                   !.left = MaxAttempts]]
    /\ UNCHANGED <<storeVars, handler, steering, unread>>

\* The request for a summary carries the conversation too.
AskSummary(p) ==
    /\ driver[p].at = "compacting"
    /\ Change(p, body[p])
    /\ Carries(p)
    /\ driver' = [driver EXCEPT ![p].at = "summarising", ![p].left = @ - 1]
    /\ UNCHANGED <<handler, steering>>

\* A summary that is refused is asked for again.
RefuseSummary(p) ==
    /\ driver[p].at = "summarising" /\ driver[p].left > 0
    /\ Advance(p, body[p], 1)
    /\ Goes(p, "compacting")
    /\ UNCHANGED <<handler, steering, unread>>

TakeSummary(p) ==
    /\ driver[p].at = "summarising"
    /\ \E kept \in MayKeep(body[p].conversation) : Advance(p, Compacted(body[p], kept), 1)
    /\ driver' = [driver EXCEPT ![p].at = IF driver[p].turn = 0 THEN "ended" ELSE "asking",
                                ![p].left = 0]
    /\ UNCHANGED <<handler, steering, unread>>

\* Between turns a failed one leaves the conversation as it was.
FailSummary(p) ==
    /\ driver[p].at = "summarising" /\ driver[p].turn = 0
    /\ Advance(p, body[p], 1)
    /\ Goes(p, "ended")
    /\ UNCHANGED <<handler, steering, unread>>

-----------------------------------------------------------------------------
(* What others do to the session meanwhile. *)

\* steer_turn: the turn in progress takes the message.
Steer(p) ==
    /\ InProgress(p) /\ body[p].given < MaxGiven
    /\ AdvanceUntold(p, GiveMessage(body[p]))
    /\ steering' = [steering EXCEPT ![p] = Append(@, body[p].given + 1)]
    /\ unread' = [unread EXCEPT ![p] = @ \union {body[p].given + 1}]
    /\ UNCHANGED <<driver, handler>>

\* unified_rename and land_title take a title, and publish it once the core is
\* free again, as turn/steer does (here while its message is pending).
Rename(p) == Retitle(p) /\ UNCHANGED volatile

TellTitle(p) ==
    /\ \E t \in Titles : Tell(p, t) /\ (t > 0 \/ steering[p] # <<>>)
    /\ UNCHANGED volatile

\* unified_context_inject promotes the session once it found it idle, and
\* record_host_effect (a shell command's result) whatever runs; a turn may begin
\* after that check, so that either may come to its section of the core whenever.
HandlerGoes(p, section) == handler' = [handler EXCEPT ![p] = section]

PromoteForContext(p) ==
    /\ handler[p] = "none" /\ store[p] = 0
    /\ Save(p)
    /\ HandlerGoes(p, "promoted")
    /\ UNCHANGED <<driver, steering, unread>>

\* Injected context: what the public history shows of it is journaled.
InjectContext(p) ==
    /\ handler[p] = "promoted" \/ (handler[p] = "none" /\ store[p] # 0)
    /\ Room(p)
    /\ \/ AdvanceUntold(p, Notified(body[p])) /\ HandlerGoes(p, "changed")
       \/ Change(p, Notified(body[p])) /\ HandlerGoes(p, "published")
    /\ UNCHANGED <<driver, steering, unread>>

\* rewind, of an idle session, to before a message: its check and its section
\* are taken together.
Rewind(p) ==
    /\ handler[p] = "none" /\ Idle(p)
    /\ \E n \in UserIds(body[p].conversation) : AdvanceUntold(p, RewoundTo(body[p], n))
    /\ HandlerGoes(p, "changed")
    /\ unread' = [unread EXCEPT ![p] =
           @ \ (UserIds(body[p].conversation) \ UserIds(body'[p].conversation))]
    /\ UNCHANGED <<driver, steering>>

PublishHandler(p) ==
    /\ handler[p] = "changed"
    /\ TellRead(p)
    /\ HandlerGoes(p, "published")
    /\ UNCHANGED <<driver, steering, unread>>

SettleHandler(p) ==
    /\ handler[p] = "published"
    /\ Settles(p)
    /\ HandlerGoes(p, "none")
    /\ UNCHANGED <<driver, steering, unread>>

-----------------------------------------------------------------------------
(* The process, and its store. *)

\* A process that opens the session finds what was saved, and runs nothing.
Open(p) ==
    /\ Start(p) \/ Load(p)
    /\ unread' = [unread EXCEPT ![p] = UserIds(body'[p].conversation)]
    /\ UNCHANGED <<driver, handler, steering>>

End(p) ==
    /\ Stop(p)
    /\ driver' = [driver EXCEPT ![p] = Off]
    /\ HandlerGoes(p, "none")
    /\ steering' = [steering EXCEPT ![p] = <<>>]
    /\ unread' = [unread EXCEPT ![p] = {}]

Store(p) ==
    /\ \/ Attach(p) \/ Leave(p) \/ RenameStored(p)
       \/ WritePart(p) \/ PointCurrent(p) \/ FailWrite(p)
    /\ UNCHANGED volatile

Turn(p) ==
    \/ Begin(p) \/ BeginTurn(p) \/ Publish(p) \/ Call(p) \/ NeedsCompaction(p)
    \/ CommitAnswer(p) \/ CallEnds(p) \/ PushResults(p) \/ EndEarly(p)
    \/ Compact(p) \/ AskSummary(p) \/ RefuseSummary(p) \/ TakeSummary(p)
    \/ FailSummary(p) \/ Settle(p) \/ EndTurn(p)

Others(p) ==
    \/ Steer(p) \/ Rename(p) \/ TellTitle(p)
    \/ PromoteForContext(p) \/ InjectContext(p) \/ Rewind(p)
    \/ PublishHandler(p) \/ SettleHandler(p)

Next == \E p \in Procs : Open(p) \/ End(p) \/ Store(p) \/ Turn(p) \/ Others(p)

Spec == Init /\ [][Next]_vars

-----------------------------------------------------------------------------
(* Properties. *)

Messages ==
    {User(n) : n \in 1..MaxGiven} \union {Injected}
    \union {Answer(t, r, k) : t \in 1..MaxGiven, r \in 1..MaxIterations,
                              k \in 0..MaxCalls}
    \union {Result(t, r, i) : t \in 1..MaxGiven, r \in 1..MaxIterations,
                              i \in 1..MaxCalls}

SessionBodies == [conversation : Seq(Messages), given : 0..MaxGiven]

DriverSections == InTurn \union {"off", "beginning", "begun", "ended", "settled"}

\* Every part of the session, on disk and in memory, is of its type.
SavedTypeOK ==
    /\ StoreTypeOK
    /\ driver \in [Procs -> [at : DriverSections, turn : 0..MaxGiven,
                             round : 0..MaxIterations, calls : 0..MaxCalls,
                             left : 0..Larger(MaxCalls, MaxAttempts)]]
    /\ handler \in [Procs -> {"none", "promoted", "changed", "published"}]
    /\ steering \in [Procs -> Seq(1..MaxGiven)]
    /\ unread \in [Procs -> SUBSET (1..MaxGiven)]

ResultOf(m, a) == m.role = "result" /\ m.turn = a.turn /\ m.round = a.round

\* A result has its answer before it, and between them nothing but other results
\* and what the program says in the person's name.
FollowsItsAnswer(conv, i) ==
    \E a \in 1..(i - 1) :
        /\ conv[a].role = "answer" /\ ResultOf(conv[i], conv[a])
        /\ \A b \in (a + 1)..(i - 1) : conv[b].role \in {"result", "injected"}

\* The results of the answer at i are the messages behind position j, one for
\* each call in the order the model asked, and no others.
ResultsBehind(conv, i, j) ==
    LET a == conv[i] IN
    /\ \A c \in 1..a.calls : j + c \in DOMAIN conv /\ conv[j + c] = Result(a.turn, a.round, c)
    /\ \A r \in DOMAIN conv : ResultOf(conv[r], a) => r - j \in 1..a.calls

HasResults(conv, i) == \E j \in i..Len(conv) : ResultsBehind(conv, i, j)

\* The turn was cut off at the answer: it has no result, and no other follows it.
CutOff(conv, i) ==
    \A j \in DOMAIN conv :
        /\ ~ResultOf(conv[j], conv[i])
        /\ j > i /\ conv[j].role = "answer" => conv[j].turn # conv[i].turn

\* The calls of an answer have all their results in the conversation, in the
\* order the model asked, or none: a turn that goes on has them before its next
\* answer, and only one that was cut off leaves them out.
CallsAreAnswered(conv) ==
    \A i \in DOMAIN conv :
        /\ conv[i].role = "result" => FollowsItsAnswer(conv, i)
        /\ conv[i].role = "answer" => HasResults(conv, i) \/ CutOff(conv, i)

CallsAreAnsweredInTurn ==
    \A p \in Procs : CallsAreAnswered(body[p].conversation)

\* What the person sent stays, until a model call carries it, in the
\* conversation or pending for it, in the order it was sent and once.
OwnInOrder(conv) ==
    \A i, j \in Own(conv) : i < j => conv[i].id < conv[j].id

UserMessagesReachTheModel ==
    \A p \in Procs :
        LET pending == [i \in DOMAIN steering[p] |-> User(steering[p][i])]
            kept    == body[p].conversation \o pending
        IN unread[p] \subseteq UserIds(kept) /\ OwnInOrder(kept)

\* When the driver and the handlers of a session that is saved are at rest, what
\* they said is on disk, unless the last write failed: nothing waits for an exit.
AtRest(p) ==
    /\ place[p] = "live" /\ driver[p] = Off /\ handler[p] = "none"
    /\ Works(p)

AtRestIsSaved ==
    \A p \in Procs : AtRest(p) /\ store[p] # 0 /\ ~failed[p] =>
        SavedBody.conversation = body[p].conversation
=============================================================================

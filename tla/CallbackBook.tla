---------------------------- MODULE CallbackBook ----------------------------
(***************************************************************************)
(* The callbacks a session opens while its calls run, and how the answer   *)
(* to each reaches the call waiting on it: CallbackBook of                 *)
(* vibe-harness/src/gate.rs, opened by engine/execute.rs, answered by      *)
(* callback/result (vibe-app-server/src/server/unified/turns.rs), closed   *)
(* by engine/turn.rs when the turn is interrupted or fails.                *)
(*                                                                         *)
(* Every step is one section of the core mutex.  The host settles an       *)
(* answer in one section and hands it to the call in a later one, once the *)
(* settlement is on the wire; the driver and the other calls run between   *)
(* the two.                                                                *)
(***************************************************************************)
EXTENDS Integers

CONSTANTS
    Bases,      \* the identifiers calls bring: approval-<call>, user-input-<call>
    Answers,    \* what a client answers: an output, or an error that closes
    NoAnswer,
    Closed,     \* what a call learns whose callback was closed
    MaxCalls,   \* bound on the calls that ask
    MaxTurns,   \* bound on the turns
    Repeats     \* when a provider repeats the identifier of an earlier call: "never",
                \* in a "later" answer, or in "any"

Calls   == 1..MaxCalls
NoCall  == 0
\* A base as it is, or with the suffix its call drew.
Names   == [base : Bases, suffix : {NoCall} \union Calls]
NoName  == [base |-> NoAnswer, suffix |-> NoCall]

ASSUME CallbackConstants ==
    /\ MaxCalls \in Nat /\ MaxTurns \in Nat
    /\ NoAnswer \notin Answers /\ Closed \notin Answers /\ Closed # NoAnswer
    /\ NoAnswer \notin Bases
    /\ Repeats \in {"never", "later", "any"}

VARIABLES
    (* CallbackBook. *)
    open,       \* the callbacks published open
    waiters,    \* the call each open callback will answer
    answered,   \* what each settled callback was answered with
    closed,     \* the callbacks closed without an answer
    released,   \* the call each settled answer still has to be handed to
    (* The calls and the turn they run in. *)
    calls,      \* how many calls asked so far
    asks,       \* the callback each call opened
    phase,      \* where each call is
    got,        \* what each call was handed
    turn,       \* the turn that runs, or the last one
    running,    \* whether it does
    brought,    \* the identifiers the calls of the model's last answer brought,
                \* for Repeats = "later"
    (* The connection: the callback whose answer it has yet to hand over. *)
    settling

vars == <<open, waiters, answered, closed, released, calls, asks, phase, got, turn,
          running, brought, settling>>

bookVars == <<open, waiters, answered, closed, released>>
callVars == <<calls, asks, phase, got>>

Init ==
    /\ open = {}
    /\ waiters = [name \in Names |-> NoCall]
    /\ answered = [name \in Names |-> NoAnswer]
    /\ closed = {}
    /\ released = [name \in Names |-> NoCall]
    /\ calls = 0
    /\ asks = [c \in Calls |-> NoName]
    /\ phase = [c \in Calls |-> "none"]
    /\ got = [c \in Calls |-> NoAnswer]
    /\ turn = 0
    /\ running = FALSE
    /\ brought = {}
    /\ settling = NoName

-----------------------------------------------------------------------------
(* The driver and the calls it runs. *)

\* Faults: an answered callback is settled again, open callbacks share a name, a
\* turn completes over its calls, closed callbacks keep their waiter, a dropped
\* call is handed an answer, an answer goes to nobody.
Answerable(name)      == TRUE
SharedName(base, c)   == [base |-> base, suffix |-> NoCall]
SomeHeard             == calls > 0
StillWaitedFor(names) == waiters
MayHear(c)            == phase[c] \in {"waiting", "dropped"}
HandedToNobody(name)  == released

Bare(base) == [base |-> base, suffix |-> NoCall]

\* A suffix tells a call from an open one of the same identifier.
FreshName(base, c) ==
    IF waiters[Bare(base)] # NoCall THEN [base |-> base, suffix |-> c] ELSE Bare(base)

\* A call the provider leaves unnamed is named for its place in the answer:
\* no other call of the answer has that name, and those of later ones do.
MayBring(base) ==
    \/ Repeats = "any"
    \/ Repeats = "later" /\ base \notin brought
    \/ \A c \in Calls : asks[c].base # base

BeginTurn ==
    /\ ~running
    /\ turn < MaxTurns
    /\ turn' = turn + 1
    /\ running' = TRUE
    /\ brought' = {}
    /\ UNCHANGED <<bookVars, callVars, settling>>

\* The calls of an answer ask side by side.
Ask(base) ==
    LET c == calls + 1
        name == FreshName(base, c)
    IN
    /\ running
    /\ calls < MaxCalls
    /\ MayBring(base)
    /\ calls' = c
    /\ asks' = [asks EXCEPT ![c] = name]
    /\ phase' = [phase EXCEPT ![c] = "waiting"]
    /\ open' = open \union {name}
    /\ waiters' = [waiters EXCEPT ![name] = c]
    /\ brought' = IF Repeats = "later" THEN brought \union {base} ELSE brought
    /\ UNCHANGED <<answered, closed, released, got, turn, running, settling>>

AllHeard == \A c \in Calls : phase[c] # "waiting"

\* run_calls returned, every call having its result: the model answers again.
AnswerAgain ==
    /\ running
    /\ AllHeard
    /\ brought' = {}
    /\ UNCHANGED <<bookVars, callVars, turn, running, settling>>

CompleteTurn ==
    /\ running
    /\ AllHeard
    /\ running' = FALSE
    /\ UNCHANGED <<bookVars, callVars, turn, brought, settling>>

Unwaited(names) ==
    [name \in Names |-> IF name \in names THEN NoCall ELSE waiters[name]]

\* close_all, and the calls dropped with the turn whatever they wait for.
EndTurn ==
    /\ running
    /\ running' = FALSE
    /\ open' = {}
    /\ waiters' = Unwaited(open)
    /\ closed' = closed \union open
    /\ phase' = [c \in Calls |-> IF phase[c] = "waiting" THEN "dropped" ELSE phase[c]]
    /\ got' = [c \in Calls |->
                 IF \E name \in open : waiters[name] = c THEN Closed ELSE got[c]]
    /\ UNCHANGED <<answered, released, calls, asks, turn, brought, settling>>

-----------------------------------------------------------------------------
(* callback/result.  An answer recorded before is accepted again if it is   *)
(* the same and refused if it is not; a callback closed or unknown is       *)
(* refused: none of these changes anything.                                 *)

Unanswered(name) == answered[name] = NoAnswer

HandedOver(name) == [released EXCEPT ![name] = waiters[name]]

Settle(name, answer) ==
    /\ settling = NoName
    /\ Unanswered(name)
    /\ name \in open
    /\ open' = open \ {name}
    /\ waiters' = [waiters EXCEPT ![name] = NoCall]
    /\ released' = HandedOver(name)
    /\ answered' = [answered EXCEPT ![name] = answer]
    /\ settling' = name
    /\ UNCHANGED <<closed, callVars, turn, running, brought>>

\* A call dropped meanwhile receives nothing.
Listens(c) == phase[c] = "waiting"

Release ==
    LET c == released[settling] IN
    /\ settling # NoName
    /\ released' = [released EXCEPT ![settling] = NoCall]
    /\ phase' = [d \in Calls |->
                   IF d = c /\ Listens(d) THEN "resumed" ELSE phase[d]]
    /\ got' = [d \in Calls |->
                 IF d = c /\ Listens(d) THEN answered[settling] ELSE got[d]]
    /\ settling' = NoName
    /\ UNCHANGED <<open, waiters, answered, closed, calls, asks, turn, running,
                   brought>>

-----------------------------------------------------------------------------
ClientAnswers == \E name \in Names, answer \in Answers : Settle(name, answer)

Next ==
    \/ BeginTurn
    \/ \E base \in Bases : Ask(base)
    \/ AnswerAgain
    \/ CompleteTurn
    \/ EndTurn
    \/ ClientAnswers
    \/ Release

\* The connection hands over what it settled, and the client answers what it
\* is asked.
Fairness == WF_vars(Release) /\ WF_vars(ClientAnswers)

Spec == Init /\ [][Next]_vars /\ Fairness

-----------------------------------------------------------------------------
(* Properties. *)

TypeOK ==
    /\ open \subseteq Names
    /\ waiters \in [Names -> Calls \union {NoCall}]
    /\ answered \in [Names -> Answers \union {NoAnswer}]
    /\ closed \subseteq Names
    /\ released \in [Names -> Calls \union {NoCall}]
    /\ calls \in 0..MaxCalls
    /\ asks \in [Calls -> Names \union {NoName}]
    /\ phase \in [Calls -> {"none", "waiting", "resumed", "dropped"}]
    /\ got \in [Calls -> Answers \union {NoAnswer, Closed}]
    /\ turn \in 0..MaxTurns
    /\ running \in BOOLEAN
    /\ brought \subseteq Bases
    /\ settling \in Names \union {NoName}

\* Exactly the open callbacks have a waiter, and it is the call that opened it
\* and still waits: two calls never share a callback.
OpenHasItsWaiter ==
    \A name \in Names :
        /\ name \in open <=> waiters[name] # NoCall
        /\ waiters[name] # NoCall =>
               asks[waiters[name]] = name /\ phase[waiters[name]] = "waiting"

\* A call that waits is waited for: its callback is open, or the answer to it
\* is about to be handed over.
NoCallForgotten ==
    \A c \in Calls : phase[c] = "waiting" =>
        waiters[asks[c]] = c \/ (released[asks[c]] = c /\ settling = asks[c])

\* No callback stays open once the turn that opened it is over.
NoneOpenBetweenTurns == ~running => open = {}

\* A call resumes with the answer recorded for its callback, the one a
\* repeated answer is compared with.
ResumesWithTheAnswer ==
    \A c \in Calls : phase[c] = "resumed" => got[c] = answered[asks[c]]

\* An identifier a callback holds is not yet taken: an open callback was never
\* answered before, so that the client's answer to it settles it.
OpenIsUnanswered == \A name \in open : Unanswered(name)

\* What a callback was answered with never changes.
AnsweredOnce ==
    [][\A name \in Names :
          answered[name] # NoAnswer => answered'[name] = answered[name]]_vars

\* A call hears of its callback once: resumed or dropped, it stays so.
HearsOnce ==
    [][\A c \in Calls : phase[c] \in {"resumed", "dropped"} =>
          phase'[c] = phase[c] /\ (got[c] # NoAnswer => got'[c] = got[c])]_vars

\* A client that answers its callbacks gets every call going again whose
\* callback it may still answer.
UnansweredCallsGoOn ==
    \A c \in Calls :
        phase[c] = "waiting" /\ Unanswered(asks[c]) ~> phase[c] # "waiting"
=============================================================================

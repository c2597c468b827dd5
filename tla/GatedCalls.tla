------------------------------ MODULE GatedCalls ------------------------------
(***************************************************************************)
(* The gate each call of a turn passes before it runs (gated_execute of    *)
(* vibe-harness/src/engine/execute.rs, UnifiedGate and SmartGate of        *)
(* vibe-app-server/src/server/unified/gate.rs, SmartState of               *)
(* vibe-harness/src/smart.rs), and the callbacks of CallbackBook through   *)
(* which it asks the person.                                               *)
(*                                                                         *)
(* The calls of an answer pass it side by side.  Each reads what the       *)
(* session approved, awaits the classifier, awaits the person, and records *)
(* what they approved: the others run in between.  A step is all a call    *)
(* does between two awaits.  Sessions that bypass approvals, and calls that *)
(* pass no gate (sleep, subagents, processes already started), are left    *)
(* out.                                                                    *)
(***************************************************************************)
EXTENDS CallbackBook, Functions

CONSTANTS
    Keys,               \* what calls do: a tool and its arguments
    NoKey,
    Allowed,            \* calls the session's rules let run
    Unscoped,           \* calls no scope covers: they are asked about every time
    Protected,          \* calls that change what runs later
    ScopeOf,            \* what an approval that outlasts a call covers
    Questions,          \* the identifiers of calls that only ask the person
    Width,              \* bound on the calls the classifier judges at a time
    ConsecutiveLimit,   \* DENY_CONSECUTIVE_LIMIT
    TotalLimit          \* DENY_TOTAL_LIMIT

ASSUME GateConstants ==
    /\ Answers = {"once", "session", "decline"}
    /\ NoKey \notin Keys /\ Questions \subseteq Bases
    /\ Allowed \union Unscoped \union Protected \subseteq Keys
    /\ ConsecutiveLimit \in Nat \ {0} /\ TotalLimit \in Nat \ {0}

Modes     == {"rules", "smart"}     \* who decides what the rules leave asking
Approving == {"once", "session"}
NoTurn    == 0

VARIABLES
    (* The calls at the gate. *)
    judged,         \* how many of each the classifier judges
    about,          \* what each call that asked does
    undecided,      \* the calls that asked and have yet to act on the answer
    (* The session. *)
    mode,           \* who decides in this turn
    granted,        \* scopes approved for the session, in the permission store
    (* SmartState. *)
    counted,        \* the turn its counts are of
    consecutive, total,
    denied,         \* calls it counted as risky
    remembered,     \* calls the person approved for the session
    (* What happened, for the properties. *)
    slipped,        \* whether a call ever ran that nothing approved
    blocked         \* what smart approve blocked

gateCalls  == <<judged, about, undecided>>
smartVars  == <<counted, consecutive, total, denied, remembered>>
gateVars   == <<gateCalls, mode, granted, smartVars, slipped, blocked>>
gatedVars  == <<vars, gateVars>>

NothingBlocked == [inARow |-> 0, inTurn |-> 0]
NoneJudged     == [k \in Keys |-> 0]

GateInit ==
    /\ Init
    /\ judged = NoneJudged
    /\ about = [c \in Calls |-> NoKey]
    /\ undecided = {}
    /\ mode \in Modes
    /\ granted = {}
    /\ counted = NoTurn /\ consecutive = 0 /\ total = 0
    /\ denied = {} /\ remembered = {}
    /\ slipped = FALSE
    /\ blocked = NothingBlocked

-----------------------------------------------------------------------------
(* The turn and the person. *)

\* The environment of a turn has the mode the session's agent is in by then.
BeginGatedTurn ==
    /\ BeginTurn
    /\ mode' \in Modes
    /\ blocked' = NothingBlocked
    /\ UNCHANGED <<gateCalls, granted, smartVars, slipped>>

\* The calls of the answer are done with...
EndAnswer ==
    /\ judged = NoneJudged /\ undecided = {}
    /\ AnswerAgain \/ CompleteTurn
    /\ UNCHANGED <<gateCalls, mode, granted, smartVars, slipped, blocked>>

\* ... or dropped with the turn, which an answer may cancel or fail too.
EndGatedTurn ==
    /\ EndTurn
    /\ judged' = NoneJudged /\ undecided' = {}
    /\ about' = [c \in Calls |-> IF c \in undecided THEN NoKey ELSE about[c]]
    /\ UNCHANGED <<mode, granted, smartVars, slipped, blocked>>

\* A call that only asks the person passes no gate.
AskQuestion ==
    /\ \E base \in Questions : Ask(base)
    /\ UNCHANGED <<gateCalls, mode, granted, smartVars, slipped, blocked>>

\* What a question is answered with is nothing to the gate: two answers do.
PersonAnswers ==
    /\ \E name \in Names, answer \in Answers :
         /\ name.base \in Questions => answer = "once"
         /\ Settle(name, answer)
    /\ UNCHANGED <<gateCalls, mode, granted, smartVars, slipped, blocked>>

HandOver ==
    /\ Release
    /\ UNCHANGED <<gateCalls, mode, granted, smartVars, slipped, blocked>>

-----------------------------------------------------------------------------
(* What becomes of a call. *)

\* The person approved this very call...
ApprovedNow(c) == c # NoCall /\ got[c] \in Approving

\* ... or, for the session, one that covers it.
ApprovedBefore(k) ==
    \E c \in Calls : got[c] = "session" /\ about[c] # NoKey /\
        \/ k \notin Unscoped /\ about[c] \notin Unscoped /\ ScopeOf[k] = ScopeOf[about[c]]
        \/ k = about[c] /\ mode = "smart"

Approved(k, c, safe) ==
    \/ k \in Allowed
    \/ safe /\ mode = "smart" /\ k \notin Protected
    \/ ApprovedNow(c) \/ ApprovedBefore(k)

\* It runs, which ends the streak of what was blocked.
Runs(k, c, safe) ==
    /\ slipped' = (slipped \/ ~Approved(k, c, safe))
    /\ blocked' = [blocked EXCEPT !.inARow = 0]

AsksNothing == UNCHANGED <<vars, about, undecided>>

\* It opens a callback that shows it to the person, and waits.
AskAbout(k) ==
    /\ \E base \in Bases \ Questions : Ask(base)
    /\ about' = [about EXCEPT ![calls'] = k]
    /\ undecided' = undecided \union {calls'}
    /\ UNCHANGED <<slipped, blocked>>

-----------------------------------------------------------------------------
(* check, up to its first await. *)

\* resolve: what the rules and the approvals of the session make of a call
\* (one they refuse changes nothing, and is left out).
Covered(k) == k \notin Unscoped /\ ScopeOf[k] \in granted
Cleared(k) == k \in Allowed \/ Covered(k)

\* Smart approve counts a call that runs, whoever let it.
Proceeds == consecutive' = IF mode = "smart" THEN 0 ELSE consecutive

AllowByRules(k) ==
    /\ running /\ Cleared(k)
    /\ Runs(k, NoCall, FALSE) /\ Proceeds
    /\ AsksNothing
    /\ UNCHANGED <<judged, mode, granted, counted, total, denied, remembered>>

AskByRules(k) ==
    /\ mode = "rules" /\ ~Cleared(k)
    /\ AskAbout(k)
    /\ UNCHANGED <<judged, mode, granted, smartVars>>

\* Fault: every call starts the counts anew.
CountsAnew(n) == 0

\* enter_turn: what was counted in an earlier turn does not count.
Counts(n) == IF counted = turn THEN n ELSE 0

\* classify_gate, on what the rules leave asking: this very call was approved
\* for the session, ...
Recall(k) ==
    /\ running /\ mode = "smart" /\ ~Cleared(k)
    /\ k \in remembered
    /\ counted' = turn /\ consecutive' = 0 /\ total' = Counts(total)
    /\ Runs(k, NoCall, FALSE) /\ AsksNothing
    /\ UNCHANGED <<judged, mode, granted, denied, remembered>>

\* ... or the classifier is asked.
Consult(k) ==
    /\ running /\ mode = "smart" /\ ~Cleared(k)
    /\ k \notin remembered
    /\ SumFunction(judged) < Width
    /\ counted' = turn /\ consecutive' = Counts(consecutive) /\ total' = Counts(total)
    /\ judged' = [judged EXCEPT ![k] = @ + 1]
    /\ AsksNothing
    /\ UNCHANGED <<mode, granted, denied, remembered, slipped, blocked>>

-----------------------------------------------------------------------------
(* From the classifier's answer to the next await, or the end. *)

\* What it may say: "authorized" is risky, but what the person asked for.
Verdicts == {"safe", "risky", "authorized", "error"}

Classified(k) ==
    /\ running /\ judged[k] > 0
    /\ judged' = [judged EXCEPT ![k] = @ - 1]
    /\ UNCHANGED <<mode, granted, counted, remembered>>

\* Fault: a call that changes what runs later is as safe as it looks.
SafeAsItLooks(k, v) == v = "safe"

Safe(k, v) == v = "safe" /\ k \notin Protected

Pass(k, v) ==
    /\ Safe(k, v)
    /\ Classified(k)
    /\ consecutive' = 0
    /\ Runs(k, NoCall, v = "safe") /\ AsksNothing
    /\ UNCHANGED <<total, denied>>

\* deny: a risky call goes to the person if it must, or was counted before, or
\* at the limits.
GoesToThePerson(k, v) ==
    \/ k \in Protected \/ v = "authorized"
    \/ k \in denied
    \/ consecutive + 1 >= ConsecutiveLimit
    \/ total + 1 >= TotalLimit

\* Counts are compared with their limits only, and stop there.
Least(m, n) == IF m < n THEN m ELSE n

Deny(k, v) ==
    /\ ~Safe(k, v) /\ v # "error"
    /\ Classified(k)
    /\ consecutive' = Least(consecutive + 1, ConsecutiveLimit - 1)
    /\ total' = Least(total + 1, TotalLimit - 1)
    /\ denied' = denied \union {k}

\* A blocked call fails back to the model.
Block(k, v) ==
    /\ Deny(k, v) /\ ~GoesToThePerson(k, v)
    /\ blocked' = [inARow |-> blocked.inARow + 1, inTurn |-> blocked.inTurn + 1]
    /\ AsksNothing /\ UNCHANGED slipped

Escalate(k, v) == Deny(k, v) /\ GoesToThePerson(k, v) /\ AskAbout(k)

\* A failed classification is not counted.
EscalateError(k) ==
    /\ Classified(k)
    /\ AskAbout(k)
    /\ UNCHANGED <<consecutive, total, denied>>

-----------------------------------------------------------------------------
(* From the person's answer to the end. *)

Hears(c, answer) ==
    /\ running /\ c \in undecided
    /\ phase[c] = "resumed" /\ got[c] = answer

\* grant: an approval of a call nothing scopes releases that call alone.
Grants(k) == IF k \in Unscoped THEN {} ELSE {ScopeOf[k]}

Approve(c, answer) ==
    /\ Hears(c, answer) /\ answer \in Approving
    /\ undecided' = undecided \ {c}
    /\ granted' = granted \union (IF answer = "session" THEN Grants(about[c]) ELSE {})
    /\ remembered' = remembered \union
                     (IF answer = "session" /\ mode = "smart" THEN {about[c]} ELSE {})
    /\ Runs(about[c], c, FALSE) /\ Proceeds
    /\ UNCHANGED <<vars, judged, about, mode, counted, total, denied>>

Decline(c) ==
    /\ Hears(c, "decline")
    /\ undecided' = undecided \ {c}
    /\ about' = [about EXCEPT ![c] = NoKey]
    /\ UNCHANGED <<vars, judged, mode, granted, smartVars, slipped, blocked>>

-----------------------------------------------------------------------------
GateNext ==
    \/ BeginGatedTurn \/ EndAnswer \/ EndGatedTurn
    \/ AskQuestion \/ PersonAnswers \/ HandOver
    \/ \E k \in Keys :
          \/ AllowByRules(k) \/ AskByRules(k) \/ Recall(k) \/ Consult(k)
          \/ \E v \in Verdicts : Pass(k, v) \/ Block(k, v) \/ Escalate(k, v)
          \/ EscalateError(k)
    \/ \E c \in Calls :
          \/ \E answer \in Answers : Approve(c, answer)
          \/ Decline(c)

GateSpec == GateInit /\ [][GateNext]_gatedVars /\ Fairness

-----------------------------------------------------------------------------
(* Properties. *)

\* No call runs that nothing approves: the rules, the classifier for what it may
\* decide, or the person, who was asked about this call or approved for the
\* session one that covers it.
RunsAreApproved == ~slipped

\* What smart approve blocks reaches the person in the end: it blocks no call it
\* counted before, nor the last of several in a row or in a turn.
BlockedCallsReachThePerson ==
    [][blocked'.inTurn > blocked.inTurn =>
          /\ denied' # denied
          /\ blocked'.inARow < ConsecutiveLimit
          /\ blocked'.inTurn < TotalLimit]_gatedVars
=============================================================================

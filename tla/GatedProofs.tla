----------------------------- MODULE GatedProofs -----------------------------
(***************************************************************************)
(* What holds of the gate for any number of calls, turns, keys and scopes, *)
(* whatever the rules allow and whoever decides: nothing runs unapproved,  *)
(* what smart approve blocks reaches the person, and the gate leaves the   *)
(* callbacks as CallbackProofs has them.                                   *)
(***************************************************************************)
EXTENDS GatedCalls, CallbackProofs

-----------------------------------------------------------------------------
(* The gate and the callbacks.                                              *)

LEMMA GateStepIsBookStep ==
    ASSUME [GateNext]_gatedVars
    PROVE  [Next]_vars
  <1>1. CASE BeginGatedTurn
    BY <1>1 DEF BeginGatedTurn, Next
  <1>2. CASE EndAnswer
    BY <1>2 DEF EndAnswer, Next
  <1>3. CASE EndGatedTurn
    BY <1>3 DEF EndGatedTurn, Next
  <1>4. CASE AskQuestion
    BY <1>4, GateConstants DEF AskQuestion, Next
  <1>5. CASE PersonAnswers
    BY <1>5 DEF PersonAnswers, Next, ClientAnswers
  <1>6. CASE HandOver
    BY <1>6 DEF HandOver, Next
  <1>7. ASSUME NEW k \in Keys, AskAbout(k)
        PROVE  Next
    BY <1>7 DEF AskAbout, Next
  <1>8. ASSUME NEW k \in Keys, AllowByRules(k) \/ AskByRules(k) \/ Recall(k) \/ Consult(k)
        PROVE  [Next]_vars
    BY <1>7, <1>8 DEF AllowByRules, AskByRules, Recall, Consult, AsksNothing
  <1>9. ASSUME NEW k \in Keys, NEW v \in Verdicts, Pass(k, v) \/ Block(k, v) \/ Escalate(k, v)
        PROVE  [Next]_vars
    BY <1>7, <1>9 DEF Pass, Block, Escalate, AsksNothing
  <1>10. ASSUME NEW k \in Keys, EscalateError(k)
         PROVE  [Next]_vars
    BY <1>7, <1>10 DEF EscalateError
  <1>11. ASSUME NEW c \in Calls, NEW answer \in Answers, Approve(c, answer)
         PROVE  [Next]_vars
    BY <1>11 DEF Approve, vars
  <1>12. ASSUME NEW c \in Calls, Decline(c)
         PROVE  [Next]_vars
    BY <1>12 DEF Decline, vars
  <1>13. CASE UNCHANGED gatedVars
    BY <1>13 DEF gatedVars
  <1>14. QED
    BY <1>1, <1>2, <1>3, <1>4, <1>5, <1>6, <1>8, <1>9, <1>10, <1>11, <1>12, <1>13
       DEF GateNext

LEMMA GateKeepsBook == GateSpec => []BookInv
  <1>1. GateInit => BookInv
    BY BookInvInit DEF GateInit
  <1>2. BookInv /\ [GateNext]_gatedVars => BookInv'
    BY GateStepIsBookStep, BookInvStep
  <1>3. QED
    BY <1>1, <1>2, PTL DEF GateSpec

\* The gate changes nothing of the callbacks but through them: what is proved of
\* every behaviour of the book is true of a session whose calls pass the gate.
THEOREM GateRunsTheBook == GateSpec => Spec
  <1>1. GateInit => Init
    BY DEF GateInit
  <1>2. [GateNext]_gatedVars => [Next]_vars
    BY GateStepIsBookStep
  <1>3. QED
    BY <1>1, <1>2, PTL DEF GateSpec, Spec

-----------------------------------------------------------------------------
(* The inductive invariant.                                                 *)

GateShape ==
    /\ judged \in [Keys -> Nat]
    /\ about \in [Calls -> Keys \union {NoKey}]
    /\ undecided \subseteq Calls
    /\ \A c \in undecided : about[c] \in Keys

\* The person approved, for the session, what this call does.
Vouches(c) ==
    /\ phase[c] = "resumed" /\ got[c] = "session"
    /\ c \notin undecided /\ about[c] \in Keys

\* Whatever outlasts a call, a call the person approved for the session vouches
\* for.
GrantedByThePerson ==
    \A s \in granted : \E c \in Calls :
        Vouches(c) /\ about[c] \notin Unscoped /\ ScopeOf[about[c]] = s

RememberedByThePerson ==
    \A k \in remembered : \E c \in Calls : Vouches(c) /\ about[c] = k

\* The classifier judges calls of the turn that runs, whose counts are its own.
JudgedInTurn ==
    \A k \in Keys : judged[k] > 0 => running /\ mode = "smart" /\ counted = turn

\* Below its limits, smart approve counts whatever it blocked.
CountsWhatItBlocked ==
    /\ counted \in 0..turn
    /\ consecutive \in Nat /\ consecutive < ConsecutiveLimit
    /\ total \in Nat /\ total < TotalLimit
    /\ blocked \in [inARow : Nat, inTurn : Nat]
    /\ counted = turn => blocked.inARow <= consecutive /\ blocked.inTurn <= total
    /\ counted # turn => blocked.inARow = 0 /\ blocked.inTurn = 0

GateInv ==
    /\ BookInv
    /\ GateShape
    /\ GrantedByThePerson
    /\ RememberedByThePerson
    /\ JudgedInTurn
    /\ CountsWhatItBlocked
    /\ RunsAreApproved

LEMMA TurnIsANumber == BookInv => turn \in Nat
  BY CallbackConstants DEF BookInv, TypeOK

\* A call that asks is a new one.
LEMMA AskAboutEffect ==
    ASSUME BookInv, NEW k \in Keys, AskAbout(k)
    PROVE  /\ \E c \in Calls : /\ phase[c] = "none"
                               /\ about' = [about EXCEPT ![c] = k]
                               /\ undecided' = undecided \union {c}
           /\ UNCHANGED <<turn, running, slipped, blocked>>
  <1>1. PICK base \in Bases : Ask(base)
    BY DEF AskAbout
  <1>2. calls' = calls + 1 /\ calls < MaxCalls /\ UNCHANGED <<turn, running>>
    BY <1>1 DEF Ask
  <1>3. calls' \in Calls /\ calls' > calls
    BY <1>2, CallsAreNumbers DEF BookInv, TypeOK
  <1>4. phase[calls'] = "none"
    BY <1>3 DEF BookInv, CallsAskInOrder
  <1>5. QED
    BY <1>2, <1>3, <1>4 DEF AskAbout

\* A call of an earlier answer stays what it is when another asks.
LEMMA VouchersStay ==
    ASSUME GateInv, [GateNext]_gatedVars, NEW d \in Calls, Vouches(d)
    PROVE  Vouches(d)' /\ about'[d] = about[d]
  <1>1. got[d] # NoAnswer
    BY CallbackConstants, GateConstants DEF Vouches
  <1>2. phase'[d] = "resumed" /\ got'[d] = "session"
    BY <1>1, GateStepIsBookStep, HeardStays DEF GateInv, Vouches
  <1>3. about'[d] = about[d] /\ d \notin undecided'
    <2>1. ASSUME NEW k \in Keys, AskAbout(k)
          PROVE  about'[d] = about[d] /\ d \notin undecided'
      BY <2>1, AskAboutEffect DEF GateInv, GateShape, Vouches
    <2>2. CASE UNCHANGED <<about, undecided>>
      BY <2>2 DEF Vouches
    <2>3. CASE EndGatedTurn
      BY <2>3 DEF EndGatedTurn, GateInv, GateShape, Vouches
    <2>4. ASSUME NEW c \in Calls, NEW answer \in Answers, Approve(c, answer)
          PROVE  about'[d] = about[d] /\ d \notin undecided'
      BY <2>4 DEF Approve, Vouches
    <2>5. ASSUME NEW c \in Calls, Decline(c)
          PROVE  about'[d] = about[d] /\ d \notin undecided'
      BY <2>5 DEF Decline, Hears, GateInv, GateShape, Vouches
    <2>6. BeginGatedTurn \/ EndAnswer \/ AskQuestion \/ PersonAnswers \/ HandOver =>
            UNCHANGED <<about, undecided>>
      BY DEF BeginGatedTurn, EndAnswer, AskQuestion, PersonAnswers, HandOver, gateCalls
    <2>7. ASSUME NEW k \in Keys, AllowByRules(k) \/ AskByRules(k) \/ Recall(k) \/ Consult(k)
          PROVE  UNCHANGED <<about, undecided>> \/ AskAbout(k)
      BY <2>7 DEF AllowByRules, AskByRules, Recall, Consult, AsksNothing
    <2>8. ASSUME NEW k \in Keys, NEW v \in Verdicts,
                 Pass(k, v) \/ Block(k, v) \/ Escalate(k, v) \/ EscalateError(k)
          PROVE  UNCHANGED <<about, undecided>> \/ AskAbout(k)
      BY <2>8 DEF Pass, Block, Escalate, EscalateError, AsksNothing
    <2>9. ASSUME NEW k \in Keys, EscalateError(k)
          PROVE  AskAbout(k)
      BY <2>9 DEF EscalateError
    <2>10. CASE UNCHANGED gatedVars
      BY <2>2, <2>10 DEF gatedVars, gateVars, gateCalls
    <2>11. QED
      BY <2>1, <2>2, <2>3, <2>4, <2>5, <2>6, <2>7, <2>8, <2>9, <2>10 DEF GateNext
  <1>4. QED
    BY <1>2, <1>3 DEF Vouches

\* Where no approval is recorded, the ones there are stay vouched for.
LEMMA ApprovalsStay ==
    ASSUME GateInv, [GateNext]_gatedVars, UNCHANGED <<granted, remembered>>
    PROVE  GrantedByThePerson' /\ RememberedByThePerson'
  <1>1. ASSUME NEW s \in granted
        PROVE  \E c \in Calls :
                   Vouches(c)' /\ about'[c] \notin Unscoped /\ ScopeOf[about'[c]] = s
    <2>1. PICK c \in Calls : Vouches(c) /\ about[c] \notin Unscoped /\ ScopeOf[about[c]] = s
      BY DEF GateInv, GrantedByThePerson
    <2>2. Vouches(c)' /\ about'[c] = about[c]
      BY <2>1, VouchersStay
    <2>3. QED
      BY <2>1, <2>2
  <1>2. ASSUME NEW k \in remembered
        PROVE  \E c \in Calls : Vouches(c)' /\ about'[c] = k
    <2>1. PICK c \in Calls : Vouches(c) /\ about[c] = k
      BY DEF GateInv, RememberedByThePerson
    <2>2. QED
      BY <2>1, VouchersStay
  <1>3. QED
    BY <1>1, <1>2 DEF GrantedByThePerson, RememberedByThePerson

\* What is granted or remembered was approved by the person.
LEMMA CoveredIsApproved ==
    ASSUME GateInv, NEW k \in Keys, NEW c, NEW safe \in BOOLEAN, Cleared(k)
    PROVE  Approved(k, c, safe)
  <1>1. CASE Covered(k)
    <2>1. PICK d \in Calls :
              Vouches(d) /\ about[d] \notin Unscoped /\ ScopeOf[about[d]] = ScopeOf[k]
      BY <1>1 DEF Covered, GateInv, GrantedByThePerson
    <2>2. ApprovedBefore(k)
      BY <1>1, <2>1, GateConstants DEF Covered, ApprovedBefore, Vouches
    <2>3. QED
      BY <2>2 DEF Approved
  <1>2. QED
    BY <1>1 DEF Cleared, Approved

LEMMA RememberedIsApproved ==
    ASSUME GateInv, NEW k \in remembered, k \in Keys, mode = "smart", NEW c,
           NEW safe \in BOOLEAN
    PROVE  Approved(k, c, safe)
  <1>1. PICK d \in Calls : Vouches(d) /\ about[d] = k
    BY DEF GateInv, RememberedByThePerson
  <1>2. ApprovedBefore(k)
    BY <1>1, GateConstants DEF ApprovedBefore, Vouches
  <1>3. QED
    BY <1>2 DEF Approved

-----------------------------------------------------------------------------
(* Each step keeps the rest of it.                                          *)

GateRest == GateShape /\ JudgedInTurn /\ CountsWhatItBlocked /\ RunsAreApproved

\* A call whose judging ends leaves the others to their turn.
LEMMA JudgingEnds ==
    ASSUME GateInv, NEW k \in Keys, judged' = [judged EXCEPT ![k] = @ - 1], judged[k] > 0,
           UNCHANGED <<running, mode, counted, turn>>
    PROVE  judged' \in [Keys -> Nat] /\ JudgedInTurn'
  BY DEF GateInv, GateShape, JudgedInTurn

LEMMA RunsApproved ==
    ASSUME GateInv, NEW k \in Keys, NEW c, NEW safe, Approved(k, c, safe), Runs(k, c, safe)
    PROVE  /\ RunsAreApproved'
           /\ blocked' = [blocked EXCEPT !.inARow = 0]
  BY DEF GateInv, RunsAreApproved, Runs

LEMMA TurnStepsKeepRest ==
    ASSUME GateInv,
           BeginGatedTurn \/ EndAnswer \/ EndGatedTurn \/ AskQuestion \/ PersonAnswers \/ HandOver
    PROVE  GateRest' /\ UNCHANGED <<granted, remembered>>
  <1> USE DEF GateInv
  <1>1. CASE BeginGatedTurn
    <2>1. /\ turn' = turn + 1 /\ ~running /\ blocked' = NothingBlocked
          /\ UNCHANGED <<gateCalls, granted, smartVars, slipped>>
      BY <1>1 DEF BeginGatedTurn, BeginTurn
    <2>2. GateShape' /\ RunsAreApproved'
      BY <2>1 DEF GateShape, RunsAreApproved, gateCalls, smartVars
    <2>3. JudgedInTurn'
      BY <2>1 DEF JudgedInTurn, gateCalls
    <2>4. CountsWhatItBlocked'
      BY <2>1, TurnIsANumber DEF CountsWhatItBlocked, NothingBlocked, smartVars
    <2>5. QED
      BY <2>1, <2>2, <2>3, <2>4 DEF GateRest, smartVars
  <1>2. CASE EndAnswer
    <2>1. /\ judged = NoneJudged /\ turn' = turn
          /\ UNCHANGED <<gateCalls, granted, smartVars, slipped, blocked>>
      BY <1>2 DEF EndAnswer, AnswerAgain, CompleteTurn
    <2>2. GateShape' /\ RunsAreApproved'
      BY <2>1 DEF GateShape, RunsAreApproved, gateCalls, smartVars
    <2>3. JudgedInTurn'
      BY <2>1 DEF JudgedInTurn, NoneJudged, gateCalls
    <2>4. CountsWhatItBlocked'
      BY <2>1 DEF CountsWhatItBlocked, smartVars
    <2>5. QED
      BY <2>1, <2>2, <2>3, <2>4 DEF GateRest, smartVars
  <1>3. CASE EndGatedTurn
    <2>1. /\ judged' = NoneJudged /\ undecided' = {} /\ turn' = turn
          /\ about' = [c \in Calls |-> IF c \in undecided THEN NoKey ELSE about[c]]
          /\ UNCHANGED <<mode, granted, smartVars, slipped, blocked>>
      BY <1>3 DEF EndGatedTurn, EndTurn
    <2>2. GateShape' /\ RunsAreApproved'
      BY <2>1 DEF GateShape, RunsAreApproved, NoneJudged, smartVars
    <2>3. JudgedInTurn'
      BY <2>1 DEF JudgedInTurn, NoneJudged
    <2>4. CountsWhatItBlocked'
      BY <2>1 DEF CountsWhatItBlocked, smartVars
    <2>5. QED
      BY <2>1, <2>2, <2>3, <2>4 DEF GateRest, smartVars
  <1>4. CASE AskQuestion \/ PersonAnswers \/ HandOver
    <2>1. /\ UNCHANGED <<turn, running>>
          /\ UNCHANGED <<gateCalls, mode, granted, smartVars, slipped, blocked>>
      BY <1>4 DEF AskQuestion, PersonAnswers, HandOver, Ask, Settle, Release
    <2>2. QED
      BY <2>1 DEF GateRest, GateShape, JudgedInTurn, CountsWhatItBlocked, RunsAreApproved,
                  gateCalls, smartVars
  <1>5. QED
    BY <1>1, <1>2, <1>3, <1>4

\* A call that asks changes nothing the counts and the judging are about.
LEMMA AskAboutKeepsCalls ==
    ASSUME GateInv, NEW k \in Keys, AskAbout(k)
    PROVE  /\ about' \in [Calls -> Keys \union {NoKey}]
           /\ undecided' \subseteq Calls
           /\ \A c \in undecided' : about'[c] \in Keys
           /\ UNCHANGED <<turn, running, slipped, blocked>>
  BY AskAboutEffect DEF GateInv, GateShape

LEMMA CheckStepsKeepRest ==
    ASSUME GateInv, NEW k \in Keys,
           AllowByRules(k) \/ AskByRules(k) \/ Recall(k) \/ Consult(k)
    PROVE  GateRest' /\ UNCHANGED <<granted, remembered>>
  <1>1. CASE AllowByRules(k)
    <2>1. /\ Cleared(k) /\ Runs(k, NoCall, FALSE) /\ Proceeds
          /\ UNCHANGED <<about, undecided, turn, running>>
          /\ UNCHANGED <<judged, mode, granted, counted, total, denied, remembered>>
      BY <1>1 DEF AllowByRules, AsksNothing, vars
    <2>2. RunsAreApproved' /\ blocked' = [blocked EXCEPT !.inARow = 0]
      BY <2>1, CoveredIsApproved, RunsApproved
    <2>3. consecutive' \in {0, consecutive}
      BY <2>1 DEF Proceeds
    <2>4. GateShape' /\ JudgedInTurn'
      BY <2>1 DEF GateInv, GateShape, JudgedInTurn
    <2>5. CountsWhatItBlocked'
      BY <2>1, <2>2, <2>3, GateConstants DEF GateInv, CountsWhatItBlocked
    <2>6. QED
      BY <2>1, <2>2, <2>4, <2>5 DEF GateRest
  <1>2. CASE AskByRules(k)
    <2>1. AskAbout(k) /\ UNCHANGED <<judged, mode, granted, smartVars>>
      BY <1>2 DEF AskByRules
    <2>2. QED
      BY <2>1, AskAboutKeepsCalls
         DEF GateInv, GateRest, GateShape, JudgedInTurn, CountsWhatItBlocked, RunsAreApproved,
             smartVars
  <1>3. CASE Recall(k)
    <2>1. /\ running /\ mode = "smart" /\ k \in remembered
          /\ Runs(k, NoCall, FALSE)
          /\ UNCHANGED <<about, undecided, turn, running>>
          /\ UNCHANGED <<judged, mode, granted, denied, remembered>>
          /\ counted' = turn /\ consecutive' = 0
          /\ total' = IF counted = turn THEN total ELSE 0
      BY <1>3 DEF Recall, AsksNothing, Counts, vars
    <2>2. RunsAreApproved' /\ blocked' = [blocked EXCEPT !.inARow = 0]
      BY <2>1, RememberedIsApproved, RunsApproved
    <2>3. GateShape' /\ JudgedInTurn'
      BY <2>1 DEF GateInv, GateShape, JudgedInTurn
    <2>4. CountsWhatItBlocked'
      BY <2>1, <2>2, GateConstants, TurnIsANumber DEF GateInv, CountsWhatItBlocked
    <2>5. QED
      BY <2>1, <2>2, <2>3, <2>4 DEF GateRest
  <1>4. CASE Consult(k)
    <2>1. /\ running /\ mode = "smart"
          /\ judged' = [judged EXCEPT ![k] = @ + 1]
          /\ UNCHANGED <<about, undecided, turn, running>>
          /\ UNCHANGED <<mode, granted, denied, remembered, slipped, blocked>>
          /\ counted' = turn
          /\ consecutive' = IF counted = turn THEN consecutive ELSE 0
          /\ total' = IF counted = turn THEN total ELSE 0
      BY <1>4 DEF Consult, AsksNothing, Counts, vars
    <2>2. GateShape' /\ JudgedInTurn' /\ RunsAreApproved'
      BY <2>1 DEF GateInv, GateShape, JudgedInTurn, RunsAreApproved
    <2>3. CountsWhatItBlocked'
      BY <2>1, GateConstants, TurnIsANumber DEF GateInv, CountsWhatItBlocked
    <2>4. QED
      BY <2>1, <2>2, <2>3 DEF GateRest
  <1>5. QED
    BY <1>1, <1>2, <1>3, <1>4

\* A risky call counts up to the limits.
LEMMA DenyCounts ==
    ASSUME GateInv, NEW k \in Keys, NEW v \in Verdicts, Deny(k, v)
    PROVE  /\ running /\ mode = "smart" /\ counted = turn
           /\ UNCHANGED <<mode, granted, counted, remembered>>
           /\ judged' = [judged EXCEPT ![k] = @ - 1] /\ judged[k] > 0
           /\ consecutive' \in Nat /\ consecutive' < ConsecutiveLimit
           /\ total' \in Nat /\ total' < TotalLimit
           /\ consecutive' >= consecutive /\ total' >= total
           /\ consecutive + 1 < ConsecutiveLimit => consecutive' = consecutive + 1
           /\ total + 1 < TotalLimit => total' = total + 1
  <1>1. /\ running /\ judged[k] > 0
        /\ judged' = [judged EXCEPT ![k] = @ - 1]
        /\ UNCHANGED <<mode, granted, counted, remembered>>
        /\ consecutive' = Least(consecutive + 1, ConsecutiveLimit - 1)
        /\ total' = Least(total + 1, TotalLimit - 1)
    BY DEF Deny, Classified
  <1>2. mode = "smart" /\ counted = turn
    BY <1>1 DEF GateInv, JudgedInTurn
  <1>3. QED
    BY <1>1, <1>2, GateConstants DEF Least, GateInv, CountsWhatItBlocked

LEMMA PassKeepsRest ==
    ASSUME GateInv, NEW k \in Keys, NEW v \in Verdicts, Pass(k, v)
    PROVE  GateRest' /\ UNCHANGED <<granted, remembered>>
  <1>1. /\ running /\ judged[k] > 0 /\ judged' = [judged EXCEPT ![k] = @ - 1]
        /\ v = "safe" /\ k \notin Protected
        /\ Runs(k, NoCall, TRUE) /\ consecutive' = 0
        /\ UNCHANGED <<mode, granted, counted, remembered, total, denied>>
        /\ UNCHANGED <<about, undecided, turn, running>>
    BY DEF Pass, Safe, Classified, AsksNothing, vars
  <1>2. mode = "smart"
    BY <1>1 DEF GateInv, JudgedInTurn
  <1>3. Approved(k, NoCall, TRUE)
    BY <1>1, <1>2 DEF Approved
  <1>4. RunsAreApproved' /\ blocked' = [blocked EXCEPT !.inARow = 0]
    BY <1>1, <1>3, RunsApproved
  <1>5. GateShape' /\ JudgedInTurn'
    BY <1>1, JudgingEnds DEF GateInv, GateShape
  <1>6. CountsWhatItBlocked'
    BY <1>1, <1>4, GateConstants DEF GateInv, CountsWhatItBlocked
  <1>7. QED
    BY <1>1, <1>4, <1>5, <1>6 DEF GateRest

LEMMA BlockKeepsRest ==
    ASSUME GateInv, NEW k \in Keys, NEW v \in Verdicts, Block(k, v)
    PROVE  GateRest' /\ UNCHANGED <<granted, remembered>>
  <1>1. /\ Deny(k, v) /\ ~GoesToThePerson(k, v)
        /\ blocked' = [inARow |-> blocked.inARow + 1, inTurn |-> blocked.inTurn + 1]
        /\ UNCHANGED <<about, undecided, turn, running, slipped>>
    BY DEF Block, AsksNothing, vars
  <1>2. consecutive + 1 < ConsecutiveLimit /\ total + 1 < TotalLimit
    BY <1>1, GateConstants DEF GoesToThePerson, GateInv, CountsWhatItBlocked
  <1>3. GateShape' /\ JudgedInTurn' /\ RunsAreApproved'
    BY <1>1, DenyCounts, JudgingEnds DEF GateInv, GateShape, RunsAreApproved
  <1>4. CountsWhatItBlocked'
    BY <1>1, <1>2, DenyCounts, TurnIsANumber DEF GateInv, CountsWhatItBlocked
  <1>5. QED
    BY <1>1, <1>3, <1>4, DenyCounts DEF GateRest

LEMMA EscalateKeepsRest ==
    ASSUME GateInv, NEW k \in Keys, NEW v \in Verdicts, Escalate(k, v) \/ EscalateError(k)
    PROVE  GateRest' /\ UNCHANGED <<granted, remembered>>
  <1>1. CASE Escalate(k, v)
    <2>1. Deny(k, v) /\ AskAbout(k)
      BY <1>1 DEF Escalate
    <2>2. GateShape' /\ JudgedInTurn' /\ RunsAreApproved'
      BY <2>1, DenyCounts, JudgingEnds, AskAboutKeepsCalls
         DEF GateInv, GateShape, RunsAreApproved
    <2>3. CountsWhatItBlocked'
      BY <2>1, DenyCounts, TurnIsANumber, AskAboutKeepsCalls DEF GateInv, CountsWhatItBlocked
    <2>4. QED
      BY <2>1, <2>2, <2>3, DenyCounts DEF GateRest
  <1>2. CASE EscalateError(k)
    <2>1. /\ AskAbout(k)
          /\ running /\ judged[k] > 0 /\ judged' = [judged EXCEPT ![k] = @ - 1]
          /\ UNCHANGED <<mode, granted, counted, remembered, consecutive, total, denied>>
      BY <1>2 DEF EscalateError, Classified
    <2>2. GateShape' /\ JudgedInTurn' /\ RunsAreApproved' /\ CountsWhatItBlocked'
      BY <2>1, JudgingEnds, AskAboutKeepsCalls
         DEF GateInv, GateShape, RunsAreApproved, CountsWhatItBlocked
    <2>3. QED
      BY <2>1, <2>2 DEF GateRest
  <1>3. QED
    BY <1>1, <1>2

\* The person who approved a call for the session vouches for what it granted.
LEMMA ApproveKeepsInv ==
    ASSUME GateInv, NEW c \in Calls, NEW answer \in Answers, Approve(c, answer)
    PROVE  GateRest' /\ GrantedByThePerson' /\ RememberedByThePerson'
  <1>1. /\ running /\ c \in undecided /\ phase[c] = "resumed" /\ got[c] = answer
        /\ answer \in Approving
        /\ undecided' = undecided \ {c}
        /\ Runs(about[c], c, FALSE) /\ Proceeds
        /\ UNCHANGED <<turn, running, phase, got, judged, about, mode, counted, total, denied>>
    BY DEF Approve, Hears, vars
  <1>2. about[c] \in Keys /\ c # NoCall
    BY <1>1, CallsAreNumbers DEF GateInv, GateShape
  <1>3. RunsAreApproved' /\ blocked' = [blocked EXCEPT !.inARow = 0]
    <2>1. Approved(about[c], c, FALSE)
      BY <1>1, <1>2 DEF Approved, ApprovedNow
    <2>2. QED
      BY <1>1, <1>2, <2>1, RunsApproved
  <1>4. GateShape' /\ JudgedInTurn'
    BY <1>1 DEF GateInv, GateShape, JudgedInTurn
  <1>5. CountsWhatItBlocked'
    <2>1. consecutive' \in {0, consecutive}
      BY <1>1 DEF Proceeds
    <2>2. QED
      BY <1>1, <1>3, <2>1, GateConstants DEF GateInv, CountsWhatItBlocked
  <1>6. \A d \in Calls : Vouches(d) => Vouches(d)' /\ about'[d] = about[d]
    BY <1>1 DEF Vouches
  <1>7. ASSUME answer = "session"
        PROVE  Vouches(c)' /\ about'[c] = about[c]
    BY <1>1, <1>2, <1>7 DEF Vouches
  <1>8. GrantedByThePerson'
    <2> SUFFICES ASSUME NEW s \in granted'
                 PROVE  \E d \in Calls :
                            Vouches(d)' /\ about'[d] \notin Unscoped /\ ScopeOf[about'[d]] = s
      BY DEF GrantedByThePerson
    <2>1. CASE s \in granted
      <3>1. PICK d \in Calls : Vouches(d) /\ about[d] \notin Unscoped /\ ScopeOf[about[d]] = s
        BY <2>1 DEF GateInv, GrantedByThePerson
      <3>2. QED
        BY <1>6, <3>1
    <2>2. CASE s \notin granted
      <3>1. answer = "session" /\ about[c] \notin Unscoped /\ s = ScopeOf[about[c]]
        BY <2>2 DEF Approve, Grants
      <3>2. QED
        BY <1>7, <3>1
    <2>3. QED
      BY <2>1, <2>2
  <1>9. RememberedByThePerson'
    <2> SUFFICES ASSUME NEW k \in remembered'
                 PROVE  \E d \in Calls : Vouches(d)' /\ about'[d] = k
      BY DEF RememberedByThePerson
    <2>1. CASE k \in remembered
      <3>1. PICK d \in Calls : Vouches(d) /\ about[d] = k
        BY <2>1 DEF GateInv, RememberedByThePerson
      <3>2. QED
        BY <1>6, <3>1
    <2>2. CASE k \notin remembered
      <3>1. answer = "session" /\ k = about[c]
        BY <2>2 DEF Approve
      <3>2. QED
        BY <1>7, <3>1
    <2>3. QED
      BY <2>1, <2>2
  <1>10. QED
    BY <1>3, <1>4, <1>5, <1>8, <1>9 DEF GateRest

LEMMA DeclineKeepsRest ==
    ASSUME GateInv, NEW c \in Calls, Decline(c)
    PROVE  GateRest' /\ UNCHANGED <<granted, remembered>>
  <1>1. /\ undecided' = undecided \ {c} /\ about' = [about EXCEPT ![c] = NoKey]
        /\ UNCHANGED <<turn, running, judged, mode, granted, smartVars, slipped, blocked>>
    BY DEF Decline, vars
  <1>2. GateShape'
    BY <1>1 DEF GateInv, GateShape, smartVars
  <1>3. JudgedInTurn' /\ CountsWhatItBlocked' /\ RunsAreApproved'
    BY <1>1 DEF GateInv, JudgedInTurn, CountsWhatItBlocked, RunsAreApproved, smartVars
  <1>4. QED
    BY <1>1, <1>2, <1>3 DEF GateRest, smartVars

-----------------------------------------------------------------------------
(* Together.                                                                *)

LEMMA GateInvInit == GateInit => GateInv
  <1> SUFFICES ASSUME GateInit
               PROVE  GateInv
    OBVIOUS
  <1>1. /\ judged = [k \in Keys |-> 0] /\ about = [c \in Calls |-> NoKey] /\ undecided = {}
        /\ granted = {} /\ remembered = {} /\ slipped = FALSE
        /\ counted = 0 /\ consecutive = 0 /\ total = 0 /\ turn = 0
        /\ blocked = [inARow |-> 0, inTurn |-> 0]
    BY DEF GateInit, Init, NoneJudged, NoTurn, NothingBlocked
  <1>2. BookInv
    BY BookInvInit DEF GateInit
  <1>3. GateShape /\ GrantedByThePerson /\ RememberedByThePerson /\ JudgedInTurn
    BY <1>1 DEF GateShape, GrantedByThePerson, RememberedByThePerson, JudgedInTurn
  <1>4. CountsWhatItBlocked /\ RunsAreApproved
    BY <1>1, GateConstants DEF CountsWhatItBlocked, RunsAreApproved
  <1>5. QED
    BY <1>2, <1>3, <1>4 DEF GateInv

LEMMA GateInvStep == GateInv /\ [GateNext]_gatedVars => GateInv'
  <1> SUFFICES ASSUME GateInv, [GateNext]_gatedVars
               PROVE  GateInv'
    OBVIOUS
  <1>1. BookInv'
    BY GateStepIsBookStep, BookInvStep DEF GateInv
  <1> DEFINE Kept == GateRest' /\ UNCHANGED <<granted, remembered>>
  <1>2. ASSUME Kept
        PROVE  GateInv'
    BY <1>1, <1>2, ApprovalsStay DEF GateInv, GateRest
  <1>3. CASE BeginGatedTurn \/ EndAnswer \/ EndGatedTurn \/ AskQuestion \/ PersonAnswers \/ HandOver
    BY <1>2, <1>3, TurnStepsKeepRest
  <1>4. ASSUME NEW k \in Keys, AllowByRules(k) \/ AskByRules(k) \/ Recall(k) \/ Consult(k)
        PROVE  GateInv'
    BY <1>2, <1>4, CheckStepsKeepRest
  <1>5. ASSUME NEW k \in Keys, NEW v \in Verdicts, Pass(k, v) \/ Block(k, v) \/ Escalate(k, v)
        PROVE  GateInv'
    BY <1>2, <1>5, PassKeepsRest, BlockKeepsRest, EscalateKeepsRest
  <1>6. ASSUME NEW k \in Keys, EscalateError(k)
        PROVE  GateInv'
    <2>1. "safe" \in Verdicts
      BY DEF Verdicts
    <2>2. QED
      BY <1>2, <1>6, <2>1, EscalateKeepsRest
  <1>7. ASSUME NEW c \in Calls, NEW answer \in Answers, Approve(c, answer)
        PROVE  GateInv'
    BY <1>1, <1>7, ApproveKeepsInv DEF GateInv, GateRest
  <1>8. ASSUME NEW c \in Calls, Decline(c)
        PROVE  GateInv'
    BY <1>2, <1>8, DeclineKeepsRest
  <1>9. CASE UNCHANGED gatedVars
    <2>1. UNCHANGED <<judged, about, undecided, mode, granted, smartVars, slipped, blocked,
                      turn, running>>
      BY <1>9 DEF gatedVars, gateVars, gateCalls, vars
    <2>2. Kept
      BY <2>1 DEF GateInv, GateRest, GateShape, JudgedInTurn, CountsWhatItBlocked,
                  RunsAreApproved, smartVars
    <2>3. QED
      BY <1>2, <2>2
  <1>10. QED
    BY <1>3, <1>4, <1>5, <1>6, <1>7, <1>8, <1>9 DEF GateNext

LEMMA GateInvHolds == GateSpec => []GateInv
  BY GateInvInit, GateInvStep, PTL DEF GateSpec

\* Nothing runs that neither the rules allow, nor the classifier for a call it
\* may decide, nor the person, now or for the session: side by side, across
\* turns and whoever decides in them.
THEOREM NothingSlipsPastTheGate == GateSpec => []RunsAreApproved
  <1>1. GateInv => RunsAreApproved
    BY DEF GateInv
  <1>2. QED
    BY <1>1, GateInvHolds, PTL

\* Only a call blocks that was never counted before, short of the limits, which
\* its own counts stay below.
LEMMA BlockIsNew ==
    ASSUME GateInv, NEW k \in Keys, NEW v \in Verdicts, Block(k, v)
    PROVE  /\ denied' # denied
           /\ blocked'.inARow < ConsecutiveLimit
           /\ blocked'.inTurn < TotalLimit
  <1>1. /\ Deny(k, v) /\ ~GoesToThePerson(k, v)
        /\ blocked' = [inARow |-> blocked.inARow + 1, inTurn |-> blocked.inTurn + 1]
    BY DEF Block
  <1>2. denied' = denied \union {k} /\ k \notin denied
    BY <1>1 DEF Deny, GoesToThePerson
  <1>3. consecutive + 1 < ConsecutiveLimit /\ total + 1 < TotalLimit
    BY <1>1, GateConstants DEF GoesToThePerson, GateInv, CountsWhatItBlocked
  <1>4. blocked.inARow <= consecutive /\ blocked.inTurn <= total
    BY <1>1, DenyCounts DEF GateInv, CountsWhatItBlocked
  <1>5. QED
    BY <1>1, <1>2, <1>3, <1>4, GateConstants DEF GateInv, CountsWhatItBlocked

\* No step but a block adds to what is blocked.
LEMMA OnlyBlocksBlock ==
    ASSUME GateInv, [GateNext]_gatedVars,
           ~ \E k \in Keys, v \in Verdicts : Block(k, v)
    PROVE  ~(blocked'.inTurn > blocked.inTurn)
  <1>1. blocked \in [inARow : Nat, inTurn : Nat]
    BY DEF GateInv, CountsWhatItBlocked
  <1>2. ASSUME UNCHANGED blocked \/ blocked' = NothingBlocked
               \/ blocked' = [blocked EXCEPT !.inARow = 0]
        PROVE  ~(blocked'.inTurn > blocked.inTurn)
    BY <1>1, <1>2 DEF NothingBlocked
  <1>3. CASE BeginGatedTurn \/ EndAnswer \/ EndGatedTurn \/ AskQuestion \/ PersonAnswers \/ HandOver
    BY <1>2, <1>3 DEF BeginGatedTurn, EndAnswer, EndGatedTurn, AskQuestion, PersonAnswers, HandOver
  <1>4. ASSUME NEW k \in Keys, AllowByRules(k) \/ AskByRules(k) \/ Recall(k) \/ Consult(k)
        PROVE  ~(blocked'.inTurn > blocked.inTurn)
    BY <1>2, <1>4 DEF AllowByRules, AskByRules, AskAbout, Recall, Consult, Runs
  <1>5. ASSUME NEW k \in Keys, NEW v \in Verdicts,
               Pass(k, v) \/ Escalate(k, v)
        PROVE  ~(blocked'.inTurn > blocked.inTurn)
    BY <1>2, <1>5 DEF Pass, Escalate, AskAbout, Runs
  <1>6. ASSUME NEW k \in Keys, EscalateError(k)
        PROVE  ~(blocked'.inTurn > blocked.inTurn)
    BY <1>2, <1>6 DEF EscalateError, AskAbout
  <1>7. ASSUME NEW c \in Calls, NEW answer \in Answers, Approve(c, answer)
        PROVE  ~(blocked'.inTurn > blocked.inTurn)
    BY <1>2, <1>7 DEF Approve, Runs
  <1>8. ASSUME NEW c \in Calls, Decline(c)
        PROVE  ~(blocked'.inTurn > blocked.inTurn)
    BY <1>2, <1>8 DEF Decline
  <1>9. CASE UNCHANGED gatedVars
    BY <1>2, <1>9 DEF gatedVars, gateVars
  <1>10. QED
    BY <1>3, <1>4, <1>5, <1>6, <1>7, <1>8, <1>9 DEF GateNext

\* For any limits, a call the classifier finds risky is only ever sent back to
\* the model the first time, and the person is asked before the limits are
\* passed, however the calls of an answer interleave.
THEOREM BlockedCallsAreBrought == GateSpec => BlockedCallsReachThePerson
  <1>1. GateInv /\ [GateNext]_gatedVars =>
          [blocked'.inTurn > blocked.inTurn =>
              /\ denied' # denied
              /\ blocked'.inARow < ConsecutiveLimit
              /\ blocked'.inTurn < TotalLimit]_gatedVars
    BY BlockIsNew, OnlyBlocksBlock
  <1>2. QED
    BY <1>1, GateInvHolds, PTL DEF GateSpec, BlockedCallsReachThePerson
=============================================================================

---------------------------- MODULE CallbackProofs ----------------------------
(***************************************************************************)
(* What holds of a session's callbacks for any number of calls, turns,     *)
(* identifiers and answers, whatever identifiers the provider repeats.     *)
(***************************************************************************)
EXTENDS CallbackBook, TLAPS

-----------------------------------------------------------------------------
(* The inductive invariant.                                                 *)

\* Calls ask in the order of their numbers, and a suffix is its call's own.
CallsAskInOrder ==
    \A c \in Calls :
        /\ phase[c] = "none" <=> c > calls
        /\ phase[c] # "none" => asks[c] \in Names /\ asks[c].suffix \in {NoCall, c}

\* One answer at a time is on its way to a call, the one that asked for it and
\* waits for it no longer under that name: if the name is open again by then,
\* another call opened it.
ReleasedIsSettling ==
    \A name \in Names : released[name] # NoCall =>
        /\ settling = name
        /\ phase[released[name]] # "none" /\ asks[released[name]] = name
        /\ waiters[name] # released[name]

\* The connection hands over an answer that is recorded.
SettlingIsAnswered == settling # NoName => answered[settling] # NoAnswer

\* What a resumed call was handed is recorded too.
ResumedIsAnswered ==
    \A c \in Calls : phase[c] = "resumed" =>
        answered[asks[c]] # NoAnswer /\ got[c] = answered[asks[c]]

BookInv ==
    /\ TypeOK
    /\ CallsAskInOrder
    /\ OpenHasItsWaiter
    /\ NoCallForgotten
    /\ NoneOpenBetweenTurns
    /\ ReleasedIsSettling
    /\ SettlingIsAnswered
    /\ ResumedIsAnswered

\* Calls are numbered from 1, so that NoCall is none of them.
LEMMA CallsAreNumbers ==
    /\ MaxCalls \in Nat
    /\ NoCall \notin Calls
    /\ \A c : c \in Calls <=> c \in Nat /\ 1 <= c /\ c <= MaxCalls
  BY CallbackConstants DEF Calls, NoCall

\* NoName is not the name of a callback.
LEMMA NoNameIsNone == NoName \notin Names
  BY CallbackConstants DEF NoName, Names

\* A call asks under a name nobody waits on.
LEMMA FreshNameIsFree ==
    ASSUME BookInv, NEW base \in Bases, calls < MaxCalls
    PROVE  /\ FreshName(base, calls + 1) \in Names
           /\ FreshName(base, calls + 1).suffix \in {NoCall, calls + 1}
           /\ waiters[FreshName(base, calls + 1)] = NoCall
  <1>1. calls \in Nat /\ calls + 1 \in Calls
    BY CallsAreNumbers DEF BookInv, TypeOK
  <1>2. Bare(base) \in Names /\ Bare(base).suffix = NoCall
    BY DEF Bare, Names
  <1>3. CASE waiters[Bare(base)] = NoCall
    BY <1>2, <1>3 DEF FreshName
  <1>4. CASE waiters[Bare(base)] # NoCall
    <2> DEFINE name == [base |-> base, suffix |-> calls + 1]
    <2>1. FreshName(base, calls + 1) = name
      BY <1>4 DEF FreshName
    <2>2. name \in Names /\ name.suffix = calls + 1
      BY <1>1 DEF Names
    <2> HIDE DEF name
    <2>3. waiters[name] = NoCall
      <3> SUFFICES ASSUME waiters[name] # NoCall
                   PROVE  FALSE
        OBVIOUS
      <3>1. PICK d \in Calls : d = waiters[name]
        BY <2>2 DEF BookInv, TypeOK
      <3>2. asks[d] = name /\ phase[d] = "waiting"
        BY <2>2, <3>1 DEF BookInv, OpenHasItsWaiter
      <3>3. ~(d > calls) /\ asks[d].suffix \in {NoCall, d}
        BY <3>2 DEF BookInv, CallsAskInOrder
      <3>4. QED
        BY <1>1, <2>2, <3>2, <3>3, CallsAreNumbers
    <2>4. QED
      BY <2>1, <2>2, <2>3
  <1>5. QED
    BY <1>3, <1>4

LEMMA AskKeepsInv ==
    ASSUME BookInv, NEW base \in Bases, Ask(base)
    PROVE  BookInv'
  <1>1. PICK c \in Calls : c = calls + 1 /\ c \in Nat /\ calls \in Nat /\ c # NoCall
    BY CallsAreNumbers DEF BookInv, TypeOK, Ask
  <1>2. PICK name \in Names :
            /\ name = FreshName(base, c) /\ name.suffix \in {NoCall, c}
            /\ waiters[name] = NoCall
    BY <1>1, FreshNameIsFree DEF Ask
  <1>3. /\ running /\ calls' = c
        /\ asks' = [asks EXCEPT ![c] = name]
        /\ phase' = [phase EXCEPT ![c] = "waiting"]
        /\ open' = open \union {name}
        /\ waiters' = [waiters EXCEPT ![name] = c]
        /\ brought' \in {brought, brought \union {base}}
        /\ UNCHANGED <<answered, closed, released, got, turn, running, settling>>
    BY <1>1, <1>2 DEF Ask
  <1>4. TypeOK'
    <2>1. calls' \in 0..MaxCalls
      BY <1>1, <1>3, CallsAreNumbers
    <2>2. /\ open' \subseteq Names
          /\ waiters' \in [Names -> Calls \union {NoCall}]
          /\ asks' \in [Calls -> Names \union {NoName}]
          /\ phase' \in [Calls -> {"none", "waiting", "resumed", "dropped"}]
          /\ brought' \subseteq Bases
      BY <1>3 DEF BookInv, TypeOK
    <2>3. QED
      BY <1>3, <2>1, <2>2 DEF BookInv, TypeOK
  <1>5. /\ \A d \in Calls : asks'[d] = IF d = c THEN name ELSE asks[d]
        /\ \A d \in Calls : phase'[d] = IF d = c THEN "waiting" ELSE phase[d]
        /\ \A n \in Names : waiters'[n] = IF n = name THEN c ELSE waiters[n]
    BY <1>3 DEF BookInv, TypeOK
  <1>6. phase[c] = "none"
    BY <1>1 DEF BookInv, CallsAskInOrder
  <1>7. CallsAskInOrder'
    <2> SUFFICES ASSUME NEW d \in Calls
                 PROVE  /\ phase'[d] = "none" <=> d > c
                        /\ phase'[d] # "none" => asks'[d] \in Names
                                                /\ asks'[d].suffix \in {NoCall, d}
      BY <1>3 DEF CallsAskInOrder
    <2>1. CASE d = c
      BY <1>1, <1>2, <1>5, <2>1
    <2>2. CASE d # c
      <3>1. d \in Int /\ (d > calls <=> d > c)
        BY <1>1, <2>2, CallsAreNumbers
      <3>2. QED
        BY <1>5, <2>2, <3>1 DEF BookInv, CallsAskInOrder
    <2>3. QED
      BY <2>1, <2>2
  <1>8. OpenHasItsWaiter'
    <2> SUFFICES ASSUME NEW n \in Names
                 PROVE  /\ n \in open' <=> waiters'[n] # NoCall
                        /\ waiters'[n] # NoCall =>
                               asks'[waiters'[n]] = n /\ phase'[waiters'[n]] = "waiting"
      BY DEF OpenHasItsWaiter
    <2>1. CASE n = name
      BY <1>1, <1>3, <1>5, <2>1
    <2>2. CASE n # name
      <3>1. /\ n \in open <=> waiters[n] # NoCall
            /\ waiters[n] # NoCall => asks[waiters[n]] = n /\ phase[waiters[n]] = "waiting"
        BY DEF BookInv, OpenHasItsWaiter
      <3>2. waiters[n] \in Calls \union {NoCall} /\ waiters[n] # c
        BY <1>1, <1>6, <3>1 DEF BookInv, TypeOK
      <3>3. QED
        BY <1>3, <1>5, <2>2, <3>1, <3>2
    <2>3. QED
      BY <2>1, <2>2
  <1>9. NoCallForgotten'
    <2> SUFFICES ASSUME NEW d \in Calls, phase'[d] = "waiting"
                 PROVE  \/ waiters'[asks'[d]] = d
                        \/ released'[asks'[d]] = d /\ settling' = asks'[d]
      BY DEF NoCallForgotten
    <2>1. CASE d = c
      BY <1>5, <2>1
    <2>2. CASE d # c
      <3>1. asks[d] \in Names /\ asks'[d] = asks[d]
            /\ (waiters[asks[d]] = d \/ (released[asks[d]] = d /\ settling = asks[d]))
        BY <1>5, <2>2 DEF BookInv, NoCallForgotten, CallsAskInOrder
      <3>2. asks[d] = name => waiters[asks[d]] # d
        BY <1>2, CallsAreNumbers
      <3>3. QED
        BY <1>3, <1>5, <3>1, <3>2
    <2>3. QED
      BY <2>1, <2>2
  <1>10. NoneOpenBetweenTurns'
    BY <1>3 DEF NoneOpenBetweenTurns
  <1>11. ReleasedIsSettling'
    <2> SUFFICES ASSUME NEW n \in Names, released[n] # NoCall
                 PROVE  /\ settling = n /\ phase'[released[n]] # "none"
                        /\ asks'[released[n]] = n /\ waiters'[n] # released[n]
      BY <1>3 DEF ReleasedIsSettling
    <2>1. /\ settling = n /\ phase[released[n]] # "none"
          /\ asks[released[n]] = n /\ waiters[n] # released[n]
      BY DEF BookInv, ReleasedIsSettling
    <2>2. released[n] \in Calls /\ released[n] # c
      BY <1>6, <2>1 DEF BookInv, TypeOK
    <2>3. QED
      BY <1>5, <2>1, <2>2
  <1>12. SettlingIsAnswered'
    BY <1>3 DEF BookInv, SettlingIsAnswered
  <1>13. ResumedIsAnswered'
    BY <1>3, <1>5 DEF BookInv, ResumedIsAnswered
  <1>14. QED
    BY <1>4, <1>7, <1>8, <1>9, <1>10, <1>11, <1>12, <1>13 DEF BookInv

\* A turn that completes has heard of every call, so that no callback is open.
LEMMA AllHeardNoneOpen ==
    ASSUME BookInv, AllHeard
    PROVE  open = {}
  <1> SUFFICES ASSUME NEW name \in Names, name \in open
               PROVE  FALSE
    BY DEF BookInv, TypeOK
  <1>1. waiters[name] # NoCall /\ phase[waiters[name]] = "waiting"
    BY DEF BookInv, OpenHasItsWaiter
  <1>2. waiters[name] \in Calls
    BY <1>1 DEF BookInv, TypeOK
  <1>3. QED
    BY <1>1, <1>2 DEF AllHeard

LEMMA TurnStepsKeepInv ==
    ASSUME BookInv, BeginTurn \/ AnswerAgain \/ CompleteTurn
    PROVE  BookInv'
  <1>1. /\ UNCHANGED <<bookVars, callVars, settling>>
        /\ turn' \in 0..MaxTurns /\ running' \in BOOLEAN /\ brought' \subseteq Bases
    <2>1. CASE BeginTurn
      BY <2>1, CallbackConstants DEF BeginTurn, BookInv, TypeOK
    <2>2. CASE AnswerAgain
      BY <2>2 DEF AnswerAgain, BookInv, TypeOK
    <2>3. CASE CompleteTurn
      BY <2>3 DEF CompleteTurn, BookInv, TypeOK
    <2>4. QED
      BY <2>1, <2>2, <2>3
  <1>2. TypeOK'
    BY <1>1 DEF BookInv, TypeOK, bookVars, callVars
  <1>3. NoneOpenBetweenTurns'
    <2>1. CASE BeginTurn
      BY <2>1 DEF BeginTurn, NoneOpenBetweenTurns
    <2>2. CASE AnswerAgain
      BY <2>2 DEF AnswerAgain, NoneOpenBetweenTurns
    <2>3. CASE CompleteTurn
      BY <1>1, <2>3, AllHeardNoneOpen DEF CompleteTurn, NoneOpenBetweenTurns, bookVars
    <2>4. QED
      BY <2>1, <2>2, <2>3
  <1>4. CallsAskInOrder' /\ OpenHasItsWaiter' /\ NoCallForgotten'
    BY <1>1 DEF BookInv, CallsAskInOrder, OpenHasItsWaiter, NoCallForgotten, bookVars, callVars
  <1>5. ReleasedIsSettling' /\ SettlingIsAnswered' /\ ResumedIsAnswered'
    BY <1>1 DEF BookInv, ReleasedIsSettling, SettlingIsAnswered, ResumedIsAnswered, bookVars,
                callVars
  <1>6. QED
    BY <1>2, <1>3, <1>4, <1>5 DEF BookInv

LEMMA EndTurnKeepsInv ==
    ASSUME BookInv, EndTurn
    PROVE  BookInv'
  <1>1. /\ running' = FALSE /\ open' = {} /\ closed' = closed \union open
        /\ waiters' = Unwaited(open)
        /\ phase' = [c \in Calls |-> IF phase[c] = "waiting" THEN "dropped" ELSE phase[c]]
        /\ got' = [c \in Calls |->
                     IF \E name \in open : waiters[name] = c THEN Closed ELSE got[c]]
        /\ UNCHANGED <<answered, released, calls, asks, turn, brought, settling>>
    BY DEF EndTurn
  <1>2. \A name \in Names : waiters'[name] = NoCall
    BY <1>1 DEF Unwaited, BookInv, OpenHasItsWaiter
  <1>3. \A c \in Calls :
            phase'[c] = IF phase[c] = "waiting" THEN "dropped" ELSE phase[c]
    BY <1>1
  <1>4. TypeOK'
    <2>1. waiters' \in [Names -> Calls \union {NoCall}]
      BY <1>1, <1>2 DEF Unwaited
    <2>2. phase' \in [Calls -> {"none", "waiting", "resumed", "dropped"}]
      BY <1>1 DEF BookInv, TypeOK
    <2>3. got' \in [Calls -> Answers \union {NoAnswer, Closed}]
      BY <1>1 DEF BookInv, TypeOK
    <2>4. QED
      BY <1>1, <2>1, <2>2, <2>3 DEF BookInv, TypeOK
  <1>5. CallsAskInOrder'
    BY <1>1, <1>3 DEF BookInv, CallsAskInOrder
  <1>6. OpenHasItsWaiter' /\ NoneOpenBetweenTurns'
    BY <1>1, <1>2 DEF OpenHasItsWaiter, NoneOpenBetweenTurns
  <1>7. NoCallForgotten'
    BY <1>3 DEF NoCallForgotten
  <1>8. ReleasedIsSettling'
    <2> SUFFICES ASSUME NEW name \in Names, released[name] # NoCall
                 PROVE  /\ settling = name /\ phase'[released[name]] # "none"
                        /\ asks[released[name]] = name /\ waiters'[name] # released[name]
      BY <1>1 DEF ReleasedIsSettling
    <2>1. settling = name /\ phase[released[name]] # "none" /\ asks[released[name]] = name
      BY DEF BookInv, ReleasedIsSettling
    <2>2. released[name] \in Calls
      BY DEF BookInv, TypeOK
    <2>3. QED
      BY <1>2, <1>3, <2>1, <2>2
  <1>9. SettlingIsAnswered'
    BY <1>1 DEF BookInv, SettlingIsAnswered
  <1>10. ResumedIsAnswered'
    <2> SUFFICES ASSUME NEW c \in Calls, phase'[c] = "resumed"
                 PROVE  answered[asks[c]] # NoAnswer /\ got'[c] = answered[asks[c]]
      BY <1>1 DEF ResumedIsAnswered
    <2>1. phase[c] = "resumed"
      BY <1>3
    <2>2. answered[asks[c]] # NoAnswer /\ got[c] = answered[asks[c]]
      BY <2>1 DEF BookInv, ResumedIsAnswered
    <2>3. \A name \in open : waiters[name] # c
      BY <2>1 DEF BookInv, TypeOK, OpenHasItsWaiter
    <2>4. got'[c] = got[c]
      BY <1>1, <2>3
    <2>5. QED
      BY <2>2, <2>4
  <1>11. QED
    BY <1>4, <1>5, <1>6, <1>7, <1>8, <1>9, <1>10 DEF BookInv

LEMMA SettleKeepsInv ==
    ASSUME BookInv, NEW name \in Names, NEW answer \in Answers, Settle(name, answer)
    PROVE  BookInv'
  <1>1. /\ settling = NoName /\ answered[name] = NoAnswer /\ name \in open
        /\ open' = open \ {name}
        /\ waiters' = [waiters EXCEPT ![name] = NoCall]
        /\ released' = [released EXCEPT ![name] = waiters[name]]
        /\ answered' = [answered EXCEPT ![name] = answer]
        /\ settling' = name
        /\ UNCHANGED <<closed, calls, asks, phase, got, turn, running, brought>>
    BY DEF Settle, Unanswered, HandedOver, callVars
  <1>2. PICK c \in Calls : waiters[name] = c /\ asks[c] = name /\ phase[c] = "waiting"
    BY <1>1 DEF BookInv, TypeOK, OpenHasItsWaiter
  <1>3. /\ \A n \in Names : waiters'[n] = IF n = name THEN NoCall ELSE waiters[n]
        /\ \A n \in Names : released'[n] = IF n = name THEN c ELSE released[n]
        /\ \A n \in Names : answered'[n] = IF n = name THEN answer ELSE answered[n]
    BY <1>1, <1>2 DEF BookInv, TypeOK
  <1>4. TypeOK'
    BY <1>1 DEF BookInv, TypeOK
  <1>5. CallsAskInOrder' /\ NoneOpenBetweenTurns'
    BY <1>1 DEF BookInv, CallsAskInOrder, NoneOpenBetweenTurns
  <1>6. OpenHasItsWaiter'
    BY <1>1, <1>3 DEF BookInv, OpenHasItsWaiter
  <1>7. \A n \in Names : released[n] = NoCall
    BY <1>1, NoNameIsNone DEF BookInv, ReleasedIsSettling
  <1>8. NoCallForgotten'
    <2> SUFFICES ASSUME NEW d \in Calls, phase[d] = "waiting"
                 PROVE  waiters'[asks[d]] = d \/ (released'[asks[d]] = d /\ name = asks[d])
      BY <1>1 DEF NoCallForgotten
    <2>1. asks[d] \in Names
      BY DEF BookInv, CallsAskInOrder
    <2>2. waiters[asks[d]] = d
      BY <1>7, <2>1, CallsAreNumbers DEF BookInv, NoCallForgotten
    <2>3. QED
      BY <1>2, <1>3, <2>1, <2>2
  <1>9. ReleasedIsSettling'
    BY <1>1, <1>2, <1>3, <1>7, CallsAreNumbers DEF ReleasedIsSettling
  <1>10. SettlingIsAnswered'
    BY <1>1, <1>3, CallbackConstants DEF SettlingIsAnswered
  <1>11. ResumedIsAnswered'
    <2> SUFFICES ASSUME NEW d \in Calls, phase[d] = "resumed"
                 PROVE  answered'[asks[d]] # NoAnswer /\ got[d] = answered'[asks[d]]
      BY <1>1 DEF ResumedIsAnswered
    <2>1. answered[asks[d]] # NoAnswer /\ got[d] = answered[asks[d]]
      BY DEF BookInv, ResumedIsAnswered
    <2>2. asks[d] \in Names
      BY DEF BookInv, CallsAskInOrder
    <2>3. QED
      BY <1>1, <1>3, <2>1, <2>2
  <1>12. QED
    BY <1>4, <1>5, <1>6, <1>8, <1>9, <1>10, <1>11 DEF BookInv

LEMMA ReleaseKeepsInv ==
    ASSUME BookInv, Release
    PROVE  BookInv'
  <1> DEFINE c == released[settling]
  <1>1. /\ settling # NoName /\ settling \in Names /\ settling' = NoName
        /\ released' = [released EXCEPT ![settling] = NoCall]
        /\ phase' = [d \in Calls |->
                       IF d = c /\ Listens(d) THEN "resumed" ELSE phase[d]]
        /\ got' = [d \in Calls |->
                     IF d = c /\ Listens(d) THEN answered[settling] ELSE got[d]]
        /\ UNCHANGED <<open, waiters, answered, closed, calls, asks, turn, running, brought>>
    BY DEF Release, BookInv, TypeOK
  <1>2. answered[settling] \in Answers /\ answered[settling] # NoAnswer
    BY <1>1 DEF BookInv, TypeOK, SettlingIsAnswered
  <1>3. c # NoCall => c \in Calls /\ asks[c] = settling
    BY <1>1 DEF BookInv, TypeOK, ReleasedIsSettling
  <1> HIDE DEF c
  <1>4. \A d \in Calls :
            phase'[d] = IF d = c /\ phase[d] = "waiting" THEN "resumed" ELSE phase[d]
    BY <1>1 DEF Listens
  <1>5. \A d \in Calls :
            got'[d] = IF d = c /\ phase[d] = "waiting" THEN answered[settling] ELSE got[d]
    BY <1>1 DEF Listens
  <1>6. \A n \in Names : released'[n] = NoCall
    BY <1>1 DEF BookInv, TypeOK, ReleasedIsSettling
  <1>7. TypeOK'
    <2>1. released' \in [Names -> Calls \union {NoCall}]
      BY <1>1 DEF BookInv, TypeOK
    <2>2. phase' \in [Calls -> {"none", "waiting", "resumed", "dropped"}]
      BY <1>1 DEF BookInv, TypeOK
    <2>3. got' \in [Calls -> Answers \union {NoAnswer, Closed}]
      BY <1>1, <1>2 DEF BookInv, TypeOK
    <2>4. QED
      BY <1>1, <2>1, <2>2, <2>3 DEF BookInv, TypeOK
  <1>8. CallsAskInOrder'
    BY <1>1, <1>4 DEF BookInv, CallsAskInOrder
  <1>9. OpenHasItsWaiter'
    <2> SUFFICES ASSUME NEW n \in Names
                 PROVE  /\ n \in open <=> waiters[n] # NoCall
                        /\ waiters[n] # NoCall =>
                               asks[waiters[n]] = n /\ phase'[waiters[n]] = "waiting"
      BY <1>1 DEF OpenHasItsWaiter
    <2>1. /\ n \in open <=> waiters[n] # NoCall
          /\ waiters[n] # NoCall => asks[waiters[n]] = n /\ phase[waiters[n]] = "waiting"
      BY DEF BookInv, OpenHasItsWaiter
    <2>2. ASSUME waiters[n] # NoCall
          PROVE  waiters[n] \in Calls /\ waiters[n] # c
      <3>1. waiters[n] \in Calls
        BY <2>2 DEF BookInv, TypeOK
      <3>2. waiters[settling] # c \/ c = NoCall
        BY <1>1 DEF c, BookInv, ReleasedIsSettling
      <3>3. QED
        BY <1>3, <2>1, <2>2, <3>1, <3>2
    <2>3. QED
      BY <1>4, <2>1, <2>2
  <1>10. NoCallForgotten'
    <2> SUFFICES ASSUME NEW d \in Calls, phase'[d] = "waiting"
                 PROVE  waiters[asks[d]] = d
      BY <1>1 DEF NoCallForgotten
    <2>1. phase[d] = "waiting" /\ d # c
      BY <1>4
    <2>2. waiters[asks[d]] = d \/ (released[asks[d]] = d /\ settling = asks[d])
      BY <2>1 DEF BookInv, NoCallForgotten
    <2>3. QED
      BY <2>1, <2>2 DEF c
  <1>11. NoneOpenBetweenTurns'
    BY <1>1 DEF BookInv, NoneOpenBetweenTurns
  <1>12. ReleasedIsSettling'
    BY <1>6 DEF ReleasedIsSettling
  <1>13. SettlingIsAnswered'
    BY <1>1 DEF SettlingIsAnswered
  <1>14. ResumedIsAnswered'
    <2> SUFFICES ASSUME NEW d \in Calls, phase'[d] = "resumed"
                 PROVE  answered[asks[d]] # NoAnswer /\ got'[d] = answered[asks[d]]
      BY <1>1 DEF ResumedIsAnswered
    <2>1. CASE phase[d] = "resumed"
      BY <1>5, <2>1 DEF BookInv, ResumedIsAnswered
    <2>2. CASE phase[d] # "resumed"
      <3>1. d = c /\ phase[d] = "waiting"
        BY <1>4, <2>2
      <3>2. asks[d] = settling
        BY <1>3, <3>1, CallsAreNumbers
      <3>3. QED
        BY <1>2, <1>5, <3>1, <3>2
    <2>3. QED
      BY <2>1, <2>2
  <1>15. QED
    BY <1>7, <1>8, <1>9, <1>10, <1>11, <1>12, <1>13, <1>14 DEF BookInv

LEMMA BookInvInit == Init => BookInv
  <1> SUFFICES ASSUME Init
               PROVE  BookInv
    OBVIOUS
  <1>1. /\ open = {} /\ calls = 0 /\ settling = NoName /\ running = FALSE
        /\ \A c \in Calls : phase[c] = "none"
        /\ \A name \in Names : waiters[name] = NoCall /\ released[name] = NoCall
    BY DEF Init
  <1>2. TypeOK
    <2>1. /\ open \subseteq Names /\ closed \subseteq Names /\ brought \subseteq Bases
          /\ calls \in 0..MaxCalls /\ turn \in 0..MaxTurns
          /\ settling \in Names \union {NoName}
      BY CallbackConstants DEF Init
    <2>2. running \in BOOLEAN
      BY <1>1
    <2>3. /\ waiters \in [Names -> Calls \union {NoCall}]
          /\ released \in [Names -> Calls \union {NoCall}]
          /\ answered \in [Names -> Answers \union {NoAnswer}]
      BY DEF Init
    <2>4. /\ asks \in [Calls -> Names \union {NoName}]
          /\ phase \in [Calls -> {"none", "waiting", "resumed", "dropped"}]
          /\ got \in [Calls -> Answers \union {NoAnswer, Closed}]
      BY DEF Init
    <2>5. QED
      BY <2>1, <2>2, <2>3, <2>4 DEF TypeOK
  <1>3. CallsAskInOrder
    BY <1>1, CallsAreNumbers DEF CallsAskInOrder
  <1>4. OpenHasItsWaiter /\ NoCallForgotten /\ NoneOpenBetweenTurns
    BY <1>1 DEF OpenHasItsWaiter, NoCallForgotten, NoneOpenBetweenTurns
  <1>5. ReleasedIsSettling /\ SettlingIsAnswered /\ ResumedIsAnswered
    BY <1>1 DEF ReleasedIsSettling, SettlingIsAnswered, ResumedIsAnswered
  <1>6. QED
    BY <1>2, <1>3, <1>4, <1>5 DEF BookInv

LEMMA BookInvStep == BookInv /\ [Next]_vars => BookInv'
  <1> SUFFICES ASSUME BookInv, [Next]_vars
               PROVE  BookInv'
    OBVIOUS
  <1>1. ASSUME NEW base \in Bases, Ask(base)
        PROVE  BookInv'
    BY <1>1, AskKeepsInv
  <1>2. CASE BeginTurn \/ AnswerAgain \/ CompleteTurn
    BY <1>2, TurnStepsKeepInv
  <1>3. CASE EndTurn
    BY <1>3, EndTurnKeepsInv
  <1>4. ASSUME NEW name \in Names, NEW answer \in Answers, Settle(name, answer)
        PROVE  BookInv'
    BY <1>4, SettleKeepsInv
  <1>5. CASE Release
    BY <1>5, ReleaseKeepsInv
  <1>6. CASE UNCHANGED vars
    BY <1>6 DEF vars, BookInv, TypeOK, CallsAskInOrder, OpenHasItsWaiter, NoCallForgotten,
                NoneOpenBetweenTurns, ReleasedIsSettling, SettlingIsAnswered,
                ResumedIsAnswered
  <1>7. QED
    BY <1>1, <1>2, <1>3, <1>4, <1>5, <1>6 DEF Next, ClientAnswers

LEMMA BookInvHolds == Spec => []BookInv
  BY BookInvInit, BookInvStep, PTL DEF Spec

-----------------------------------------------------------------------------
(* What follows.                                                            *)

\* The book's state always has its type.
THEOREM BookTypeCorrect == Spec => []TypeOK
  <1>1. BookInv => TypeOK
    BY DEF BookInv
  <1>2. QED
    BY <1>1, BookInvHolds, PTL

\* Every open callback has the one call that opened it waiting on it, however
\* many calls bring the same identifier.
THEOREM CallbacksHaveTheirWaiter == Spec => []OpenHasItsWaiter
  <1>1. BookInv => OpenHasItsWaiter
    BY DEF BookInv
  <1>2. QED
    BY <1>1, BookInvHolds, PTL

\* No call waits on a callback that is neither open nor being handed over.
THEOREM NoCallIsForgotten == Spec => []NoCallForgotten
  <1>1. BookInv => NoCallForgotten
    BY DEF BookInv
  <1>2. QED
    BY <1>1, BookInvHolds, PTL

\* A turn that ended, whichever way, left no callback open.
THEOREM NoCallbackOutlivesItsTurn == Spec => []NoneOpenBetweenTurns
  <1>1. BookInv => NoneOpenBetweenTurns
    BY DEF BookInv
  <1>2. QED
    BY <1>1, BookInvHolds, PTL

\* A call goes on with the answer recorded for its callback.
THEOREM CallsResumeWithTheAnswer == Spec => []ResumesWithTheAnswer
  <1>1. BookInv => ResumesWithTheAnswer
    BY DEF BookInv, ResumedIsAnswered, ResumesWithTheAnswer
  <1>2. QED
    BY <1>1, BookInvHolds, PTL

\* The answer recorded for a callback is its first, whatever is sent later and
\* whoever opens a callback of that identifier again.
THEOREM AnswersAreFinal == Spec => AnsweredOnce
  <1> DEFINE Final == \A name \in Names :
                         answered[name] # NoAnswer => answered'[name] = answered[name]
  <1>1. ASSUME TypeOK, [Next]_vars
        PROVE  [Final]_vars
    <2>1. ASSUME answered' = answered
          PROVE  Final
      BY <2>1
    <2>2. ASSUME NEW name \in Names, NEW answer \in Answers, Settle(name, answer)
          PROVE  Final
      <3>1. answered[name] = NoAnswer /\ answered' = [answered EXCEPT ![name] = answer]
        BY <2>2 DEF Settle, Unanswered
      <3>2. QED
        BY <1>1, <3>1 DEF TypeOK
    <2> HIDE DEF Final
    <2>3. ASSUME NEW base \in Bases, Ask(base)
          PROVE  Final
      BY <2>1, <2>3 DEF Ask
    <2>4. BeginTurn \/ AnswerAgain \/ CompleteTurn \/ EndTurn \/ Release => Final
      BY <2>1 DEF BeginTurn, AnswerAgain, CompleteTurn, EndTurn, Release, bookVars
    <2>5. QED
      BY <1>1, <2>2, <2>3, <2>4 DEF Next, ClientAnswers
  <1>2. QED
    BY <1>1, BookTypeCorrect, PTL DEF Spec, AnsweredOnce

\* A call that resumed or was dropped hears nothing more.
LEMMA HeardStays ==
    ASSUME BookInv, [Next]_vars
    PROVE  \A c \in Calls : phase[c] \in {"resumed", "dropped"} =>
               phase'[c] = phase[c] /\ (got[c] # NoAnswer => got'[c] = got[c])
  <1> DEFINE Once == \A c \in Calls : phase[c] \in {"resumed", "dropped"} =>
                        phase'[c] = phase[c] /\ (got[c] # NoAnswer => got'[c] = got[c])
  <1> SUFFICES Once
    OBVIOUS
  <1>1. ASSUME UNCHANGED <<phase, got>>
        PROVE  Once
    BY <1>1
  <1>2. ASSUME NEW base \in Bases, Ask(base)
        PROVE  Once
    <2>1. /\ calls' = calls + 1 /\ calls < MaxCalls
          /\ phase' = [phase EXCEPT ![calls + 1] = "waiting"] /\ got' = got
      BY <1>2 DEF Ask
    <2>2. calls + 1 \in Calls /\ calls + 1 > calls
      BY <2>1, CallsAreNumbers DEF BookInv, TypeOK
    <2>3. phase[calls + 1] = "none"
      BY <2>2 DEF BookInv, CallsAskInOrder
    <2>4. QED
      BY <2>1, <2>3 DEF BookInv, TypeOK
  <1>3. CASE EndTurn
    <2>1. \A name \in open : phase[waiters[name]] = "waiting"
      BY DEF BookInv, TypeOK, OpenHasItsWaiter
    <2>2. QED
      BY <1>3, <2>1 DEF EndTurn
  <1>4. CASE Release
    BY <1>4 DEF Release, Listens
  <1> HIDE DEF Once
  <1>5. BeginTurn \/ AnswerAgain \/ CompleteTurn => Once
    BY <1>1 DEF BeginTurn, AnswerAgain, CompleteTurn, callVars
  <1>6. ASSUME NEW name \in Names, NEW answer \in Answers, Settle(name, answer)
        PROVE  Once
    BY <1>1, <1>6 DEF Settle, callVars
  <1>7. CASE UNCHANGED vars
    BY <1>1, <1>7 DEF vars
  <1>8. QED
    BY <1>2, <1>3, <1>4, <1>5, <1>6, <1>7 DEF Next, ClientAnswers

\* A call hears of its callback once: an answer that arrives after the turn
\* dropped the call changes nothing of it, nor does a second answer.
THEOREM CallsHearOnce == Spec => HearsOnce
  <1>1. BookInv /\ [Next]_vars =>
          [\A c \in Calls : phase[c] \in {"resumed", "dropped"} =>
             phase'[c] = phase[c] /\ (got[c] # NoAnswer => got'[c] = got[c])]_vars
    BY HeardStays
  <1>2. QED
    BY <1>1, BookInvHolds, PTL DEF Spec, HearsOnce
=============================================================================

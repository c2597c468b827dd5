-------------------------- MODULE ConversationProofs --------------------------
(***************************************************************************)
(* What a session says, for any number of processes, messages, calls and   *)
(* rounds: whatever turns, compactions, handlers and clients do to its      *)
(* conversation, the calls of an answer have their results and what the    *)
(* person sent reaches the model, in memory and on disk.                    *)
(***************************************************************************)
EXTENDS SavedSessionProofs, SequenceTheorems, FiniteSetTheorems

-----------------------------------------------------------------------------
(* Messages, and the conversations they make.                               *)

LEMMA Fields ==
    /\ \A n : User(n).role = "user" /\ User(n).id = n
    /\ Injected.role = "injected"
    /\ \A t, r, k : /\ Answer(t, r, k).role = "answer"
                    /\ Answer(t, r, k).turn = t /\ Answer(t, r, k).round = r
                    /\ Answer(t, r, k).calls = k
    /\ \A t, r, i : /\ Result(t, r, i).role = "result"
                    /\ Result(t, r, i).turn = t /\ Result(t, r, i).round = r
  BY DEF User, Injected, Answer, Result

LEMMA MessageKinds ==
    ASSUME NEW m \in Messages
    PROVE  \/ m.role = "user" /\ m.id \in 1..MaxGiven /\ m = User(m.id)
           \/ m.role = "injected" /\ m = Injected
           \/ /\ m.role = "answer" /\ m.turn \in 1..MaxGiven
              /\ m.round \in 1..MaxIterations /\ m.calls \in 0..MaxCalls
           \/ m.role = "result" /\ m.turn \in 1..MaxGiven /\ m.round \in 1..MaxIterations
  BY Fields DEF Messages

\* One conversation begins with the other.
Begins(old, new) ==
    /\ old \in Seq(Messages) /\ new \in Seq(Messages)
    /\ Len(old) <= Len(new)
    /\ \A i \in DOMAIN old : new[i] = old[i]

Added(old, new) == DOMAIN new \ DOMAIN old

LEMMA Joined ==
    ASSUME NEW old \in Seq(Messages), NEW ms \in Seq(Messages)
    PROVE  /\ Begins(old, old \o ms)
           /\ Len(old \o ms) = Len(old) + Len(ms)
           /\ \A i \in DOMAIN ms : /\ Len(old) + i \in Added(old, old \o ms)
                                   /\ (old \o ms)[Len(old) + i] = ms[i]
           /\ \A i \in Added(old, old \o ms) :
                  /\ i - Len(old) \in DOMAIN ms
                  /\ (old \o ms)[i] = ms[i - Len(old)]
  BY ConcatProperties DEF Begins, Added

LEMMA AddedLater ==
    ASSUME NEW old, NEW new, Begins(old, new)
    PROVE  /\ \A i \in Added(old, new) : i \in Int /\ i > Len(old) /\ i <= Len(new)
           /\ \A i \in DOMAIN old : i \in Int /\ 1 <= i /\ i <= Len(old) /\ i \in DOMAIN new
           /\ \A i \in DOMAIN new : i \in DOMAIN old \/ i \in Added(old, new)
           /\ Len(old) \in Nat /\ Len(new) \in Nat
  <1>1. /\ Len(old) \in Nat /\ Len(new) \in Nat /\ Len(old) <= Len(new)
        /\ DOMAIN old = 1..Len(old) /\ DOMAIN new = 1..Len(new)
    BY DEF Begins
  <1>2. \A i \in DOMAIN old : i \in 1..Len(old) /\ i \in DOMAIN new
    BY <1>1
  <1>3. \A i \in Added(old, new) : i \in 1..Len(new) /\ i \notin 1..Len(old)
    BY <1>1 DEF Added
  <1>4. \A i \in DOMAIN new : i \in DOMAIN old \/ i \in Added(old, new)
    BY DEF Added
  <1>5. \A i \in Added(old, new) : i \in Int /\ i > Len(old) /\ i <= Len(new)
    BY <1>1, <1>3
  <1>6. \A i \in DOMAIN old : i \in Int /\ 1 <= i /\ i <= Len(old) /\ i \in DOMAIN new
    BY <1>1, <1>2
  <1>7. QED
    BY <1>1, <1>4, <1>5, <1>6

-----------------------------------------------------------------------------
(* What joins a conversation leaves what was answered answered.             *)

LEMMA ResultsStay ==
    ASSUME NEW old, NEW new, Begins(old, new),
           NEW i \in DOMAIN old, HasResults(old, i),
           \A r \in Added(old, new) : ~ResultOf(new[r], old[i])
    PROVE  HasResults(new, i)
  <1>1. PICK j \in i..Len(old) : ResultsBehind(old, i, j)
    BY DEF HasResults
  <1>2. j \in i..Len(new) /\ new[i] = old[i]
    BY DEF Begins
  <1>3. \A c \in 1..old[i].calls :
            j + c \in DOMAIN new /\ new[j + c] = Result(old[i].turn, old[i].round, c)
    <2> SUFFICES ASSUME NEW c \in 1..old[i].calls
                 PROVE  j + c \in DOMAIN new
                        /\ new[j + c] = Result(old[i].turn, old[i].round, c)
      OBVIOUS
    <2>1. j + c \in DOMAIN old /\ old[j + c] = Result(old[i].turn, old[i].round, c)
      BY <1>1 DEF ResultsBehind
    <2>2. QED
      BY <2>1, AddedLater DEF Begins
  <1>4. \A r \in DOMAIN new : ResultOf(new[r], old[i]) => r - j \in 1..old[i].calls
    <2> SUFFICES ASSUME NEW r \in DOMAIN new, ResultOf(new[r], old[i])
                 PROVE  r - j \in 1..old[i].calls
      OBVIOUS
    <2>1. r \in DOMAIN old
      BY AddedLater
    <2>2. QED
      BY <1>1, <2>1 DEF ResultsBehind, Begins
  <1>5. QED
    BY <1>2, <1>3, <1>4 DEF HasResults, ResultsBehind

LEMMA CutOffStays ==
    ASSUME NEW old, NEW new, Begins(old, new), NEW i \in DOMAIN old, CutOff(old, i),
           \A r \in Added(old, new) :
               ~ResultOf(new[r], old[i]) /\ (new[r].role = "answer" => new[r].turn # old[i].turn)
    PROVE  CutOff(new, i)
  BY AddedLater DEF CutOff, Begins

LEMMA FollowingStays ==
    ASSUME NEW old, NEW new, Begins(old, new), NEW i \in DOMAIN old, FollowsItsAnswer(old, i)
    PROVE  FollowsItsAnswer(new, i)
  <1>1. PICK a \in 1..(i - 1) :
            /\ old[a].role = "answer" /\ ResultOf(old[i], old[a])
            /\ \A b \in (a + 1)..(i - 1) : old[b].role \in {"result", "injected"}
    BY DEF FollowsItsAnswer
  <1>2. i \in Int /\ 1 <= i /\ i <= Len(old) /\ \A b \in 1..i : new[b] = old[b]
    BY DEF Begins
  <1>3. /\ a \in Int /\ 1 <= a /\ a < i
        /\ new[a] = old[a] /\ new[i] = old[i]
    BY <1>2
  <1>4. \A b \in (a + 1)..(i - 1) : b \in 1..i /\ new[b] = old[b]
    BY <1>2, <1>3
  <1>5. QED
    BY <1>1, <1>3, <1>4 DEF FollowsItsAnswer

-----------------------------------------------------------------------------
(* What is true of a session's body wherever one is held or saved.          *)

\* What a message names was given.
Dated(conv, given) ==
    \A i \in DOMAIN conv :
        /\ conv[i].role = "user" => conv[i].id <= given
        /\ conv[i].role \in {"answer", "result"} => conv[i].turn <= given

\* The answers of a turn are numbered in order.
AnswersInOrder(conv) ==
    \A i, j \in DOMAIN conv :
        /\ i < j /\ conv[i].role = "answer" /\ conv[j].role = "answer"
        /\ conv[i].turn = conv[j].turn
        => conv[i].round < conv[j].round

Sound(c) ==
    /\ c \in SessionBodies
    /\ Dated(c.conversation, c.given)
    /\ OwnInOrder(c.conversation)
    /\ CallsAreAnswered(c.conversation)
    /\ AnswersInOrder(c.conversation)

\* The answers of turn t are at most r, and have their results.
TurnAnswered(conv, t, r) ==
    \A i \in DOMAIN conv :
        conv[i].role = "answer" /\ conv[i].turn = t =>
            conv[i].round <= r /\ HasResults(conv, i)

\* The last answer is the r-th of turn t, and waits for its k results.
AwaitsResults(conv, t, r, k) ==
    \E a \in DOMAIN conv :
        /\ conv[a] = Answer(t, r, k)
        /\ \A b \in DOMAIN conv : b > a => conv[b] = Injected
        /\ \A b \in DOMAIN conv : ~ResultOf(conv[b], conv[a])

LEMMA NothingIsSound == Sound(NothingSaid)
  <1>1. NothingSaid.conversation = <<>> /\ NothingSaid.given = 0
    BY DEF NothingSaid
  <1>2. NothingSaid \in SessionBodies
    BY SavedConstants DEF NothingSaid, SessionBodies
  <1>3. QED
    BY <1>1, <1>2 DEF Sound, Dated, OwnInOrder, Own, CallsAreAnswered, AnswersInOrder

\* Messages of the person's or in their name.
QuietOnes(old, new) ==
    /\ Begins(old, new)
    /\ \A i \in Added(old, new) : new[i].role \in {"user", "injected"}

LEMMA QuietPush ==
    ASSUME NEW c, Sound(c), NEW new, QuietOnes(c.conversation, new),
           NEW given \in 0..MaxGiven, c.given <= given,
           Dated(new, given), OwnInOrder(new)
    PROVE  Sound([conversation |-> new, given |-> given])
  <1> DEFINE old == c.conversation
  <1>1. old \in Seq(Messages) /\ new \in Seq(Messages) /\ Begins(old, new)
    BY DEF Sound, SessionBodies, QuietOnes, Begins
  <1>2. \A i \in DOMAIN old : new[i] = old[i] /\ i \in DOMAIN new
    BY <1>1, AddedLater DEF Begins
  <1>3. \A i \in DOMAIN new : new[i].role \in {"answer", "result"} => i \in DOMAIN old
    BY <1>1, AddedLater DEF QuietOnes
  <1>4. CallsAreAnswered(new)
    <2> SUFFICES ASSUME NEW i \in DOMAIN new
                 PROVE  /\ new[i].role = "result" => FollowsItsAnswer(new, i)
                        /\ new[i].role = "answer" => HasResults(new, i) \/ CutOff(new, i)
      BY DEF CallsAreAnswered
    <2>1. \A r \in Added(old, new) : new[r].role \notin {"answer", "result"}
      BY DEF QuietOnes
    <2>2. CASE new[i].role = "result"
      <3>1. i \in DOMAIN old /\ FollowsItsAnswer(old, i)
        BY <1>2, <1>3, <2>2 DEF Sound, CallsAreAnswered
      <3>2. QED
        BY <1>1, <2>2, <3>1, FollowingStays
    <2>3. CASE new[i].role = "answer"
      <3>1. i \in DOMAIN old /\ (HasResults(old, i) \/ CutOff(old, i))
        BY <1>2, <1>3, <2>3 DEF Sound, CallsAreAnswered
      <3>2. QED
        BY <1>1, <2>1, <2>3, <3>1, ResultsStay, CutOffStays DEF ResultOf
    <2>4. QED
      BY <2>2, <2>3
  <1>5. AnswersInOrder(new)
    <2> SUFFICES ASSUME NEW i \in DOMAIN new, NEW j \in DOMAIN new, i < j,
                        new[i].role = "answer", new[j].role = "answer",
                        new[i].turn = new[j].turn
                 PROVE  new[i].round < new[j].round
      BY DEF AnswersInOrder
    <2>1. i \in DOMAIN old /\ j \in DOMAIN old
      BY <1>3
    <2>2. QED
      BY <1>2, <2>1 DEF Sound, AnswersInOrder
  <1>6. [conversation |-> new, given |-> given] \in SessionBodies
    BY <1>1 DEF SessionBodies
  <1>7. QED
    BY <1>4, <1>5, <1>6 DEF Sound

LEMMA QuietKeepsAnswered ==
    ASSUME NEW old, NEW new, QuietOnes(old, new), NEW t, NEW r, TurnAnswered(old, t, r)
    PROVE  TurnAnswered(new, t, r)
  <1> SUFFICES ASSUME NEW i \in DOMAIN new, new[i].role = "answer", new[i].turn = t
               PROVE  new[i].round <= r /\ HasResults(new, i)
    BY DEF TurnAnswered
  <1>1. Begins(old, new) /\ \A n \in Added(old, new) : new[n].role \notin {"answer", "result"}
    BY DEF QuietOnes
  <1>2. i \in DOMAIN old /\ old[i] = new[i]
    BY <1>1, AddedLater DEF Begins
  <1>3. old[i].round <= r /\ HasResults(old, i)
    BY <1>2 DEF TurnAnswered
  <1>4. QED
    BY <1>1, <1>2, <1>3, ResultsStay DEF ResultOf

-----------------------------------------------------------------------------
(* What each handler does to a sound body.                                  *)

LEMMA BodyParts ==
    ASSUME NEW c \in SessionBodies
    PROVE  /\ c.conversation \in Seq(Messages) /\ c.given \in 0..MaxGiven
           /\ c.given \in Int /\ MaxGiven \in Int
           /\ c = [conversation |-> c.conversation, given |-> c.given]
  BY SavedConstants DEF SessionBodies

LEMMA Pushed ==
    ASSUME NEW c \in SessionBodies, NEW ms
    PROVE  Push(c, ms) = [conversation |-> c.conversation \o ms, given |-> c.given]
  <1> DEFINE new == c.conversation \o ms
  <1>1. Push(c, ms) = [c EXCEPT !.conversation = new]
    BY DEF Push
  <1> HIDE DEF new
  <1>2. [c EXCEPT !.conversation = new] = [conversation |-> new, given |-> c.given]
    BY DEF SessionBodies
  <1>3. QED
    BY <1>1, <1>2 DEF new

LEMMA DatedLater ==
    ASSUME NEW conv \in Seq(Messages), NEW given \in Int, NEW later \in Int, given <= later,
           Dated(conv, given)
    PROVE  Dated(conv, later)
  <1> SUFFICES ASSUME NEW i \in DOMAIN conv
               PROVE  /\ conv[i].role = "user" => conv[i].id <= later
                      /\ conv[i].role \in {"answer", "result"} => conv[i].turn <= later
    BY DEF Dated
  <1>1. conv[i] \in Messages
    OBVIOUS
  <1>2. /\ conv[i].role = "user" => conv[i].id \in Int
        /\ conv[i].role \in {"answer", "result"} => conv[i].turn \in Int
    BY <1>1, MessageKinds
  <1>3. QED
    BY <1>2 DEF Dated

LEMMA UserIdsAre ==
    ASSUME NEW conv, NEW n
    PROVE  n \in UserIds(conv) <=> \E i \in Own(conv) : conv[i].id = n
  BY DEF UserIds, Own, ToSet, IsUser

LEMMA GivenIsSound ==
    ASSUME NEW c, Sound(c), c.given < MaxGiven
    PROVE  /\ Sound(GiveMessage(c)) /\ GiveMessage(c).given = c.given + 1
           /\ GiveMessage(c).conversation = c.conversation
  <1>1. c \in SessionBodies
    BY DEF Sound
  <1>2. GiveMessage(c) = [conversation |-> c.conversation, given |-> c.given + 1]
    BY <1>1 DEF SessionBodies, GiveMessage
  <1>3. c.given + 1 \in 0..MaxGiven /\ c.conversation \in Seq(Messages)
    BY <1>1, BodyParts
  <1>4. Dated(c.conversation, c.given + 1)
    BY <1>1, BodyParts, DatedLater DEF Sound
  <1>5. QED
    BY <1>2, <1>3, <1>4 DEF Sound, SessionBodies

\* One more message of the person's, or in their name.
LEMMA NotifiedIsSound ==
    ASSUME NEW c, Sound(c)
    PROVE  /\ Sound(Notified(c)) /\ Notified(c).given = c.given
           /\ QuietOnes(c.conversation, Notified(c).conversation)
           /\ \A i \in Added(c.conversation, Notified(c).conversation) :
                  Notified(c).conversation[i] = Injected
           /\ \A i \in Own(Notified(c).conversation) :
                  i \in Own(c.conversation)
                  /\ Notified(c).conversation[i] = c.conversation[i]
  <1> DEFINE old == c.conversation
             ms  == <<Injected>>
             new == old \o ms
  <1>1. c \in SessionBodies /\ old \in Seq(Messages) /\ c.given \in 0..MaxGiven
    BY BodyParts DEF Sound
  <1>2. Notified(c) = [conversation |-> new, given |-> c.given]
    BY <1>1, Pushed DEF Notified
  <1>3. ms \in Seq(Messages) /\ \A i \in DOMAIN ms : ms[i] = Injected
    BY DEF Messages
  <1> HIDE DEF ms
  <1>4. Begins(old, new) /\ \A i \in Added(old, new) : new[i] = Injected
    <2>1. Begins(old, new)
      BY <1>1, <1>3, Joined
    <2>2. \A i \in Added(old, new) : i - Len(old) \in DOMAIN ms /\ new[i] = ms[i - Len(old)]
      BY <1>1, <1>3, Joined
    <2>3. QED
      BY <1>3, <2>1, <2>2
  <1> HIDE DEF new
  <1>5. QuietOnes(old, new)
    BY <1>4, Fields DEF QuietOnes
  <1>6. \A i \in DOMAIN new : new[i].role # "injected" => i \in DOMAIN old /\ new[i] = old[i]
    BY <1>4, Fields, AddedLater DEF Begins
  <1>7. Dated(new, c.given)
    BY <1>6 DEF Sound, Dated
  <1>8. \A i \in Own(new) : i \in Own(old) /\ new[i] = old[i]
    BY <1>6 DEF Own, IsUser
  <1>9. OwnInOrder(new)
    BY <1>8 DEF Sound, OwnInOrder
  <1>10. c.given <= c.given
    BY <1>1
  <1>11. Sound([conversation |-> new, given |-> c.given])
    BY <1>1, <1>5, <1>7, <1>9, <1>10, QuietPush
  <1>12. Notified(c).conversation = new /\ Notified(c).given = c.given
    BY <1>2
  <1>13. QED
    BY <1>2, <1>4, <1>5, <1>8, <1>11, <1>12

\* Steering that waited, or the message a turn begins with: given later than
\* all of the person's that the conversation holds.
LEMMA SteeredIsSound ==
    ASSUME NEW c, Sound(c), NEW s \in Seq(1..MaxGiven), Increasing(s),
           NEW given \in 0..MaxGiven, c.given <= given,
           \A i \in DOMAIN s : s[i] <= given,
           \A i \in Own(c.conversation), j \in DOMAIN s : c.conversation[i].id < s[j]
    PROVE  LET new == c.conversation \o [i \in DOMAIN s |-> User(s[i])] IN
           /\ Sound([conversation |-> new, given |-> given])
           /\ QuietOnes(c.conversation, new)
           /\ UserIds(new) = UserIds(c.conversation) \union ToSet(s)
  <1> DEFINE old == c.conversation
             ms  == [i \in DOMAIN s |-> User(s[i])]
             new == old \o ms
  <1>1. c \in SessionBodies /\ old \in Seq(Messages) /\ c.given \in 0..MaxGiven
    BY BodyParts DEF Sound
  <1>2. /\ ms \in Seq(Messages) /\ DOMAIN ms = DOMAIN s
        /\ \A i \in DOMAIN s : ms[i] = User(s[i])
    <2>1. DOMAIN s = 1..Len(s) /\ Len(s) \in Nat
      OBVIOUS
    <2>2. \A i \in 1..Len(s) : User(s[i]) \in Messages
      <3>1. \A i \in 1..Len(s) : s[i] \in 1..MaxGiven
        BY ElementOfSeq
      <3>2. \A n \in 1..MaxGiven : User(n) \in Messages
        BY DEF Messages
      <3>3. QED
        BY <3>1, <3>2
    <2>3. ms = [i \in 1..Len(s) |-> User(s[i])]
      BY <2>1
    <2>4. QED
      BY <2>1, <2>2, <2>3
  <1> HIDE DEF ms
  <1>3. /\ Begins(old, new)
        /\ \A i \in DOMAIN s : Len(old) + i \in Added(old, new) /\ new[Len(old) + i] = User(s[i])
        /\ \A i \in Added(old, new) :
               i - Len(old) \in DOMAIN s /\ new[i] = User(s[i - Len(old)])
    <2>1. Begins(old, new)
      BY <1>1, <1>2, Joined
    <2>2. \A i \in DOMAIN ms : Len(old) + i \in Added(old, new) /\ new[Len(old) + i] = ms[i]
      BY <1>1, <1>2, Joined
    <2>3. \A i \in Added(old, new) : i - Len(old) \in DOMAIN ms /\ new[i] = ms[i - Len(old)]
      BY <1>1, <1>2, Joined
    <2>4. QED
      BY <1>2, <2>1, <2>2, <2>3
  <1> HIDE DEF new
  <1>4. QuietOnes(old, new)
    BY <1>3, Fields DEF QuietOnes
  <1>5. \A i \in DOMAIN new :
            \/ i \in DOMAIN old /\ new[i] = old[i]
            \/ i \in Added(old, new)
    BY <1>3, AddedLater DEF Begins
  <1>6. \A i \in Added(old, new) :
            /\ i - Len(old) \in DOMAIN s /\ new[i].role = "user"
            /\ new[i].id = s[i - Len(old)]
    BY <1>3, Fields
  <1>7. Dated(new, given)
    <2> SUFFICES ASSUME NEW i \in DOMAIN new
                 PROVE  /\ new[i].role = "user" => new[i].id <= given
                        /\ new[i].role \in {"answer", "result"} => new[i].turn <= given
      BY DEF Dated
    <2>1. CASE i \in DOMAIN old /\ new[i] = old[i]
      <3>1. Dated(old, given)
        BY <1>1, BodyParts, DatedLater DEF Sound
      <3>2. QED
        BY <2>1, <3>1 DEF Dated
    <2>2. CASE i \in Added(old, new)
      BY <1>6, <2>2
    <2>3. QED
      BY <1>5, <2>1, <2>2
  <1>8. OwnInOrder(new)
    <2> SUFFICES ASSUME NEW i \in Own(new), NEW j \in Own(new), i < j
                 PROVE  new[i].id < new[j].id
      BY DEF OwnInOrder
    <2>1. i \in DOMAIN new /\ j \in DOMAIN new /\ new[i].role = "user" /\ new[j].role = "user"
      BY DEF Own, IsUser
    <2>2. CASE j \in DOMAIN old /\ new[j] = old[j]
      <3>1. j \in Int /\ j <= Len(old) /\ Len(old) \in Int
        BY <1>3, <2>2, AddedLater
      <3>2. i \notin Added(old, new)
        BY <1>3, <3>1, AddedLater
      <3>3. i \in DOMAIN old /\ new[i] = old[i]
        BY <1>5, <2>1, <3>2
      <3>4. QED
        BY <2>1, <2>2, <3>3 DEF Sound, OwnInOrder, Own, IsUser
    <2>3. CASE j \in Added(old, new) /\ i \in DOMAIN old /\ new[i] = old[i]
      BY <1>6, <2>1, <2>3 DEF Own, IsUser
    <2>4. CASE j \in Added(old, new) /\ i \in Added(old, new)
      <3>1. i \in Int /\ j \in Int /\ Len(old) \in Int
        BY <1>3, <2>4, AddedLater
      <3>2. i - Len(old) < j - Len(old)
        BY <3>1
      <3>3. QED
        BY <1>6, <2>4, <3>2 DEF Increasing
    <2>5. QED
      BY <1>5, <2>1, <2>2, <2>3, <2>4
  <1>9. ASSUME NEW n PROVE n \in UserIds(new) <=> n \in UserIds(old) \union ToSet(s)
    <2>1. n \in UserIds(new) => n \in UserIds(old) \union ToSet(s)
      <3>1. SUFFICES ASSUME NEW i \in Own(new), new[i].id = n
                     PROVE  n \in UserIds(old) \union ToSet(s)
        BY UserIdsAre, Zenon
      <3>2. i \in DOMAIN new /\ new[i].role = "user"
        BY DEF Own, IsUser
      <3>3. CASE i \in DOMAIN old /\ new[i] = old[i]
        BY <3>1, <3>2, <3>3, UserIdsAre DEF Own, IsUser
      <3>4. CASE i \in Added(old, new)
        BY <1>6, <3>1, <3>4 DEF ToSet
      <3>5. QED
        BY <1>5, <3>2, <3>3, <3>4
    <2>2. n \in UserIds(old) => n \in UserIds(new)
      <3>1. \A i \in Own(old) : i \in Own(new) /\ new[i] = old[i]
        BY <1>3, AddedLater DEF Own, IsUser, Begins
      <3>2. (\E i \in Own(old) : old[i].id = n) => \E i \in Own(new) : new[i].id = n
        BY <3>1
      <3>3. /\ n \in UserIds(old) => \E i \in Own(old) : old[i].id = n
            /\ (\E i \in Own(new) : new[i].id = n) => n \in UserIds(new)
        BY UserIdsAre, Zenon
      <3>4. QED
        BY <3>2, <3>3
    <2>3. n \in ToSet(s) => n \in UserIds(new)
      <3>1. SUFFICES ASSUME NEW i \in DOMAIN s, s[i] = n
                     PROVE  n \in UserIds(new)
        BY DEF ToSet
      <3>2. Len(old) + i \in DOMAIN new /\ new[Len(old) + i] = User(n)
        BY <1>3, <3>1 DEF Added
      <3>3. QED
        <4>1. Len(old) + i \in Own(new) /\ new[Len(old) + i].id = n
          BY <3>2, Fields DEF Own, IsUser
        <4>2. QED
          BY <4>1, UserIdsAre, Zenon
    <2>4. QED
      BY <2>1, <2>2, <2>3
  <1>10. Sound([conversation |-> new, given |-> given])
    BY <1>4, <1>7, <1>8, QuietPush
  <1>11. UserIds(new) = UserIds(old) \union ToSet(s)
    BY <1>9
  <1>12. QED
    BY <1>4, <1>10, <1>11 DEF new, ms

\* Of what is added, only the person's messages change whose the conversation is.
OwnStay(old, new) == \A i \in Own(new) : i \in Own(old) /\ new[i] = old[i]

LEMMA OwnStayInOrder ==
    ASSUME NEW old, NEW new, OwnStay(old, new)
    PROVE  /\ OwnInOrder(old) => OwnInOrder(new)
           /\ UserIds(new) \subseteq UserIds(old)
  <1>1. OwnInOrder(old) => OwnInOrder(new)
    BY DEF OwnStay, OwnInOrder
  <1>2. ASSUME NEW n \in UserIds(new) PROVE n \in UserIds(old)
    <2>1. PICK i \in Own(new) : new[i].id = n
      BY <1>2, UserIdsAre, Zenon
    <2>2. \E j \in Own(old) : old[j].id = n
      BY <2>1 DEF OwnStay
    <2>3. QED
      BY <2>2, UserIdsAre, Zenon
  <1>3. QED
    BY <1>1, <1>2

LEMMA UserIdsStay ==
    ASSUME NEW old, NEW new, Begins(old, new)
    PROVE  UserIds(old) \subseteq UserIds(new)
  <1> SUFFICES ASSUME NEW n \in UserIds(old)
               PROVE  n \in UserIds(new)
    OBVIOUS
  <1>1. PICK i \in Own(old) : old[i].id = n
    BY UserIdsAre, Zenon
  <1>2. i \in Own(new) /\ new[i].id = n
    BY <1>1, AddedLater DEF Own, IsUser, Begins
  <1>3. QED
    BY <1>2, UserIdsAre, Zenon

\* The next answer of a turn whose calls all have their results.
LEMMA AnsweredIsSound ==
    ASSUME NEW c, Sound(c), NEW t \in 1..MaxGiven, t <= c.given,
           NEW r \in 1..MaxIterations, NEW k \in 0..MaxCalls,
           TurnAnswered(c.conversation, t, r - 1)
    PROVE  /\ Sound(Answered(c, t, r, k)) /\ Answered(c, t, r, k).given = c.given
           /\ OwnStay(c.conversation, Answered(c, t, r, k).conversation)
           /\ UserIds(c.conversation) \subseteq UserIds(Answered(c, t, r, k).conversation)
           /\ AwaitsResults(Answered(c, t, r, k).conversation, t, r, k)
  <1> DEFINE old == c.conversation
             ms  == <<Answer(t, r, k)>>
             new == old \o ms
             end == Len(old) + 1
  <1>1. c \in SessionBodies /\ old \in Seq(Messages) /\ c.given \in Int
    BY BodyParts DEF Sound
  <1>2. Answered(c, t, r, k) = [conversation |-> new, given |-> c.given]
    BY <1>1, Pushed DEF Answered
  <1>3. ms \in Seq(Messages) /\ DOMAIN ms = {1} /\ ms[1] = Answer(t, r, k)
    BY DEF Messages
  <1> HIDE DEF ms
  <1>4. /\ Begins(old, new)
        /\ end \in Added(old, new) /\ new[end] = Answer(t, r, k)
        /\ \A i \in Added(old, new) : i = end
    <2>1. Begins(old, new)
      BY <1>1, <1>3, Joined
    <2>2. \A i \in DOMAIN ms : Len(old) + i \in Added(old, new) /\ new[Len(old) + i] = ms[i]
      BY <1>1, <1>3, Joined
    <2>3. \A i \in Added(old, new) : i - Len(old) \in DOMAIN ms
      BY <1>1, <1>3, Joined
    <2>4. \A i \in Added(old, new) : i \in Int /\ Len(old) \in Int
      BY <2>1, AddedLater
    <2>5. \A i \in Added(old, new) : i - Len(old) = 1
      BY <1>3, <2>3
    <2>6. end \in Added(old, new) /\ new[end] = Answer(t, r, k)
      BY <1>3, <2>2
    <2>7. \A i \in Added(old, new) : i = end
      BY <2>4, <2>5
    <2>8. QED
      BY <2>1, <2>6, <2>7
  <1> HIDE DEF new
  <1>5. /\ \A i \in DOMAIN new : (i \in DOMAIN old /\ new[i] = old[i]) \/ i = end
        /\ \A i \in DOMAIN old : i \in DOMAIN new /\ i \in Int /\ i < end
        /\ end \in DOMAIN new /\ end \in Int
        /\ new \in Seq(Messages)
    <2>1. /\ \A i \in DOMAIN new : i \in DOMAIN old \/ i \in Added(old, new)
          /\ \A i \in DOMAIN old : i \in DOMAIN new /\ i \in Int /\ i <= Len(old)
          /\ Len(old) \in Nat
      BY <1>4, AddedLater
    <2>2. QED
      BY <1>4, <2>1 DEF Begins, Added
  <1>6. /\ new[end].role = "answer" /\ new[end].turn = t /\ new[end].round = r
        /\ ~ResultOf(new[end], new[end])
    BY <1>4, Fields DEF ResultOf
  <1>7. OwnStay(old, new)
    BY <1>5, <1>6 DEF OwnStay, Own, IsUser
  <1>8. UserIds(old) \subseteq UserIds(new)
    BY <1>4, UserIdsStay
  <1>9. Dated(new, c.given)
    BY <1>5, <1>6 DEF Sound, Dated
  \* No result of the answer came before it.
  <1>10. \A i \in DOMAIN new : ~ResultOf(new[i], new[end])
    <2> SUFFICES ASSUME NEW i \in DOMAIN old, ResultOf(old[i], new[end])
                 PROVE  FALSE
      BY <1>5, <1>6
    <2>1. FollowsItsAnswer(old, i)
      BY DEF Sound, CallsAreAnswered, ResultOf
    <2>2. PICK a \in 1..(i - 1) : old[a].role = "answer" /\ ResultOf(old[i], old[a])
      BY <2>1 DEF FollowsItsAnswer
    <2>3. a \in DOMAIN old
      BY <1>1, <2>2
    <2>4. old[a].turn = t /\ old[a].round = r
      BY <1>6, <2>2 DEF ResultOf
    <2>5. r <= r - 1
      BY <2>2, <2>3, <2>4 DEF TurnAnswered
    <2>6. QED
      BY <2>5
  <1>11. CallsAreAnswered(new)
    <2> SUFFICES ASSUME NEW i \in DOMAIN new
                 PROVE  /\ new[i].role = "result" => FollowsItsAnswer(new, i)
                        /\ new[i].role = "answer" => HasResults(new, i) \/ CutOff(new, i)
      BY DEF CallsAreAnswered
    <2>1. CASE i = end
      <3>1. \A j \in DOMAIN new : ~(j > end)
        BY <1>5
      <3>2. CutOff(new, end)
        BY <1>10, <3>1 DEF CutOff
      <3>3. QED
        BY <1>6, <2>1, <3>2
    <2>2. CASE i \in DOMAIN old /\ new[i] = old[i] /\ new[i].role = "result"
      BY <1>4, <2>2, FollowingStays DEF Sound, CallsAreAnswered
    <2>3. CASE i \in DOMAIN old /\ new[i] = old[i] /\ new[i].role = "answer"
      <3>1. \A x \in Added(old, new) : ~ResultOf(new[x], old[i])
        BY <1>4, <1>6 DEF ResultOf
      <3>2. CASE HasResults(old, i)
        BY <1>4, <2>3, <3>1, <3>2, ResultsStay
      <3>3. CASE ~HasResults(old, i)
        <4>1. CutOff(old, i) /\ old[i].turn # t
          BY <2>3, <3>3 DEF Sound, CallsAreAnswered, TurnAnswered
        <4>2. \A x \in Added(old, new) : new[x].turn # old[i].turn
          BY <1>4, <1>6, <4>1
        <4>3. QED
          BY <1>4, <2>3, <3>1, <4>1, <4>2, CutOffStays
      <3>4. QED
        BY <3>2, <3>3
    <2>4. QED
      BY <1>5, <2>1, <2>2, <2>3
  <1>12. AnswersInOrder(new)
    <2> SUFFICES ASSUME NEW i \in DOMAIN new, NEW j \in DOMAIN new, i < j,
                        new[i].role = "answer", new[j].role = "answer",
                        new[i].turn = new[j].turn
                 PROVE  new[i].round < new[j].round
      BY DEF AnswersInOrder
    <2>1. i \in DOMAIN old /\ new[i] = old[i]
      BY <1>5
    <2>2. CASE j = end
      <3>1. old[i].round <= r - 1 /\ old[i].round \in Int
        <4>1. old[i] \in Messages
          BY <1>1, <2>1
        <4>2. QED
          BY <1>6, <2>1, <2>2, <4>1, MessageKinds DEF TurnAnswered
      <3>2. QED
        BY <1>6, <2>1, <2>2, <3>1
    <2>3. CASE j \in DOMAIN old /\ new[j] = old[j]
      BY <2>1, <2>3 DEF Sound, AnswersInOrder
    <2>4. QED
      BY <1>5, <2>2, <2>3
  <1>13. AwaitsResults(new, t, r, k)
    <2>1. \A b \in DOMAIN new : ~(b > end)
      BY <1>5
    <2>2. QED
      BY <1>4, <1>5, <1>10, <2>1 DEF AwaitsResults
  <1>14. Sound([conversation |-> new, given |-> c.given])
    <2>1. [conversation |-> new, given |-> c.given] \in SessionBodies
      BY <1>1, <1>5 DEF SessionBodies
    <2>2. OwnInOrder(new)
      BY <1>7, OwnStayInOrder DEF Sound
    <2>3. QED
      BY <1>9, <1>11, <1>12, <2>1, <2>2 DEF Sound
  <1>15. Answered(c, t, r, k).conversation = new /\ Answered(c, t, r, k).given = c.given
    BY <1>2
  <1>16. QED
    BY <1>2, <1>7, <1>8, <1>13, <1>14, <1>15
\* The results of the answer that waits for them, in its order.
LEMMA ResultsAreSound ==
    ASSUME NEW c, Sound(c), NEW t \in 1..MaxGiven, NEW r \in 1..MaxIterations,
           NEW k \in 0..MaxCalls, AwaitsResults(c.conversation, t, r, k)
    PROVE  /\ Sound(ResultsInOrder(c, t, r, k))
           /\ ResultsInOrder(c, t, r, k).given = c.given
           /\ OwnStay(c.conversation, ResultsInOrder(c, t, r, k).conversation)
           /\ UserIds(c.conversation) \subseteq UserIds(ResultsInOrder(c, t, r, k).conversation)
           /\ TurnAnswered(ResultsInOrder(c, t, r, k).conversation, t, r)
  <1> DEFINE old == c.conversation
             ms  == [i \in 1..k |-> Result(t, r, i)]
             new == old \o ms
             n   == Len(old)
  <1>1. /\ c \in SessionBodies /\ old \in Seq(Messages) /\ c.given \in Int
        /\ n \in Nat /\ DOMAIN old = 1..n /\ k \in Nat
    BY BodyParts, SavedConstants DEF Sound
  <1>2. ResultsInOrder(c, t, r, k) = [conversation |-> new, given |-> c.given]
    BY <1>1, Pushed DEF ResultsInOrder
  <1>3. ms \in Seq(Messages) /\ DOMAIN ms = 1..k /\ \A i \in 1..k : ms[i] = Result(t, r, i)
    <2>1. \A i \in 1..k : Result(t, r, i) \in Messages
      <3> SUFFICES ASSUME NEW i \in 1..k PROVE Result(t, r, i) \in Messages
        OBVIOUS
      <3>1. i \in 1..MaxCalls
        BY <1>1, SavedConstants
      <3>2. QED
        BY <3>1 DEF Messages
    <2>2. QED
      BY <1>1, <2>1
  <1> HIDE DEF ms
  <1>4. /\ Begins(old, new)
        /\ \A i \in 1..k : n + i \in Added(old, new) /\ new[n + i] = Result(t, r, i)
        /\ \A i \in Added(old, new) : i - n \in 1..k /\ new[i] = Result(t, r, i - n)
    <2>1. Begins(old, new)
      BY <1>1, <1>3, Joined
    <2>2. \A i \in DOMAIN ms : n + i \in Added(old, new) /\ new[n + i] = ms[i]
      BY <1>1, <1>3, Joined
    <2>3. \A i \in Added(old, new) : i - n \in DOMAIN ms /\ new[i] = ms[i - n]
      BY <1>1, <1>3, Joined
    <2>4. QED
      BY <1>3, <2>1, <2>2, <2>3
  <1> HIDE DEF new
  <1> HIDE DEF n
  <1>5. /\ \A i \in DOMAIN new : (i \in DOMAIN old /\ new[i] = old[i]) \/ i \in Added(old, new)
        /\ \A i \in DOMAIN old : i \in DOMAIN new /\ i \in Int /\ 1 <= i /\ i <= n /\ new[i] = old[i]
        /\ \A i \in Added(old, new) : i \in DOMAIN new /\ i \in Int /\ i > n
        /\ new \in Seq(Messages) /\ Len(new) \in Nat /\ n <= Len(new)
    <2>1. /\ \A i \in DOMAIN new : i \in DOMAIN old \/ i \in Added(old, new)
          /\ \A i \in DOMAIN old : i \in DOMAIN new /\ i \in Int /\ 1 <= i /\ i <= Len(old)
          /\ \A i \in Added(old, new) : i \in Int /\ i > Len(old)
          /\ Len(new) \in Nat
      BY <1>4, AddedLater
    <2>2. QED
      BY <1>4, <2>1 DEF Begins, Added, n
  <1>6. \A i \in Added(old, new) :
            /\ i - n \in 1..k /\ new[i].role = "result" /\ new[i].turn = t /\ new[i].round = r
            /\ new[i] = Result(t, r, i - n)
    BY <1>4, Fields
  \* The answer itself.
  <1>7. PICK a \in DOMAIN old :
            /\ old[a] = Answer(t, r, k)
            /\ \A b \in DOMAIN old : b > a => old[b] = Injected
            /\ \A b \in DOMAIN old : ~ResultOf(old[b], old[a])
    BY DEF AwaitsResults
  <1>8. /\ old[a].role = "answer" /\ old[a].turn = t /\ old[a].round = r /\ old[a].calls = k
        /\ new[a] = old[a] /\ a \in DOMAIN new /\ a \in Int /\ 1 <= a /\ a <= n
    BY <1>5, <1>7, Fields
  <1>9. HasResults(new, a)
    <2>1. n \in a..Len(new)
      BY <1>1, <1>5, <1>8
    <2>2. \A x \in 1..k : n + x \in DOMAIN new /\ new[n + x] = Result(t, r, x)
      BY <1>4, <1>5
    <2>3. \A x \in DOMAIN new : ResultOf(new[x], new[a]) => x - n \in 1..k
      BY <1>5, <1>6, <1>7, <1>8
    <2>4. ResultsBehind(new, a, n)
      BY <1>8, <2>2, <2>3 DEF ResultsBehind
    <2>5. QED
      BY <2>1, <2>4 DEF HasResults
  \* Any other answer is an earlier one, of another turn or round.
  <1>10. \A i \in DOMAIN old : old[i].role = "answer" /\ i # a =>
             /\ i < a
             /\ old[i].turn = t => old[i].round < r
    <2> SUFFICES ASSUME NEW i \in DOMAIN old, old[i].role = "answer", i # a
                 PROVE  i < a /\ (old[i].turn = t => old[i].round < r)
      OBVIOUS
    <2>1. i < a
      BY <1>5, <1>7, <1>8, Fields
    <2>2. QED
      BY <1>8, <2>1 DEF Sound, AnswersInOrder
  <1>11. \A i \in DOMAIN old : old[i].role = "answer" /\ i # a =>
             \A x \in Added(old, new) : ~ResultOf(new[x], old[i])
    <2> SUFFICES ASSUME NEW i \in DOMAIN old, old[i].role = "answer", i # a,
                        NEW x \in Added(old, new), ResultOf(new[x], old[i])
                 PROVE  FALSE
      OBVIOUS
    <2>1. old[i].turn = t /\ old[i].round = r
      BY <1>6 DEF ResultOf
    <2>2. r < r
      BY <1>10, <2>1
    <2>3. QED
      BY <2>2
  <1>12. \A i \in DOMAIN old : old[i].role = "answer" /\ i # a =>
             /\ HasResults(new, i) \/ CutOff(new, i)
             /\ old[i].turn = t => HasResults(new, i)
    <2> SUFFICES ASSUME NEW i \in DOMAIN old, old[i].role = "answer", i # a
                 PROVE  /\ HasResults(new, i) \/ CutOff(new, i)
                        /\ old[i].turn = t => HasResults(new, i)
      OBVIOUS
    <2>1. CASE HasResults(old, i)
      BY <1>4, <1>11, <2>1, ResultsStay
    <2>2. CASE ~HasResults(old, i)
      <3>1. CutOff(old, i)
        BY <2>2 DEF Sound, CallsAreAnswered
      <3>2. old[i].turn # t
        BY <1>8, <1>10, <3>1 DEF CutOff
      <3>3. \A x \in Added(old, new) :
                ~ResultOf(new[x], old[i]) /\ (new[x].role = "answer" => new[x].turn # old[i].turn)
        BY <1>6, <1>11
      <3>4. CutOff(new, i)
        BY <1>4, <3>1, <3>3, CutOffStays
      <3>5. QED
        BY <3>2, <3>4
    <2>3. QED
      BY <2>1, <2>2
  <1>13. CallsAreAnswered(new)
    <2> SUFFICES ASSUME NEW i \in DOMAIN new
                 PROVE  /\ new[i].role = "result" => FollowsItsAnswer(new, i)
                        /\ new[i].role = "answer" => HasResults(new, i) \/ CutOff(new, i)
      BY DEF CallsAreAnswered
    <2>1. CASE i \in Added(old, new)
      <3>1. /\ new[i].role = "result" /\ ResultOf(new[i], new[a])
            /\ i \in Int /\ i > n
        BY <1>5, <1>6, <1>8, <2>1 DEF ResultOf
      <3>2. a \in 1..(i - 1)
        BY <1>1, <1>8, <3>1 DEF n
      <3>3. \A b \in (a + 1)..(i - 1) : new[b].role \in {"result", "injected"}
        <4> SUFFICES ASSUME NEW b \in (a + 1)..(i - 1)
                     PROVE  new[b].role \in {"result", "injected"}
          OBVIOUS
        <4>1. b \in DOMAIN new /\ b > a
          <5>1. b \in 1..i /\ i \in 1..Len(new) /\ DOMAIN new = 1..Len(new)
            BY <1>5, <1>8
          <5>2. QED
            BY <1>5, <1>8, <5>1
        <4>2. CASE b \in DOMAIN old /\ new[b] = old[b]
          BY <1>7, <4>1, <4>2, Fields
        <4>3. CASE b \in Added(old, new)
          BY <1>6, <4>3
        <4>4. QED
          BY <1>5, <4>1, <4>2, <4>3
      <3>4. FollowsItsAnswer(new, i)
        BY <1>8, <3>1, <3>2, <3>3 DEF FollowsItsAnswer
      <3>5. QED
        BY <3>1, <3>4
    <2>2. CASE i \in DOMAIN old /\ new[i] = old[i] /\ new[i].role = "result"
      BY <1>4, <2>2, FollowingStays DEF Sound, CallsAreAnswered
    <2>3. CASE i \in DOMAIN old /\ new[i] = old[i] /\ new[i].role = "answer"
      BY <1>9, <1>12, <2>3
    <2>4. CASE i \in DOMAIN old /\ new[i] = old[i] /\ new[i].role \notin {"answer", "result"}
      BY <2>4
    <2>5. QED
      BY <1>5, <2>1, <2>2, <2>3, <2>4
  <1>14. \A i \in DOMAIN new : new[i].role = "answer" => i \in DOMAIN old /\ new[i] = old[i]
    BY <1>5, <1>6
  <1>15. AnswersInOrder(new)
    BY <1>14 DEF Sound, AnswersInOrder
  <1>16. TurnAnswered(new, t, r)
    <2> SUFFICES ASSUME NEW i \in DOMAIN new, new[i].role = "answer", new[i].turn = t
                 PROVE  new[i].round <= r /\ HasResults(new, i)
      BY DEF TurnAnswered
    <2>1. i \in DOMAIN old /\ new[i] = old[i] /\ old[i] \in Messages
      BY <1>1, <1>14
    <2>2. new[i].round \in Int
      BY <2>1, MessageKinds
    <2>3. CASE i = a
      BY <1>8, <1>9, <2>3
    <2>4. CASE i # a
      BY <1>10, <1>12, <2>1, <2>2, <2>4
    <2>5. QED
      BY <2>3, <2>4
  <1>17. OwnStay(old, new)
    BY <1>5, <1>6 DEF OwnStay, Own, IsUser
  <1>18. UserIds(old) \subseteq UserIds(new)
    BY <1>4, UserIdsStay
  <1>19. Dated(new, c.given)
    <2>1. t <= c.given
      BY <1>7, <1>8 DEF Sound, Dated
    <2>2. QED
      BY <1>5, <1>6, <2>1 DEF Sound, Dated
  <1>20. Sound([conversation |-> new, given |-> c.given])
    <2>1. [conversation |-> new, given |-> c.given] \in SessionBodies
      BY <1>1, <1>5 DEF SessionBodies
    <2>2. OwnInOrder(new)
      BY <1>17, OwnStayInOrder DEF Sound
    <2>3. QED
      BY <1>13, <1>15, <1>19, <2>1, <2>2 DEF Sound
  <1>21. ResultsInOrder(c, t, r, k).conversation = new /\ ResultsInOrder(c, t, r, k).given = c.given
    BY <1>2
  <1>22. QED
    BY <1>2, <1>16, <1>17, <1>18, <1>20, <1>21
\* What is kept: the person's messages at increasing positions.
LEMMA KeptOnes ==
    ASSUME NEW conv \in Seq(Messages), NEW kept \in MayKeep(conv)
    PROVE  /\ kept \in Seq(Messages)
           /\ \E at : /\ DOMAIN at = DOMAIN kept /\ Increasing(at)
                      /\ \A i \in DOMAIN kept : at[i] \in Own(conv) /\ kept[i] = conv[at[i]]
  <1>1. PICK at \in LastOwn(conv) : kept = [i \in DOMAIN at |-> conv[at[i]]]
    BY DEF MayKeep
  <1>2. Cardinality(Own(conv)) \in Nat
    <2>1. IsFiniteSet(1..Len(conv)) /\ Own(conv) \subseteq 1..Len(conv)
      BY FS_Interval DEF Own
    <2>2. QED
      BY <2>1, FS_Subset, FS_CardinalityType
  <1>3. PICK m \in Nat : at \in [1..m -> Own(conv)]
    BY <1>1, <1>2 DEF LastOwn, SeqOf
  <1>4. \A i \in Own(conv) : conv[i] \in Messages
    BY DEF Own
  <1>5. kept \in [1..m -> Messages]
    BY <1>1, <1>3, <1>4
  <1>6. kept \in Seq(Messages)
    BY <1>5
  <1>7. Increasing(at)
    BY <1>1 DEF LastOwn
  <1>8. QED
    BY <1>1, <1>3, <1>6, <1>7

\* A conversation that a summary replaced.
LEMMA CompactedIsSound ==
    ASSUME NEW c, Sound(c), NEW kept \in MayKeep(c.conversation)
    PROVE  /\ Sound(Compacted(c, kept)) /\ Compacted(c, kept).given = c.given
           /\ UserIds(Compacted(c, kept).conversation) \subseteq UserIds(c.conversation)
           /\ \A t, r : TurnAnswered(Compacted(c, kept).conversation, t, r)
  <1> DEFINE old == c.conversation
             one == <<Injected>>
             top == one \o kept
             new == top \o one
  <1>1. c \in SessionBodies /\ old \in Seq(Messages) /\ c.given \in Int
    BY BodyParts DEF Sound
  <1>2. /\ kept \in Seq(Messages)
        /\ one \in Seq(Messages) /\ Len(one) = 1 /\ \A i \in DOMAIN one : one[i] = Injected
    BY <1>1, KeptOnes DEF Messages
  <1>3. PICK at : /\ DOMAIN at = DOMAIN kept /\ Increasing(at)
                  /\ \A i \in DOMAIN kept : at[i] \in Own(old) /\ kept[i] = old[at[i]]
    BY <1>1, KeptOnes
  <1>4. Compacted(c, kept) = [c EXCEPT !.conversation = new]
    BY DEF Compacted
  <1> HIDE DEF one
  <1>5. /\ top \in Seq(Messages) /\ Begins(one, top)
        /\ \A i \in Added(one, top) : i - 1 \in DOMAIN kept /\ top[i] = kept[i - 1]
    <2>1. Begins(one, top)
      BY <1>2, Joined
    <2>2. \A i \in Added(one, top) : i - Len(one) \in DOMAIN kept /\ top[i] = kept[i - Len(one)]
      BY <1>2, Joined
    <2>3. QED
      BY <1>2, <2>1, <2>2 DEF Begins
  <1> HIDE DEF top
  <1>6. /\ Begins(top, new)
        /\ \A i \in Added(top, new) : new[i] = Injected
    <2>1. Begins(top, new)
      BY <1>2, <1>5, Joined
    <2>2. \A i \in Added(top, new) : i - Len(top) \in DOMAIN one /\ new[i] = one[i - Len(top)]
      BY <1>2, <1>5, Joined
    <2>3. QED
      BY <1>2, <2>1, <2>2
  <1> HIDE DEF new
  <1>7. Compacted(c, kept) = [conversation |-> new, given |-> c.given]
    BY <1>1, <1>4 DEF SessionBodies
  \* A message is the program's, or one that was kept.
  <1>8. \A i \in DOMAIN new : \/ new[i] = Injected
                              \/ (i \in Int /\ i - 1 \in DOMAIN kept /\ new[i] = kept[i - 1])
    <2> TAKE i \in DOMAIN new
    <2>1. CASE i \in Added(top, new)
      BY <1>6, <2>1
    <2>2. CASE i \in DOMAIN top /\ new[i] = top[i]
      <3>1. i \in DOMAIN one \/ i \in Added(one, top)
        BY <1>5, <2>2, AddedLater
      <3>2. CASE i \in DOMAIN one
        BY <1>2, <1>5, <2>2, <3>2 DEF Begins
      <3>3. CASE i \in Added(one, top)
        BY <1>5, <2>2, <3>3, AddedLater
      <3>4. QED
        BY <3>1, <3>2, <3>3
    <2>3. QED
      BY <1>6, <2>1, <2>2, AddedLater DEF Begins
  <1>9. \A i \in DOMAIN kept : IsUser(kept[i]) /\ at[i] \in DOMAIN old /\ kept[i] = old[at[i]]
    BY <1>3 DEF Own
  <1>10. \A i \in DOMAIN new : new[i].role \notin {"answer", "result"}
    BY <1>8, <1>9, Fields DEF IsUser
  <1>11. \A i \in Own(new) : /\ i \in Int /\ i - 1 \in DOMAIN kept /\ new[i] = kept[i - 1]
                             /\ at[i - 1] \in Own(old) /\ new[i] = old[at[i - 1]]
    BY <1>3, <1>8, Fields DEF Own, IsUser
  <1>12. OwnInOrder(new)
    <2> SUFFICES ASSUME NEW i \in Own(new), NEW j \in Own(new), i < j
                 PROVE  new[i].id < new[j].id
      BY DEF OwnInOrder
    <2>1. i - 1 < j - 1
      BY <1>11
    <2>2. at[i - 1] < at[j - 1]
      BY <1>3, <1>11, <2>1 DEF Increasing
    <2>3. QED
      BY <1>11, <2>2 DEF Sound, OwnInOrder
  <1>13. UserIds(new) \subseteq UserIds(old)
    <2> SUFFICES ASSUME NEW n \in UserIds(new)
                 PROVE  n \in UserIds(old)
      OBVIOUS
    <2>1. PICK i \in Own(new) : new[i].id = n
      BY UserIdsAre, Zenon
    <2>2. at[i - 1] \in Own(old) /\ old[at[i - 1]].id = n
      BY <1>11, <2>1
    <2>3. QED
      BY <2>2, UserIdsAre, Zenon
  <1>14. Dated(new, c.given)
    <2> SUFFICES ASSUME NEW i \in DOMAIN new, new[i].role = "user"
                 PROVE  new[i].id <= c.given
      BY <1>10 DEF Dated
    <2>1. i \in Own(new)
      BY DEF Own, IsUser
    <2>2. QED
      BY <1>11, <2>1 DEF Sound, Dated, Own, IsUser
  <1>15. Sound([conversation |-> new, given |-> c.given])
    <2>1. [conversation |-> new, given |-> c.given] \in SessionBodies
      BY <1>1, <1>6 DEF SessionBodies, Begins
    <2>2. CallsAreAnswered(new) /\ AnswersInOrder(new)
      BY <1>10 DEF CallsAreAnswered, AnswersInOrder
    <2>3. QED
      BY <1>12, <1>14, <2>1, <2>2 DEF Sound
  <1>16. \A t, r : TurnAnswered(new, t, r)
    BY <1>10 DEF TurnAnswered
  <1>17. Compacted(c, kept).conversation = new /\ Compacted(c, kept).given = c.given
    BY <1>7
  <1>18. QED
    BY <1>7, <1>13, <1>15, <1>16, <1>17

\* A conversation cut before a message of the person's.
LEMMA RewoundIsSound ==
    ASSUME NEW c, Sound(c), NEW n \in UserIds(c.conversation)
    PROVE  /\ Sound(RewoundTo(c, n)) /\ RewoundTo(c, n).given = c.given
           /\ UserIds(RewoundTo(c, n).conversation) \subseteq UserIds(c.conversation)
           /\ \A t : TurnAnswered(c.conversation, t, 0)
                     => TurnAnswered(RewoundTo(c, n).conversation, t, 0)
  <1> DEFINE old == c.conversation
             P   == Position(old, n)
             new == SubSeq(old, 1, P - 1)
  <1>1. c \in SessionBodies /\ old \in Seq(Messages) /\ c.given \in Int
    BY BodyParts DEF Sound
  <1>2. RewoundTo(c, n) = [conversation |-> new, given |-> c.given]
    <2>1. RewoundTo(c, n) = [c EXCEPT !.conversation = new]
      BY DEF RewoundTo
    <2> HIDE DEF new
    <2>2. QED
      BY <1>1, <2>1 DEF SessionBodies
  <1>3. P \in DOMAIN old /\ old[P] = User(n)
    <2>1. PICK i \in Own(old) : old[i].id = n
      BY UserIdsAre, Zenon
    <2>2. i \in DOMAIN old /\ old[i] \in Messages /\ old[i].role = "user"
      BY <1>1, <2>1 DEF Own, IsUser
    <2>3. old[i] = User(n)
      BY <2>1, <2>2, MessageKinds
    <2>4. QED
      BY <2>2, <2>3 DEF Position
  <1> HIDE DEF P
  <1>4. /\ new \in Seq(Messages) /\ DOMAIN new = 1..(P - 1) /\ Len(new) = P - 1
        /\ \A i \in 1..(P - 1) : new[i] = old[i]
        /\ DOMAIN old = 1..Len(old) /\ Len(old) \in Nat /\ P \in Int /\ 1 <= P /\ P <= Len(old)
    BY <1>1, <1>3
  <1> HIDE DEF new
  <1>5. \A i \in DOMAIN new : /\ i \in DOMAIN old /\ new[i] = old[i]
                              /\ i \in Int /\ 1 <= i /\ i < P
    BY <1>4
  <1>6. CallsAreAnswered(new)
    <2> SUFFICES ASSUME NEW i \in DOMAIN new
                 PROVE  /\ new[i].role = "result" => FollowsItsAnswer(new, i)
                        /\ new[i].role = "answer" => HasResults(new, i) \/ CutOff(new, i)
      BY DEF CallsAreAnswered
    <2>1. CASE new[i].role = "result"
      <3>1. FollowsItsAnswer(old, i)
        BY <1>5, <2>1 DEF Sound, CallsAreAnswered
      <3>2. PICK a \in 1..(i - 1) :
                /\ old[a].role = "answer" /\ ResultOf(old[i], old[a])
                /\ \A b \in (a + 1)..(i - 1) : old[b].role \in {"result", "injected"}
        BY <3>1 DEF FollowsItsAnswer
      <3>3. \A b \in 1..i : new[b] = old[b]
        BY <1>4, <1>5
      <3>4. FollowsItsAnswer(new, i)
        BY <1>5, <3>2, <3>3 DEF FollowsItsAnswer
      <3>5. QED
        BY <2>1, <3>4
    <2>2. CASE new[i].role = "answer" /\ CutOff(old, i)
      <3>1. CutOff(new, i)
        BY <1>5, <2>2 DEF CutOff
      <3>2. QED
        BY <2>2, <3>1
    <2>3. CASE new[i].role = "answer" /\ HasResults(old, i)
      <3>1. PICK j \in i..Len(old) : ResultsBehind(old, i, j)
        BY <2>3 DEF HasResults
      <3>2. /\ old[i] \in Messages /\ old[i].role = "answer" /\ old[i].calls \in Nat
            /\ j \in Int /\ i <= j /\ new[i] = old[i]
        <4>1. old[i] \in Messages /\ old[i].role = "answer" /\ new[i] = old[i]
          BY <1>1, <1>5, <2>3
        <4>2. old[i].calls \in Nat
          BY <4>1, MessageKinds, SavedConstants
        <4>3. QED
          BY <1>5, <4>1, <4>2
      <3> DEFINE k == old[i].calls
      <3>3. \A x \in 1..k : /\ j + x \in DOMAIN old
                            /\ old[j + x] = Result(old[i].turn, old[i].round, x)
        BY <3>1 DEF ResultsBehind
      <3>4. \A x \in DOMAIN old : ResultOf(old[x], old[i]) => x - j \in 1..k
        BY <3>1 DEF ResultsBehind
      <3>5. CASE k = 0
        <4>1. \A x \in DOMAIN new : ~ResultOf(new[x], new[i])
          BY <1>5, <3>2, <3>4, <3>5
        <4>2. ResultsBehind(new, i, i)
          BY <3>2, <3>5, <4>1 DEF ResultsBehind
        <4>3. QED
          BY <1>4, <1>5, <2>3, <4>2 DEF HasResults
      <3>6. CASE k > 0
        \* The message is behind the results: nothing of the person's is
        \* between them and their answer.
        <4>1. \A x \in 1..k : j + x # P
          BY <1>3, <3>3, Fields
        <4>2. j + 1 < P
          <5>1. 1 \in 1..k
            BY <3>2, <3>6
          <5>2. old[j + 1].role = "result" /\ ResultOf(old[j + 1], old[i]) /\ j + 1 \in DOMAIN old
            BY <3>3, <5>1, Fields DEF ResultOf
          <5>3. PICK a \in 1..((j + 1) - 1) :
                    /\ old[a].role = "answer" /\ ResultOf(old[j + 1], old[a])
                    /\ \A b \in (a + 1)..((j + 1) - 1) : old[b].role \in {"result", "injected"}
            BY <5>2 DEF Sound, CallsAreAnswered, FollowsItsAnswer
          <5>4. a \in DOMAIN old /\ a \in Int
            BY <1>4, <3>2, <5>2, <5>3
          <5>5. a = i
            <6>1. old[a].turn = old[i].turn /\ old[a].round = old[i].round
              BY <5>2, <5>3 DEF ResultOf
            <6>2. old[i].round \in Int
              BY <3>2, MessageKinds
            <6>3. i \in DOMAIN old /\ i \in Int
              BY <1>5
            <6>4. ~(a < i)
              BY <3>2, <5>3, <5>4, <6>1, <6>2, <6>3 DEF Sound, AnswersInOrder
            <6>5. ~(i < a)
              <7> SUFFICES ASSUME i < a PROVE FALSE
                OBVIOUS
              <7>1. old[i].round < old[a].round
                BY <3>2, <5>3, <5>4, <6>1, <6>3 DEF Sound, AnswersInOrder
              <7>2. QED
                BY <6>1, <6>2, <7>1
            <6>6. QED
              BY <5>4, <6>3, <6>4, <6>5
          <5>6. P \notin (a + 1)..((j + 1) - 1)
            BY <1>3, <5>3, Fields
          <5>7. j + 1 # P
            BY <4>1, <5>1
          <5>8. QED
            BY <1>4, <1>5, <3>2, <5>5, <5>6, <5>7
        <4>3. j + k < P
          <5>1. P - j \notin 1..k
            BY <1>4, <3>2, <4>1
          <5>2. QED
            BY <1>4, <3>2, <4>2, <5>1
        <4>4. \A x \in 1..k : /\ j + x \in DOMAIN new
                              /\ new[j + x] = Result(new[i].turn, new[i].round, x)
          <5> SUFFICES ASSUME NEW x \in 1..k
                       PROVE  j + x \in DOMAIN new /\ new[j + x] = Result(new[i].turn, new[i].round, x)
            OBVIOUS
          <5>1. j + x \in 1..(P - 1)
            BY <1>4, <1>5, <3>2, <4>3
          <5>2. QED
            BY <1>4, <3>2, <3>3, <5>1
        <4>5. \A x \in DOMAIN new : ResultOf(new[x], new[i]) => x - j \in 1..k
          BY <1>5, <3>2, <3>4
        <4>6. ResultsBehind(new, i, j)
          BY <3>2, <4>4, <4>5 DEF ResultsBehind
        <4>7. j \in i..Len(new)
          BY <1>4, <1>5, <3>2, <4>2
        <4>8. QED
          BY <2>3, <4>6, <4>7 DEF HasResults
      <3>7. QED
        BY <3>2, <3>5, <3>6
    <2>4. QED
      BY <1>5, <2>1, <2>2, <2>3 DEF Sound, CallsAreAnswered
  <1>7. OwnStay(old, new)
    BY <1>5 DEF OwnStay, Own, IsUser
  <1>8. AnswersInOrder(new) /\ Dated(new, c.given)
    BY <1>5 DEF Sound, AnswersInOrder, Dated
  <1>9. Sound([conversation |-> new, given |-> c.given])
    <2>1. [conversation |-> new, given |-> c.given] \in SessionBodies
      BY <1>1, <1>4 DEF SessionBodies
    <2>2. OwnInOrder(new)
      BY <1>7, OwnStayInOrder DEF Sound
    <2>3. QED
      BY <1>6, <1>8, <2>1, <2>2 DEF Sound
  <1>10. ASSUME NEW t, TurnAnswered(old, t, 0) PROVE TurnAnswered(new, t, 0)
    <2> SUFFICES ASSUME NEW i \in DOMAIN new, new[i].role = "answer", new[i].turn = t
                 PROVE  FALSE
      BY DEF TurnAnswered
    <2>1. old[i] \in Messages /\ old[i].role = "answer" /\ old[i].turn = t /\ i \in DOMAIN old
      BY <1>1, <1>5
    <2>2. old[i].round <= 0
      BY <1>10, <2>1 DEF TurnAnswered
    <2>3. QED
      BY <2>1, <2>2, MessageKinds
  <1>11. RewoundTo(c, n).conversation = new /\ RewoundTo(c, n).given = c.given
    BY <1>2
  <1>12. UserIds(new) \subseteq UserIds(old)
    BY <1>7, OwnStayInOrder
  <1>13. QED
    BY <1>2, <1>9, <1>10, <1>11, <1>12
-----------------------------------------------------------------------------
(* The inductive invariant: what each process knows of its session.          *)

DriverStates == [at : DriverSections, turn : 0..MaxGiven, round : 0..MaxIterations,
                 calls : 0..MaxCalls, left : 0..Larger(MaxCalls, MaxAttempts)]

HandlerSections == {"none", "promoted", "changed", "published"}

\* A driver runs a turn or a compaction, which has answers and attempts left.
Drives(d) ==
    /\ d \in DriverStates
    /\ d.at \in {"begun", "asking", "streaming", "calls"} => d.turn # 0
    /\ d.at = "begun" => d.round = 0
    /\ d.at \in {"begun", "asking", "streaming", "compacting", "summarising"} =>
           d.round < MaxIterations
    /\ d.at = "compacting" => d.left >= 1

\* The answers of its turn have their results, or the last one waits for them.
Hears(d, c) ==
    /\ d.turn <= c.given
    /\ d.at \in {"begun", "asking", "streaming", "compacting", "summarising"} =>
           TurnAnswered(c.conversation, d.turn, d.round)
    /\ d.at = "calls" => AwaitsResults(c.conversation, d.turn, d.round, d.calls)

\* What waits was given after all that is in the conversation, to a turn in
\* progress; what is unread is in it, or waits, and a request for a summary
\* carried what was in it.
Waits(d, c, s, u) ==
    /\ s \in Seq(1..MaxGiven) /\ Increasing(s)
    /\ \A i \in DOMAIN s : s[i] <= c.given
    /\ \A n \in UserIds(c.conversation) : \A i \in DOMAIN s : n < s[i]
    /\ s # <<>> => d.turn # 0 /\ d.at \in InTurn
    /\ u \in SUBSET (1..MaxGiven)
    /\ u \subseteq UserIds(c.conversation) \union ToSet(s)
    /\ d.at = "summarising" => u \intersect UserIds(c.conversation) = {}

Said(p) ==
    /\ Sound(body[p]) /\ Drives(driver[p]) /\ Hears(driver[p], body[p])
    /\ Waits(driver[p], body[p], steering[p], unread[p])
    /\ place[p] # "live" => driver[p] = Off /\ handler[p] = "none" /\ steering[p] = <<>>
    /\ place[p] \in {"away", "renaming"} => unread[p] = {}

Volatile ==
    /\ body \in [Procs -> SessionBodies]
    /\ driver \in [Procs -> DriverStates]
    /\ handler \in [Procs -> HandlerSections]
    /\ steering \in [Procs -> Seq(1..MaxGiven)]
    /\ unread \in [Procs -> SUBSET (1..MaxGiven)]

SavedIsSound ==
    /\ parts \in [Generations -> [PartNames -> Snapshots \union {NoFile}]]
    /\ \A g \in Generations : \A part \in PartNames : Sound(parts[g][part].body)

SaidInv == StoreInv /\ Volatile /\ SavedIsSound /\ \A p \in Procs : Said(p)

LEMMA Sections ==
    ASSUME NEW d \in DriverStates, NEW at \in DriverSections
    PROVE  /\ [d EXCEPT !.at = at] \in DriverStates
           /\ [d EXCEPT !.at = at].at = at
           /\ [d EXCEPT !.at = at].turn = d.turn /\ [d EXCEPT !.at = at].round = d.round
           /\ [d EXCEPT !.at = at].calls = d.calls /\ [d EXCEPT !.at = at].left = d.left
  BY DEF DriverStates

LEMMA SectionsAndLeft ==
    ASSUME NEW d \in DriverStates, NEW at \in DriverSections,
           NEW n \in 0..Larger(MaxCalls, MaxAttempts)
    PROVE  [d EXCEPT !.at = at, !.left = n] \in DriverStates
  BY DEF DriverStates

LEMMA SectionsAndTurn ==
    ASSUME NEW d \in DriverStates, NEW at \in DriverSections, NEW turn \in 0..MaxGiven
    PROVE  [d EXCEPT !.at = at, !.turn = turn] \in DriverStates
  BY DEF DriverStates

LEMMA Attempts ==
    /\ \A n \in 0..MaxCalls : n \in 0..Larger(MaxCalls, MaxAttempts)
    /\ MaxAttempts \in 0..Larger(MaxCalls, MaxAttempts) /\ MaxAttempts = 2
    /\ Larger(MaxCalls, MaxAttempts) \in Nat
  BY SavedConstants DEF Larger, MaxAttempts

LEMMA OffIsAtRest ==
    /\ Off \in DriverStates /\ Drives(Off) /\ Off.at = "off" /\ Off.turn = 0
    /\ \A c : Sound(c) => Hears(Off, c)
    /\ \A c, u : u \in SUBSET (1..MaxGiven) /\ u \subseteq UserIds(c.conversation) =>
                     Waits(Off, c, <<>>, u)
  <1>1. Off \in DriverStates /\ Off.at = "off" /\ Off.turn = 0
    BY SavedConstants, Attempts DEF Off, DriverStates, DriverSections
  <1>2. Drives(Off)
    BY <1>1 DEF Drives
  <1>3. ASSUME NEW c, Sound(c) PROVE Hears(Off, c)
    BY <1>1, <1>3, BodyParts DEF Hears, Sound
  <1>4. ASSUME NEW c, NEW u \in SUBSET (1..MaxGiven), u \subseteq UserIds(c.conversation)
        PROVE  Waits(Off, c, <<>>, u)
    BY <1>1, <1>4 DEF Waits, Increasing
  <1>5. QED
    BY <1>1, <1>2, <1>3, <1>4

\* What the conversation holds of the person's was given.
LEMMA IdsWereGiven ==
    ASSUME NEW c, Sound(c), NEW n \in UserIds(c.conversation)
    PROVE  n \in 1..MaxGiven /\ n <= c.given
  <1>1. PICK i \in Own(c.conversation) : c.conversation[i].id = n
    BY UserIdsAre, Zenon
  <1>2. i \in DOMAIN c.conversation /\ c.conversation[i].role = "user"
        /\ c.conversation[i] \in Messages
    BY BodyParts DEF Own, IsUser, Sound
  <1>3. QED
    BY <1>1, <1>2, MessageKinds DEF Sound, Dated

\* Nothing of the person's joins the conversation, and what leaves it is read.
LEMMA WaitsOn ==
    ASSUME NEW d, NEW c, NEW s, NEW u, Waits(d, c, s, u),
           NEW c2, c2.given = c.given,
           UserIds(c2.conversation) \subseteq UserIds(c.conversation),
           NEW u2, u2 \subseteq u, u2 \subseteq UserIds(c2.conversation) \union ToSet(s),
           NEW d2, s # <<>> => d2.turn # 0 /\ d2.at \in InTurn,
           d2.at = "summarising" =>
               d.at = "summarising" \/ u2 \intersect UserIds(c2.conversation) = {}
    PROVE  Waits(d2, c2, s, u2)
  BY DEF Waits

\* What waited joins it.
LEMMA Delivered ==
    ASSUME NEW d, NEW c, NEW s, NEW u, Sound(c), Waits(d, c, s, u)
    PROVE  /\ Sound(Steered(c, s)) /\ Steered(c, s).given = c.given
           /\ QuietOnes(c.conversation, Steered(c, s).conversation)
           /\ \A d2 : d2.at # "summarising" => Waits(d2, Steered(c, s), <<>>, u)
           /\ u \subseteq UserIds(Steered(c, s).conversation)
  <1> DEFINE new == c.conversation \o [i \in DOMAIN s |-> User(s[i])]
  <1>1. c \in SessionBodies /\ c.given \in 0..MaxGiven /\ c.given <= c.given
    BY BodyParts DEF Sound
  <1>2. Steered(c, s) = [conversation |-> new, given |-> c.given]
    BY <1>1, Pushed DEF Steered
  <1>3. \A i \in Own(c.conversation), j \in DOMAIN s : c.conversation[i].id < s[j]
    <2> TAKE i \in Own(c.conversation), j \in DOMAIN s
    <2>1. c.conversation[i].id \in UserIds(c.conversation)
      BY UserIdsAre, Zenon
    <2>2. QED
      BY <2>1 DEF Waits
  <1>4. /\ Sound([conversation |-> new, given |-> c.given])
        /\ QuietOnes(c.conversation, new)
        /\ UserIds(new) = UserIds(c.conversation) \union ToSet(s)
    <2>1. s \in Seq(1..MaxGiven) /\ Increasing(s) /\ \A i \in DOMAIN s : s[i] <= c.given
      BY DEF Waits
    <2>2. QED
      BY <1>1, <1>3, <2>1, SteeredIsSound
  <1> HIDE DEF new
  <1>5. Steered(c, s).conversation = new /\ Steered(c, s).given = c.given
    BY <1>2
  <1>6. u \in SUBSET (1..MaxGiven) /\ u \subseteq UserIds(new)
    BY <1>4 DEF Waits
  <1>7. ASSUME NEW d2, d2.at # "summarising" PROVE Waits(d2, Steered(c, s), <<>>, u)
    BY <1>5, <1>6, <1>7 DEF Waits, Increasing
  <1>8. QED
    BY <1>2, <1>4, <1>5, <1>6, <1>7
-----------------------------------------------------------------------------
(* Every section keeps it. *)

LEMMA Unmoved ==
    ASSUME Volatile, NEW p \in Procs
    PROVE  /\ body = [body EXCEPT ![p] = body[p]] /\ driver = [driver EXCEPT ![p] = driver[p]]
           /\ handler = [handler EXCEPT ![p] = handler[p]]
           /\ steering = [steering EXCEPT ![p] = steering[p]]
           /\ unread = [unread EXCEPT ![p] = unread[p]]
  BY DEF Volatile

LEMMA Changes ==
    ASSUME NEW p \in Procs, NEW b,
           \/ Change(p, b) \/ AdvanceUntold(p, b) \/ \E n \in Nat : Advance(p, b, n)
    PROVE  Works(p) /\ body' = [body EXCEPT ![p] = b] /\ UNCHANGED place
  BY DEF Change, AdvanceUntold, Advance

\* A step of p leaves what the others know as it was.
LEMMA StepOfOne ==
    ASSUME Volatile, \A q \in Procs : Said(q), NEW p \in Procs,
           NEW at, place'[p] = at, \A q \in Procs \ {p} : place'[q] = place[q],
           NEW b, body' = [body EXCEPT ![p] = b], Sound(b),
           NEW d, driver' = [driver EXCEPT ![p] = d], Drives(d), Hears(d, b),
           NEW h \in HandlerSections, handler' = [handler EXCEPT ![p] = h],
           NEW s, steering' = [steering EXCEPT ![p] = s],
           NEW u, unread' = [unread EXCEPT ![p] = u], Waits(d, b, s, u),
           at # "live" => d = Off /\ h = "none" /\ s = <<>>,
           at \in {"away", "renaming"} => u = {}
    PROVE  Volatile' /\ \A q \in Procs : Said(q)'
  <1>1. b \in SessionBodies /\ d \in DriverStates /\ s \in Seq(1..MaxGiven)
        /\ u \in SUBSET (1..MaxGiven)
    BY DEF Sound, Drives, Waits
  <1>2. Volatile'
    BY <1>1 DEF Volatile
  <1>3. /\ body'[p] = b /\ driver'[p] = d /\ handler'[p] = h /\ steering'[p] = s
        /\ unread'[p] = u /\ place'[p] = at
    BY DEF Volatile
  <1>4. Said(p)'
    BY <1>3 DEF Said
  <1>5. ASSUME NEW q \in Procs, q # p PROVE Said(q)'
    <2>1. /\ body'[q] = body[q] /\ driver'[q] = driver[q] /\ handler'[q] = handler[q]
          /\ steering'[q] = steering[q] /\ unread'[q] = unread[q] /\ place'[q] = place[q]
      BY <1>5 DEF Volatile
    <2>2. Said(q)
      OBVIOUS
    <2>3. QED
      BY <2>1, <2>2 DEF Said
  <1>6. QED
    BY <1>2, <1>4, <1>5

\* A section of p, whose session it is.
LEMMA SectionKeepsIt ==
    ASSUME Volatile, \A q \in Procs : Said(q), NEW p \in Procs,
           place[p] = "live", UNCHANGED place,
           NEW b, body' = [body EXCEPT ![p] = b], Sound(b),
           NEW d, driver' = [driver EXCEPT ![p] = d], Drives(d), Hears(d, b),
           NEW h \in HandlerSections, handler' = [handler EXCEPT ![p] = h],
           NEW s, steering' = [steering EXCEPT ![p] = s],
           NEW u, unread' = [unread EXCEPT ![p] = u], Waits(d, b, s, u)
    PROVE  Volatile' /\ \A q \in Procs : Said(q)'
  <1>1. place'[p] = "live" /\ \A q \in Procs \ {p} : place'[q] = place[q]
    OBVIOUS
  <1>2. QED
    BY <1>1, StepOfOne

LEMMA AtWork ==
    ASSUME SaidInv, NEW p \in Procs
    PROVE  /\ Volatile /\ \A q \in Procs : Said(q)
           /\ Works(p) => place[p] = "live"
           /\ Sound(body[p]) /\ body[p] \in SessionBodies
           /\ Drives(driver[p]) /\ driver[p] \in DriverStates
           /\ Hears(driver[p], body[p])
           /\ Waits(driver[p], body[p], steering[p], unread[p])
           /\ handler[p] \in HandlerSections
           /\ unread[p] \subseteq UserIds(body[p].conversation) \union ToSet(steering[p])
  BY WhoWorksIsLive DEF SaidInv, Volatile, Said, Sound, Drives, Waits

\* A section of the driver that changes no message and reads none.
LEMMA DriverMoves ==
    ASSUME SaidInv, NEW p \in Procs, Works(p), UNCHANGED <<place, body>>,
           NEW d, driver' = [driver EXCEPT ![p] = d], Drives(d), Hears(d, body[p]),
           steering[p] # <<>> => d.turn # 0 /\ d.at \in InTurn,
           d.at = "summarising" => driver[p].at = "summarising",
           NEW h \in HandlerSections, handler' = [handler EXCEPT ![p] = h],
           UNCHANGED <<steering, unread>>
    PROVE  Volatile' /\ \A q \in Procs : Said(q)'
  <1>1. Waits(d, body[p], steering[p], unread[p])
    BY AtWork, WaitsOn
  <1>2. /\ body' = [body EXCEPT ![p] = body[p]]
        /\ steering' = [steering EXCEPT ![p] = steering[p]]
        /\ unread' = [unread EXCEPT ![p] = unread[p]]
    BY AtWork, Unmoved
  <1>3. Volatile /\ (\A q \in Procs : Said(q)) /\ place[p] = "live" /\ Sound(body[p])
    BY AtWork
  <1>4. UNCHANGED place
    OBVIOUS
  <1>5. QED
    BY <1>1, <1>2, <1>3, <1>4, SectionKeepsIt

LEMMA NotificationsAreQuiet ==
    ASSUME NEW c, Sound(c), NEW b \in {c, Notified(c)}
    PROVE  /\ Sound(b) /\ b.given = c.given /\ QuietOnes(c.conversation, b.conversation)
           /\ UserIds(b.conversation) = UserIds(c.conversation)
           /\ \A i \in Added(c.conversation, b.conversation) : b.conversation[i] = Injected
  <1>1. CASE b = c
    <2>1. c.conversation \in Seq(Messages)
      BY BodyParts DEF Sound
    <2>2. Begins(c.conversation, c.conversation)
      BY <2>1 DEF Begins
    <2>3. QED
      BY <1>1, <2>2 DEF QuietOnes, Added
  <1>2. CASE b = Notified(c)
    <2>1. /\ Sound(b) /\ b.given = c.given /\ QuietOnes(c.conversation, b.conversation)
          /\ OwnStay(c.conversation, b.conversation)
          /\ \A i \in Added(c.conversation, b.conversation) : b.conversation[i] = Injected
      BY <1>2, NotifiedIsSound DEF OwnStay
    <2>2. UserIds(b.conversation) \subseteq UserIds(c.conversation)
      BY <2>1, OwnStayInOrder
    <2>3. UserIds(c.conversation) \subseteq UserIds(b.conversation)
      BY <2>1, UserIdsStay DEF QuietOnes
    <2>4. QED
      BY <2>1, <2>2, <2>3
  <1>3. QED
    BY <1>1, <1>2

\* Injected messages do not stand between an answer that waits and its results.
LEMMA StillAwaited ==
    ASSUME NEW old, NEW new, Begins(old, new),
           \A i \in Added(old, new) : new[i] = Injected,
           NEW t, NEW r, NEW k, AwaitsResults(old, t, r, k)
    PROVE  AwaitsResults(new, t, r, k)
  <1>1. PICK a \in DOMAIN old : /\ old[a] = Answer(t, r, k)
                                /\ \A b \in DOMAIN old : b > a => old[b] = Injected
                                /\ \A b \in DOMAIN old : ~ResultOf(old[b], old[a])
    BY DEF AwaitsResults
  <1>2. a \in DOMAIN new /\ new[a] = old[a]
    BY AddedLater DEF Begins
  <1>3. \A b \in DOMAIN new : (b \in DOMAIN old /\ new[b] = old[b]) \/ new[b] = Injected
    BY AddedLater DEF Begins
  <1>4. \A b \in DOMAIN new : b > a => new[b] = Injected
    BY <1>1, <1>3
  <1>5. \A b \in DOMAIN new : ~ResultOf(new[b], new[a])
    BY <1>1, <1>2, <1>3, Fields DEF ResultOf
  <1>6. QED
    BY <1>1, <1>2, <1>4, <1>5 DEF AwaitsResults

\* The message a turn begins with.
LEMMA StartedIsSound ==
    ASSUME NEW c, Sound(c), c.given < MaxGiven
    PROVE  LET turn == c.given + 1 IN
           /\ Sound(StartTurn(c)) /\ StartTurn(c).given = turn /\ turn \in 1..MaxGiven
           /\ UserIds(StartTurn(c).conversation) = UserIds(c.conversation) \union {turn}
           /\ TurnAnswered(StartTurn(c).conversation, turn, 0)
  <1> DEFINE turn == c.given + 1
             one  == <<turn>>
             ms   == [i \in DOMAIN one |-> User(one[i])]
             new  == c.conversation \o ms
  <1>1. c \in SessionBodies /\ c.given \in 0..MaxGiven /\ turn \in 1..MaxGiven
        /\ MaxGiven \in Int /\ turn \in 0..MaxGiven
    BY BodyParts DEF Sound
  <1>2. /\ one \in Seq(1..MaxGiven) /\ DOMAIN one = {1} /\ one[1] = turn /\ ToSet(one) = {turn}
    BY <1>1 DEF ToSet
  <1>3. ms = <<User(turn)>>
    BY <1>2
  <1>4. StartTurn(c) = [conversation |-> new, given |-> turn]
    <2>1. GiveMessage(c) = [conversation |-> c.conversation, given |-> turn]
      BY <1>1 DEF SessionBodies, GiveMessage
    <2>2. GiveMessage(c) \in SessionBodies
      BY <1>1, <2>1, BodyParts DEF SessionBodies
    <2>3. StartTurn(c) = Push(GiveMessage(c), ms)
      BY <1>3 DEF StartTurn
    <2>4. QED
      BY <2>1, <2>2, <2>3, Pushed
  <1>5. \A i \in Own(c.conversation) : c.conversation[i].id < turn
    <2> TAKE i \in Own(c.conversation)
    <2>1. c.conversation[i].id \in UserIds(c.conversation)
      BY UserIdsAre, Zenon
    <2>2. QED
      BY <1>1, <2>1, IdsWereGiven
  <1>6. /\ Sound([conversation |-> new, given |-> turn])
        /\ QuietOnes(c.conversation, new)
        /\ UserIds(new) = UserIds(c.conversation) \union ToSet(one)
    <2> HIDE DEF one, turn
    <2>1. Increasing(one)
      BY <1>2 DEF Increasing
    <2>2. c.given <= turn
      BY <1>1 DEF turn
    <2>3. \A i \in DOMAIN one : one[i] <= turn
      BY <1>1, <1>2
    <2>4. \A i \in Own(c.conversation), j \in DOMAIN one : c.conversation[i].id < one[j]
      BY <1>2, <1>5
    <2>5. QED
      BY <1>1, <1>2, <2>1, <2>2, <2>3, <2>4, SteeredIsSound
  <1> HIDE DEF new
  <1>7. TurnAnswered(new, turn, 0)
    <2>1. ASSUME NEW i \in DOMAIN c.conversation, c.conversation[i].role = "answer"
          PROVE  c.conversation[i].turn # turn
      <3>1. c.conversation[i] \in Messages /\ c.conversation[i].turn <= c.given
        BY <1>1, <2>1, BodyParts DEF Sound, Dated
      <3>2. c.conversation[i].turn \in Int
        BY <2>1, <3>1, MessageKinds
      <3>3. QED
        BY <1>1, <3>1, <3>2
    <2>2. TurnAnswered(c.conversation, turn, 0)
      BY <2>1 DEF TurnAnswered
    <2>3. QED
      BY <1>6, <2>2, QuietKeepsAnswered
  <1>8. StartTurn(c).conversation = new /\ StartTurn(c).given = turn
    BY <1>4
  <1>9. QED
    BY <1>1, <1>2, <1>4, <1>6, <1>7, <1>8

LEMMA TurnKeepsSaid ==
    ASSUME SaidInv, NEW p \in Procs, Turn(p)
    PROVE  Volatile' /\ \A q \in Procs : Said(q)'
  <1> DEFINE c == body[p]
             d == driver[p]
             s == steering[p]
             u == unread[p]
             Kept == Volatile' /\ \A q \in Procs : Said(q)'
  <1>1. /\ Volatile /\ \A q \in Procs : Said(q)
        /\ Sound(c) /\ c \in SessionBodies /\ Drives(d) /\ d \in DriverStates
        /\ Hears(d, c) /\ Waits(d, c, s, u) /\ handler[p] \in HandlerSections
        /\ Works(p) => place[p] = "live"
    BY AtWork
  <1>2. handler = [handler EXCEPT ![p] = handler[p]] /\ d.turn \in Int /\ c.given \in Int
        /\ d.round \in Int /\ MaxIterations \in Int /\ MaxGiven \in Int
    BY <1>1, Unmoved, SavedConstants DEF DriverStates, SessionBodies
  <1>3. d.at \notin InTurn => s = <<>>
    BY <1>1 DEF Waits
  \* The driver goes on to a section at which its turn is as it was.
  <1>4. ASSUME NEW at \in DriverSections, Goes(p, at), Works(p), UNCHANGED <<place, body>>,
               UNCHANGED <<handler, steering, unread>>,
               Drives([d EXCEPT !.at = at]), Hears([d EXCEPT !.at = at], c),
               s # <<>> => at \in InTurn, at # "summarising"
        PROVE  Kept
    <2>1. driver' = [driver EXCEPT ![p] = [d EXCEPT !.at = at]]
      BY <1>4 DEF Goes
    <2>2. s # <<>> => [d EXCEPT !.at = at].turn # 0 /\ [d EXCEPT !.at = at].at \in InTurn
      BY <1>1, <1>4, Sections DEF Waits
    <2>3. [d EXCEPT !.at = at].at # "summarising"
      BY <1>1, <1>4, Sections
    <2>4. QED
      BY <1>1, <1>2, <1>4, <2>1, <2>2, <2>3, DriverMoves
  <1>5. ASSUME NEW at \in {"off", "beginning", "ended", "settled"}
        PROVE  Drives([d EXCEPT !.at = at]) /\ Hears([d EXCEPT !.at = at], c)
    <2>1. at \in DriverSections
      BY DEF DriverSections
    <2>2. QED
      BY <1>1, <2>1, Sections DEF Drives, Hears
  <1>6. CASE Begin(p)
    <2>1. Works(p) /\ UNCHANGED <<place, body>>
      BY <1>6 DEF Begin, Promote, Save, storeVars, memoryVars
    <2>2. s = <<>> /\ Goes(p, "beginning") /\ UNCHANGED <<handler, steering, unread>>
      BY <1>3, <1>6 DEF Begin, InTurn
    <2>3. QED
      BY <1>4, <1>5, <2>1, <2>2 DEF DriverSections
  <1>7. CASE Settle(p)
    <2>1. Works(p) /\ UNCHANGED <<place, body>>
      BY <1>7 DEF Settle, Settles, Save, storeVars, memoryVars
    <2>2. s = <<>> /\ Goes(p, "settled") /\ UNCHANGED <<handler, steering, unread>>
      BY <1>3, <1>7 DEF Settle, InTurn
    <2>3. QED
      BY <1>4, <1>5, <2>1, <2>2 DEF DriverSections
  <1>8. CASE Publish(p)
    <2>1. Works(p) /\ UNCHANGED <<place, body>>
      BY <1>8 DEF Publish, TellRead, Tell, memoryVars
    <2>2. Goes(p, "asking") /\ UNCHANGED <<handler, steering, unread>> /\ d.at = "begun"
      BY <1>8 DEF Publish
    <2>3. "asking" \in DriverSections /\ "asking" \in InTurn
      BY DEF DriverSections, InTurn
    <2>4. Drives([d EXCEPT !.at = "asking"]) /\ Hears([d EXCEPT !.at = "asking"], c)
      BY <1>1, <2>2, <2>3, Sections DEF Drives, Hears
    <2>5. QED
      BY <1>4, <2>1, <2>2, <2>3, <2>4
  <1>9. CASE CallEnds(p)
    <2>1. Works(p) /\ body' = [body EXCEPT ![p] = c] /\ UNCHANGED place
      BY <1>9, Changes DEF CallEnds
    <2> DEFINE d2 == [d EXCEPT !.left = @ - 1]
    <2>2. driver' = [driver EXCEPT ![p] = d2] /\ d.at = "calls" /\ d.left > 0
          /\ UNCHANGED <<handler, steering, unread>>
      BY <1>9 DEF CallEnds
    <2>3. d2 \in DriverStates /\ d2.at = d.at /\ d2.turn = d.turn /\ d2.round = d.round
          /\ d2.calls = d.calls
      BY <1>1, <2>2, Attempts DEF DriverStates
    <2> HIDE DEF d2
    <2>4. Drives(d2) /\ Hears(d2, c)
      BY <1>1, <2>2, <2>3 DEF Drives, Hears
    <2>5. body' = body
      BY <1>1, <2>1, Unmoved
    <2>6. s # <<>> => d2.turn # 0 /\ d2.at \in InTurn
      BY <1>1, <2>3 DEF Waits
    <2>7. QED
      BY <1>1, <1>2, <2>1, <2>2, <2>3, <2>4, <2>5, <2>6, DriverMoves
  <1>10. CASE RefuseSummary(p)
    <2>1. Works(p) /\ body' = [body EXCEPT ![p] = c] /\ UNCHANGED place
      BY <1>10, Changes DEF RefuseSummary
    <2>2. body' = body
      BY <1>1, <2>1, Unmoved
    <2>3. Goes(p, "compacting") /\ d.at = "summarising" /\ d.left > 0
          /\ UNCHANGED <<handler, steering, unread>>
      BY <1>10 DEF RefuseSummary
    <2>4. "compacting" \in DriverSections /\ "compacting" \in InTurn
      BY DEF DriverSections, InTurn
    <2>5. d.left \in Int
      BY <1>1, Attempts DEF DriverStates
    <2>6. Drives([d EXCEPT !.at = "compacting"]) /\ Hears([d EXCEPT !.at = "compacting"], c)
      BY <1>1, <2>3, <2>4, <2>5, Sections DEF Drives, Hears
    <2>7. QED
      BY <1>4, <2>1, <2>2, <2>3, <2>4, <2>6
  <1>11. CASE FailSummary(p)
    <2>1. Works(p) /\ body' = [body EXCEPT ![p] = c] /\ UNCHANGED place
      BY <1>11, Changes DEF FailSummary
    <2>2. body' = body
      BY <1>1, <2>1, Unmoved
    <2>3. Goes(p, "ended") /\ s = <<>> /\ UNCHANGED <<handler, steering, unread>>
      BY <1>1, <1>11 DEF FailSummary, Waits
    <2>4. QED
      BY <1>4, <1>5, <2>1, <2>2, <2>3 DEF DriverSections
  <1>12. CASE EndTurn(p)
    <2>1. Works(p) /\ UNCHANGED <<place, body>>
      BY <1>12 DEF EndTurn, storeVars, memoryVars
    <2>2. driver' = [driver EXCEPT ![p] = Off] /\ s = <<>>
          /\ UNCHANGED <<handler, steering, unread>>
      BY <1>3, <1>12 DEF EndTurn, InTurn
    <2>3. QED
      BY <1>1, <1>2, <2>1, <2>2, OffIsAtRest, DriverMoves
  <1>13. CASE Compact(p)
    <2> DEFINE d2 == [Off EXCEPT !.at = "compacting", !.left = MaxAttempts]
    <2>1. Works(p) /\ UNCHANGED <<place, body>>
      BY <1>13 DEF Compact, storeVars, memoryVars
    <2>2. driver' = [driver EXCEPT ![p] = d2] /\ s = <<>>
          /\ UNCHANGED <<handler, steering, unread>>
      BY <1>3, <1>13 DEF Compact, InTurn
    <2>3. d2 \in DriverStates /\ d2.at = "compacting" /\ d2.turn = 0 /\ d2.round = 0 /\ d2.left = 2
      <3>1. "compacting" \in DriverSections
        BY DEF DriverSections, InTurn
      <3>2. Off.turn = 0 /\ Off.round = 0 /\ Off \in DriverStates
        BY OffIsAtRest DEF Off
      <3>3. d2 \in DriverStates
        BY <3>1, <3>2, Attempts, SectionsAndLeft
      <3>4. d2.at = "compacting" /\ d2.turn = 0 /\ d2.round = 0 /\ d2.left = MaxAttempts
        BY DEF Off
      <3>5. QED
        BY <3>3, <3>4, Attempts
    <2> HIDE DEF d2
    <2>4. Drives(d2)
      BY <2>3, SavedConstants DEF Drives
    <2>5. TurnAnswered(c.conversation, 0, 0)
      <3>1. \A i \in DOMAIN c.conversation : c.conversation[i] \in Messages
        BY <1>1, BodyParts
      <3>2. QED
        BY <3>1, MessageKinds DEF TurnAnswered
    <2>6. Hears(d2, c)
      BY <1>1, <2>3, <2>5, BodyParts DEF Hears
    <2>7. QED
      BY <1>1, <1>2, <2>1, <2>2, <2>3, <2>4, <2>6, DriverMoves
  <1>14. CASE BeginTurn(p)
    <2> DEFINE turn == c.given + 1
               b  == StartTurn(c)
               d2 == [Off EXCEPT !.at = "begun", !.turn = turn]
               u2 == u \union {turn}
    <2>1. Works(p) /\ body' = [body EXCEPT ![p] = b] /\ UNCHANGED place
      BY <1>14, Changes DEF BeginTurn
    <2>2. /\ d.at = "beginning" /\ c.given < MaxGiven
          /\ driver' = [driver EXCEPT ![p] = d2]
          /\ unread' = [unread EXCEPT ![p] = u2] /\ UNCHANGED <<handler, steering>>
      BY <1>14 DEF BeginTurn
    <2>3. s = <<>>
      BY <1>3, <2>2 DEF InTurn
    <2>4. /\ Sound(b) /\ b.given = turn /\ turn \in 1..MaxGiven
          /\ UserIds(b.conversation) = UserIds(c.conversation) \union {turn}
          /\ TurnAnswered(b.conversation, turn, 0)
      BY <1>1, <2>2, StartedIsSound
    <2>5. /\ d2.at = "begun" /\ d2.turn = turn /\ d2.round = 0 /\ d2.calls = 0 /\ d2.left = 0
          /\ d2 \in DriverStates
      <3>1. d2.at = "begun" /\ d2.turn = turn /\ d2.round = 0 /\ d2.calls = 0 /\ d2.left = 0
        BY DEF Off
      <3>2. turn \in 0..MaxGiven /\ "begun" \in DriverSections /\ Off \in DriverStates
        BY <2>4, OffIsAtRest, SavedConstants DEF DriverSections
      <3>3. d2 \in DriverStates
        BY <3>2, SectionsAndTurn
      <3>4. QED
        BY <3>1, <3>3
    <2> HIDE DEF b, d2
    <2>6. Drives(d2)
      BY <2>4, <2>5, SavedConstants DEF Drives
    <2>7. Hears(d2, b)
      BY <2>4, <2>5 DEF Hears
    <2>8. Waits(d2, b, s, u2)
      BY <1>1, <2>3, <2>4, <2>5 DEF Waits
    <2>9. steering' = [steering EXCEPT ![p] = s]
      BY <1>1, <2>2, Unmoved
    <2>10. QED
      BY <1>1, <1>2, <2>1, <2>2, <2>4, <2>6, <2>7, <2>8, <2>9, SectionKeepsIt, ZenonT(30)
  \* What joins before a request is sent.
  <1>15. ASSUME NEW b \in WithNotifications(p)
         PROVE  /\ Sound(b) /\ b.given = c.given
                /\ QuietOnes(c.conversation, b.conversation)
                /\ UserIds(b.conversation) = UserIds(c.conversation)
                /\ \A t, r : TurnAnswered(c.conversation, t, r) => TurnAnswered(b.conversation, t, r)
    <2>1. b \in {c, Notified(c)}
      BY DEF WithNotifications
    <2>2. QED
      BY <1>1, <2>1, NotificationsAreQuiet, QuietKeepsAnswered
  <1>16. CASE Call(p)
    <2>1. PICK b \in WithNotifications(p) : Change(p, b)
      BY <1>16 DEF Call
    <2>2. Works(p) /\ body' = [body EXCEPT ![p] = b] /\ UNCHANGED place
      BY <2>1, Changes
    <2> DEFINE d2 == [d EXCEPT !.at = "streaming"]
               u2 == u \ UserIds(b.conversation)
    <2>3. body'[p] = b
      BY <1>1, <2>2 DEF Volatile
    <2>4. /\ d.at = "asking" /\ driver' = [driver EXCEPT ![p] = d2]
          /\ unread' = [unread EXCEPT ![p] = u2] /\ UNCHANGED <<handler, steering>>
      BY <1>16, <2>3 DEF Call, Carries, Goes
    <2>5. /\ d2.at = "streaming" /\ d2.turn = d.turn /\ d2.round = d.round
          /\ d2.calls = d.calls /\ d2.left = d.left /\ d2 \in DriverStates
      BY <1>1, Sections DEF DriverSections, InTurn
    <2> HIDE DEF d2
    <2>6. Drives(d2)
      BY <1>1, <2>4, <2>5 DEF Drives
    <2>7. Hears(d2, b)
      BY <1>1, <1>15, <2>4, <2>5 DEF Hears
    <2>8. Waits(d2, b, s, u2)
      <3>1. u2 \subseteq UserIds(b.conversation) \union ToSet(s)
        BY <1>1, <1>15 DEF Waits
      <3>2. s # <<>> => d2.turn # 0 /\ d2.at \in InTurn
        BY <1>1, <2>5 DEF Waits, InTurn
      <3>3. QED
        BY <1>1, <1>15, <2>5, <3>1, <3>2, WaitsOn
    <2>9. steering' = [steering EXCEPT ![p] = s]
      BY <1>1, <2>4, Unmoved
    <2>10. Sound(b)
      BY <1>15
    <2>11. QED
      BY <1>1, <1>2, <2>2, <2>4, <2>6, <2>7, <2>8, <2>9, <2>10, SectionKeepsIt
  <1>17. CASE NeedsCompaction(p)
    <2>1. PICK b \in WithNotifications(p) : Change(p, b)
      BY <1>17 DEF NeedsCompaction
    <2>2. Works(p) /\ body' = [body EXCEPT ![p] = b] /\ UNCHANGED place
      BY <2>1, Changes
    <2> DEFINE d2 == [d EXCEPT !.at = "compacting", !.left = MaxAttempts]
    <2>3. /\ d.at = "asking" /\ driver' = [driver EXCEPT ![p] = d2]
          /\ UNCHANGED <<handler, steering, unread>>
      <3>1. driver' = [driver EXCEPT ![p].at = "compacting", ![p].left = MaxAttempts]
            /\ d.at = "asking" /\ UNCHANGED <<handler, steering, unread>>
        BY <1>17 DEF NeedsCompaction
      <3>2. QED
        BY <1>1, <3>1 DEF Volatile, DriverStates
    <2>4. /\ d2.at = "compacting" /\ d2.turn = d.turn /\ d2.round = d.round /\ d2.left = 2
          /\ d2 \in DriverStates
      <3>1. d2 \in DriverStates
        BY <1>1, Attempts, SectionsAndLeft DEF DriverSections, InTurn
      <3>2. d2.at = "compacting" /\ d2.turn = d.turn /\ d2.round = d.round /\ d2.left = MaxAttempts
        BY <1>1 DEF DriverStates
      <3>3. QED
        BY <3>1, <3>2, Attempts
    <2> HIDE DEF d2
    <2>5. Drives(d2)
      BY <1>1, <2>3, <2>4 DEF Drives
    <2>6. Hears(d2, b)
      BY <1>1, <1>15, <2>3, <2>4 DEF Hears
    <2>7. Waits(d2, b, s, u)
      <3>1. u \subseteq UserIds(b.conversation) \union ToSet(s)
        BY <1>1, <1>15 DEF Waits
      <3>2. s # <<>> => d2.turn # 0 /\ d2.at \in InTurn
        BY <1>1, <2>4 DEF Waits, InTurn
      <3>3. QED
        BY <1>1, <1>15, <2>4, <3>1, <3>2, WaitsOn
    <2>8. steering' = [steering EXCEPT ![p] = s] /\ unread' = [unread EXCEPT ![p] = u]
      BY <1>1, <2>3, Unmoved
    <2>9. Sound(b)
      BY <1>15
    <2>10. QED
      BY <1>1, <1>2, <2>2, <2>3, <2>5, <2>6, <2>7, <2>8, <2>9, SectionKeepsIt
  <1>18. CASE CommitAnswer(p)
    <2> DEFINE r == d.round + 1
    <2>0. PICK k \in 0..MaxCalls : \E left \in 0..k :
              /\ Advance(p, Answered(c, d.turn, r, k), 1)
              /\ driver' = [driver EXCEPT ![p] =
                     [@ EXCEPT !.at = IF k = 0 /\ s = <<>> THEN "ended" ELSE "calls",
                               !.round = r, !.calls = k, !.left = left]]
      BY <1>18 DEF CommitAnswer
    <2>1. PICK left \in 0..k :
              /\ Advance(p, Answered(c, d.turn, r, k), 1)
              /\ driver' = [driver EXCEPT ![p] =
                     [@ EXCEPT !.at = IF k = 0 /\ s = <<>> THEN "ended" ELSE "calls",
                               !.round = r, !.calls = k, !.left = left]]
      BY <2>0
    <2> DEFINE b  == Answered(c, d.turn, r, k)
               at == IF k = 0 /\ s = <<>> THEN "ended" ELSE "calls"
               d2 == [d EXCEPT !.at = at, !.round = r, !.calls = k, !.left = left]
    <2>2. Works(p) /\ body' = [body EXCEPT ![p] = b] /\ UNCHANGED place
      BY <2>1, Changes
    <2>3. /\ d.at = "streaming" /\ driver' = [driver EXCEPT ![p] = d2]
          /\ UNCHANGED <<handler, steering, unread>>
      BY <1>18, <2>1 DEF CommitAnswer
    <2>4. d.turn \in 1..MaxGiven /\ d.turn <= c.given /\ r \in 1..MaxIterations
          /\ TurnAnswered(c.conversation, d.turn, r - 1)
      <3>1. d.turn \in 1..MaxGiven /\ d.round \in 0..MaxIterations /\ d.round < MaxIterations
        BY <1>1, <2>3, SavedConstants DEF Drives, DriverStates
      <3>2. r - 1 = d.round /\ r \in 1..MaxIterations
        BY <3>1, SavedConstants
      <3>3. QED
        BY <1>1, <2>3, <3>1, <3>2 DEF Hears
    <2>5. /\ Sound(b) /\ b.given = c.given /\ OwnStay(c.conversation, b.conversation)
          /\ UserIds(c.conversation) \subseteq UserIds(b.conversation)
          /\ AwaitsResults(b.conversation, d.turn, r, k)
      BY <1>1, <2>4, AnsweredIsSound
    <2>6. /\ d2.at = at /\ d2.turn = d.turn /\ d2.round = r /\ d2.calls = k
          /\ d2 \in DriverStates
      <3>1. left \in 0..MaxCalls /\ left \in 0..Larger(MaxCalls, MaxAttempts)
        <4>1. left \in 0..MaxCalls
          BY SavedConstants
        <4>2. QED
          BY <4>1, Attempts
      <3>2. r \in 0..MaxIterations /\ at \in DriverSections
        BY <2>4, SavedConstants DEF DriverSections, InTurn
      <3> HIDE DEF at, r
      <3>3. QED
        BY <1>1, <3>1, <3>2 DEF DriverStates
    <2>7. at \in {"ended", "calls"} /\ (at = "ended" => s = <<>>)
      OBVIOUS
    <2> HIDE DEF d2, b, at
    <2>8. Drives(d2)
      BY <2>4, <2>6, <2>7 DEF Drives
    <2>9. Hears(d2, b)
      BY <2>4, <2>5, <2>6, <2>7 DEF Hears
    <2>10. Waits(d2, b, s, u)
      <3>1. UserIds(b.conversation) \subseteq UserIds(c.conversation)
        BY <2>5, OwnStayInOrder
      <3>2. u \subseteq UserIds(b.conversation) \union ToSet(s)
        BY <1>1, <2>5 DEF Waits
      <3>3. s # <<>> => d2.turn # 0 /\ d2.at \in InTurn
        BY <1>1, <2>6, <2>7 DEF Waits, InTurn
      <3>4. QED
        BY <1>1, <2>5, <2>6, <2>7, <3>1, <3>2, <3>3, WaitsOn
    <2>11. steering' = [steering EXCEPT ![p] = s] /\ unread' = [unread EXCEPT ![p] = u]
      BY <1>1, <2>3, Unmoved
    <2>12. QED
      BY <1>1, <1>2, <2>2, <2>3, <2>5, <2>8, <2>9, <2>10, <2>11, SectionKeepsIt
  <1>19. CASE PushResults(p)
    <2> DEFINE e  == ResultsInOrder(c, d.turn, d.round, d.calls)
               b  == Steered(e, s)
               at == IF AtLimit(d) THEN "ended" ELSE "asking"
               d2 == [d EXCEPT !.at = at, !.calls = 0]
    <2>1. /\ d.at = "calls"
          /\ Change(p, b) \/ \E n \in Nat : Advance(p, b, n)
          /\ steering' = [steering EXCEPT ![p] = <<>>] /\ UNCHANGED <<handler, unread>>
          /\ driver' = [driver EXCEPT ![p].at = at, ![p].calls = 0]
      <3>1. /\ d.at = "calls"
            /\ steering' = [steering EXCEPT ![p] = <<>>] /\ UNCHANGED <<handler, unread>>
            /\ driver' = [driver EXCEPT ![p].at = at, ![p].calls = 0]
        BY <1>19 DEF PushResults
      <3> DEFINE steps == (IF s # <<>> THEN 1 ELSE 0) + (IF AtLimit(d) THEN 1 ELSE 0)
      <3>2. IF steps = 0 THEN Change(p, b) ELSE Advance(p, b, steps)
        BY <1>19 DEF PushResults
      <3>3. steps \in Nat
        OBVIOUS
      <3> HIDE DEF steps, b
      <3>4. QED
        BY <3>1, <3>2, <3>3
    <2>2. Works(p) /\ body' = [body EXCEPT ![p] = b] /\ UNCHANGED place
      BY <2>1, Changes
    <2>3. driver' = [driver EXCEPT ![p] = d2]
      BY <1>1, <2>1 DEF Volatile, DriverStates
    <2>4. /\ d.turn \in 1..MaxGiven /\ d.round \in 1..MaxIterations /\ d.calls \in 0..MaxCalls
          /\ AwaitsResults(c.conversation, d.turn, d.round, d.calls)
      <3>1. AwaitsResults(c.conversation, d.turn, d.round, d.calls)
        BY <1>1, <2>1 DEF Hears
      <3>2. PICK a \in DOMAIN c.conversation : c.conversation[a] = Answer(d.turn, d.round, d.calls)
        BY <3>1 DEF AwaitsResults
      <3>3. Answer(d.turn, d.round, d.calls) \in Messages
        BY <1>1, <3>2, BodyParts
      <3>4. QED
        BY <3>1, <3>3, MessageKinds, Fields
    <2>5. /\ Sound(e) /\ e.given = c.given /\ OwnStay(c.conversation, e.conversation)
          /\ UserIds(c.conversation) \subseteq UserIds(e.conversation)
          /\ TurnAnswered(e.conversation, d.turn, d.round)
      BY <1>1, <2>4, ResultsAreSound
    <2>6. Waits(d, e, s, u)
      <3>1. UserIds(e.conversation) \subseteq UserIds(c.conversation)
        BY <2>5, OwnStayInOrder
      <3>2. u \subseteq UserIds(e.conversation) \union ToSet(s)
        BY <1>1, <2>5 DEF Waits
      <3>3. s # <<>> => d.turn # 0 /\ d.at \in InTurn
        BY <1>1 DEF Waits
      <3>4. QED
        BY <1>1, <2>5, <3>1, <3>2, <3>3, WaitsOn
    <2> HIDE DEF e
    <2>7. /\ Sound(b) /\ b.given = e.given /\ QuietOnes(e.conversation, b.conversation)
          /\ \A d3 : d3.at # "summarising" => Waits(d3, b, <<>>, u)
      BY <2>5, <2>6, Delivered
    <2>8. /\ d2.at = at /\ d2.turn = d.turn /\ d2.round = d.round /\ d2 \in DriverStates
      <3>1. at \in DriverSections /\ 0 \in 0..MaxCalls
        BY SavedConstants DEF DriverSections, InTurn
      <3> HIDE DEF at
      <3>2. QED
        BY <1>1, <3>1 DEF DriverStates
    <2>9. at \in {"ended", "asking"} /\ (at = "asking" => d.round < MaxIterations)
      BY <1>2 DEF AtLimit
    <2> HIDE DEF d2, b, at
    <2>10. Drives(d2)
      BY <2>4, <2>8, <2>9 DEF Drives
    <2>11. TurnAnswered(b.conversation, d.turn, d.round)
      BY <2>5, <2>7, QuietKeepsAnswered
    <2>12. Hears(d2, b)
      BY <1>1, <2>5, <2>7, <2>8, <2>9, <2>11 DEF Hears
    <2>13. Waits(d2, b, <<>>, u)
      BY <2>7, <2>8, <2>9
    <2>14. unread' = [unread EXCEPT ![p] = u]
      BY <1>1, <2>1, Unmoved
    <2>15. steering' = [steering EXCEPT ![p] = <<>>] /\ handler' = handler
      BY <2>1
    <2>16. QED
      BY <1>1, <1>2, <2>2, <2>3, <2>7, <2>10, <2>12, <2>13, <2>14, <2>15, SectionKeepsIt
  <1>20. CASE EndEarly(p)
    <2> DEFINE b  == Steered(c, s)
               d2 == [d EXCEPT !.at = "ended"]
    <2>1. Works(p) /\ body' = [body EXCEPT ![p] = b] /\ UNCHANGED place
      BY <1>20, Changes DEF EndEarly
    <2>2. /\ steering' = [steering EXCEPT ![p] = <<>>] /\ driver' = [driver EXCEPT ![p] = d2]
          /\ UNCHANGED <<handler, unread>>
      BY <1>20 DEF EndEarly, Goes
    <2>3. /\ Sound(b) /\ b.given = c.given
          /\ \A d3 : d3.at # "summarising" => Waits(d3, b, <<>>, u)
      BY <1>1, Delivered
    <2>4. d2.at = "ended" /\ d2.turn = d.turn /\ Drives(d2) /\ Hears(d2, c)
      BY <1>1, <1>5, Sections DEF DriverSections
    <2> HIDE DEF b, d2
    <2>5. Hears(d2, b) /\ Waits(d2, b, <<>>, u)
      BY <2>3, <2>4 DEF Hears
    <2>6. unread' = [unread EXCEPT ![p] = u]
      BY <1>1, <2>2, Unmoved
    <2>7. handler' = handler /\ Sound(b) /\ Drives(d2)
          /\ steering' = [steering EXCEPT ![p] = <<>>] /\ driver' = [driver EXCEPT ![p] = d2]
      BY <2>2, <2>3, <2>4
    <2>8. QED
      BY <1>1, <1>2, <2>1, <2>5, <2>6, <2>7, SectionKeepsIt
  <1>21. CASE AskSummary(p)
    <2> DEFINE d2 == [d EXCEPT !.at = "summarising", !.left = @ - 1]
               u2 == u \ UserIds(c.conversation)
    <2>1. Works(p) /\ body' = [body EXCEPT ![p] = c] /\ UNCHANGED place
      BY <1>21, Changes DEF AskSummary
    <2>2. /\ d.at = "compacting" /\ unread' = [unread EXCEPT ![p] = u2]
          /\ driver' = [driver EXCEPT ![p].at = "summarising", ![p].left = @ - 1]
          /\ UNCHANGED <<handler, steering>>
      BY <1>1, <1>21, <2>1 DEF AskSummary, Carries, Volatile
    <2>3. driver' = [driver EXCEPT ![p] = d2]
      BY <1>1, <2>2 DEF Volatile, DriverStates
    <2>4. /\ d2.at = "summarising" /\ d2.turn = d.turn /\ d2.round = d.round
          /\ d2 \in DriverStates
      <3>1. d.left - 1 \in 0..Larger(MaxCalls, MaxAttempts)
        BY <1>1, <2>2, Attempts DEF Drives, DriverStates
      <3>2. QED
        BY <1>1, <3>1 DEF DriverStates, DriverSections, InTurn
    <2> HIDE DEF d2
    <2>5. Drives(d2) /\ Hears(d2, c)
      BY <1>1, <2>2, <2>4 DEF Drives, Hears
    <2>6. Waits(d2, c, s, u2)
      <3>1. u2 \subseteq UserIds(c.conversation) \union ToSet(s) /\ u2 \subseteq u
            /\ u2 \intersect UserIds(c.conversation) = {}
        BY <1>1 DEF Waits
      <3>2. s # <<>> => d2.turn # 0 /\ d2.at \in InTurn
        BY <1>1, <2>4 DEF Waits, InTurn
      <3>3. QED
        BY <1>1, <3>1, <3>2, WaitsOn
    <2>7. steering' = [steering EXCEPT ![p] = s]
      BY <1>1, <2>2, Unmoved
    <2>8. QED
      BY <1>1, <1>2, <2>1, <2>2, <2>3, <2>5, <2>6, <2>7, SectionKeepsIt
  <1>22. CASE TakeSummary(p)
    <2>1. PICK kept \in MayKeep(c.conversation) : Advance(p, Compacted(c, kept), 1)
      BY <1>22 DEF TakeSummary
    <2> DEFINE b  == Compacted(c, kept)
               at == IF d.turn = 0 THEN "ended" ELSE "asking"
               d2 == [d EXCEPT !.at = at, !.left = 0]
    <2>2. Works(p) /\ body' = [body EXCEPT ![p] = b] /\ UNCHANGED place
      BY <2>1, Changes
    <2>3. /\ d.at = "summarising" /\ UNCHANGED <<handler, steering, unread>>
          /\ driver' = [driver EXCEPT ![p].at = at, ![p].left = 0]
      BY <1>22 DEF TakeSummary
    <2>4. driver' = [driver EXCEPT ![p] = d2]
      BY <1>1, <2>3 DEF Volatile, DriverStates
    <2>5. /\ Sound(b) /\ b.given = c.given
          /\ UserIds(b.conversation) \subseteq UserIds(c.conversation)
          /\ \A t, r : TurnAnswered(b.conversation, t, r)
      BY <1>1, CompactedIsSound
    <2>6. d2.at = at /\ d2.turn = d.turn /\ d2.round = d.round /\ d2 \in DriverStates
      <3>1. at \in DriverSections /\ 0 \in 0..Larger(MaxCalls, MaxAttempts)
        BY Attempts DEF DriverSections, InTurn
      <3> HIDE DEF at
      <3>2. d2 \in DriverStates
        BY <1>1, <3>1, SectionsAndLeft
      <3>3. QED
        BY <1>1, <3>1, <3>2 DEF DriverStates
    <2>7. at \in {"ended", "asking"} /\ (d.turn = 0 <=> at = "ended")
      OBVIOUS
    <2> HIDE DEF d2, at, b
    <2>8. Drives(d2)
      BY <1>1, <2>3, <2>6, <2>7 DEF Drives
    <2>9. Hears(d2, b)
      BY <1>1, <2>5, <2>6, <2>7 DEF Hears
    <2>10. Waits(d2, b, s, u)
      <3>1. u \subseteq UserIds(b.conversation) \union ToSet(s)
        BY <1>1, <2>3 DEF Waits
      <3>2. s # <<>> => d2.turn # 0 /\ d2.at \in InTurn
        BY <1>1, <2>6, <2>7 DEF Waits, InTurn
      <3>3. QED
        BY <1>1, <2>5, <2>6, <2>7, <3>1, <3>2, WaitsOn
    <2>11. steering' = [steering EXCEPT ![p] = s] /\ unread' = [unread EXCEPT ![p] = u]
      BY <1>1, <2>3, Unmoved
    <2>12. QED
      BY <1>1, <1>2, <2>2, <2>3, <2>4, <2>5, <2>8, <2>9, <2>10, <2>11, SectionKeepsIt
  <1>23. QED
    BY <1>6, <1>7, <1>8, <1>9, <1>10, <1>11, <1>12, <1>13, <1>14, <1>16, <1>17, <1>18,
       <1>19, <1>20, <1>21, <1>22 DEF Turn

LEMMA OthersKeepSaid ==
    ASSUME SaidInv, NEW p \in Procs, Others(p)
    PROVE  Volatile' /\ \A q \in Procs : Said(q)'
  <1> DEFINE c == body[p]
             d == driver[p]
             h == handler[p]
             s == steering[p]
             u == unread[p]
             Kept == Volatile' /\ \A q \in Procs : Said(q)'
  <1>1. /\ Volatile /\ \A q \in Procs : Said(q)
        /\ Sound(c) /\ c \in SessionBodies /\ Drives(d) /\ d \in DriverStates
        /\ Hears(d, c) /\ Waits(d, c, s, u) /\ h \in HandlerSections
        /\ Works(p) => place[p] = "live"
    BY AtWork
  <1>2. /\ body = [body EXCEPT ![p] = c] /\ driver = [driver EXCEPT ![p] = d]
        /\ handler = [handler EXCEPT ![p] = h] /\ steering = [steering EXCEPT ![p] = s]
        /\ unread = [unread EXCEPT ![p] = u]
    BY <1>1, Unmoved
  \* A section that changes no message and reads none.
  <1>3. ASSUME Works(p), UNCHANGED <<place, body, driver, steering, unread>>,
               NEW h2 \in HandlerSections, handler' = [handler EXCEPT ![p] = h2]
        PROVE  Kept
    <2>1. /\ UNCHANGED place /\ body' = [body EXCEPT ![p] = c]
          /\ driver' = [driver EXCEPT ![p] = d] /\ steering' = [steering EXCEPT ![p] = s]
          /\ unread' = [unread EXCEPT ![p] = u]
      BY <1>2, <1>3
    <2>2. QED
      BY <1>1, <1>3, <2>1, SectionKeepsIt
  <1>4. CASE Rename(p) \/ TellTitle(p)
    <2>1. Works(p) /\ UNCHANGED <<place, body>> /\ UNCHANGED volatile
      BY <1>4 DEF Rename, TellTitle, Retitle, Tell, memoryVars
    <2>2. UNCHANGED <<place, body, driver, steering, unread>>
          /\ handler' = [handler EXCEPT ![p] = h]
      BY <1>2, <2>1 DEF volatile
    <2>3. QED
      BY <1>1, <1>3, <2>1, <2>2
  <1>5. CASE PromoteForContext(p) \/ PublishHandler(p) \/ SettleHandler(p)
    <2>1. Works(p) /\ UNCHANGED <<place, body>>
      BY <1>5 DEF PromoteForContext, PublishHandler, SettleHandler, Settles, Save, TellRead,
         Tell, memoryVars, storeVars
    <2>2. /\ UNCHANGED <<driver, steering, unread>>
          /\ \/ HandlerGoes(p, "promoted") \/ HandlerGoes(p, "published") \/ HandlerGoes(p, "none")
      BY <1>5 DEF PromoteForContext, PublishHandler, SettleHandler
    <2>3. PICK h2 \in HandlerSections : handler' = [handler EXCEPT ![p] = h2]
      BY <2>2 DEF HandlerGoes, HandlerSections
    <2>4. QED
      BY <1>3, <2>1, <2>2, <2>3
  <1>6. CASE Steer(p)
    <2> DEFINE n  == c.given + 1
               b  == GiveMessage(c)
               s2 == Append(s, n)
               u2 == u \union {n}
    <2>1. Works(p) /\ body' = [body EXCEPT ![p] = b] /\ UNCHANGED place
      BY <1>6, Changes DEF Steer
    <2>2. /\ d.turn # 0 /\ d.at \in InTurn /\ c.given < MaxGiven
          /\ steering' = [steering EXCEPT ![p] = s2]
          /\ unread' = [unread EXCEPT ![p] = u2] /\ UNCHANGED <<driver, handler>>
      BY <1>6 DEF Steer, InProgress
    <2>3. Sound(b) /\ b.given = n /\ b.conversation = c.conversation
      BY <1>1, <2>2, GivenIsSound
    <2>4. c.given \in 0..MaxGiven /\ MaxGiven \in Int /\ n \in 1..MaxGiven /\ c.given < n
          /\ d.turn \in Int
      <3>1. c.given \in 0..MaxGiven /\ MaxGiven \in Nat
        BY <1>1, SavedConstants DEF SessionBodies
      <3>2. n = c.given + 1 /\ c.given < MaxGiven
        BY <2>2
      <3>3. d.turn \in Int
        BY <1>1 DEF DriverStates
      <3>4. QED
        BY <3>1, <3>2, <3>3
    <2> HIDE DEF b, n
    <2>5. Hears(d, b)
      BY <1>1, <2>3, <2>4 DEF Hears
    <2>6. Waits(d, b, s2, u2)
      <3>1. s \in Seq(1..MaxGiven) /\ Increasing(s) /\ \A i \in DOMAIN s : s[i] <= c.given
        BY <1>1 DEF Waits
      <3>2. /\ s2 \in Seq(1..MaxGiven) /\ Len(s2) = Len(s) + 1 /\ s2[Len(s) + 1] = n
            /\ \A i \in 1..Len(s) : s2[i] = s[i]
            /\ DOMAIN s = 1..Len(s) /\ DOMAIN s2 = 1..(Len(s) + 1) /\ Len(s) \in Nat
        BY <2>4, <3>1
      <3> HIDE DEF s2
      <3>3. \A i \in DOMAIN s : s[i] < n /\ s[i] \in Int
        <4> TAKE i \in DOMAIN s
        <4>1. i \in 1..Len(s)
          BY <3>2
        <4>2. s[i] \in 1..MaxGiven
          BY <3>1, <4>1, ElementOfSeq
        <4>3. QED
          BY <2>4, <3>1, <4>2
      <3>4. Increasing(s2)
        <4> SUFFICES ASSUME NEW i \in DOMAIN s2, NEW j \in DOMAIN s2, i < j
                     PROVE  s2[i] < s2[j]
          BY DEF Increasing
        <4>1. i \in DOMAIN s
          BY <3>2
        <4>2. CASE j \in DOMAIN s
          BY <3>1, <3>2, <4>1, <4>2 DEF Increasing
        <4>3. CASE j = Len(s) + 1
          BY <3>2, <3>3, <4>1, <4>3
        <4>4. QED
          BY <3>2, <4>2, <4>3
      <3>5. \A i \in DOMAIN s2 : i \in DOMAIN s \/ i = Len(s) + 1
        BY <3>2
      <3>6. \A i \in DOMAIN s2 : s2[i] <= n
        <4> TAKE i \in DOMAIN s2
        <4>1. CASE i \in DOMAIN s
          <5>1. s2[i] = s[i] /\ s[i] \in Int /\ s[i] < n
            BY <3>2, <3>3, <4>1
          <5>2. QED
            BY <2>4, <5>1
        <4>2. CASE i = Len(s) + 1
          BY <2>4, <3>2, <4>2
        <4>3. QED
          BY <3>5, <4>1, <4>2
      <3>7. \A m \in UserIds(c.conversation) : \A i \in DOMAIN s2 : m < s2[i]
        <4> TAKE m \in UserIds(c.conversation)
        <4> TAKE i \in DOMAIN s2
        <4>1. m \in 1..MaxGiven /\ m <= c.given
          BY <1>1, IdsWereGiven
        <4>2. CASE i \in DOMAIN s
          BY <1>1, <3>2, <4>2 DEF Waits
        <4>3. CASE i = Len(s) + 1
          BY <2>4, <3>2, <4>1, <4>3
        <4>4. QED
          BY <3>5, <4>2, <4>3
      <3>8. ToSet(s) \subseteq ToSet(s2) /\ n \in ToSet(s2)
        <4>1. \A i \in DOMAIN s : i \in DOMAIN s2 /\ s2[i] = s[i]
          BY <3>2
        <4>2. Len(s) + 1 \in DOMAIN s2
          BY <3>2
        <4>3. QED
          BY <3>2, <4>1, <4>2 DEF ToSet
      <3>9. u2 \in SUBSET (1..MaxGiven) /\ u2 \subseteq UserIds(c.conversation) \union ToSet(s2)
        BY <1>1, <2>4, <3>8 DEF Waits
      <3>10. d.at = "summarising" => u2 \intersect UserIds(c.conversation) = {}
        <4>1. n \notin UserIds(c.conversation)
          <5>1. ~(n <= c.given)
            BY <2>4
          <5>2. QED
            BY <1>1, <5>1, IdsWereGiven
        <4>2. QED
          BY <1>1, <4>1 DEF Waits
      <3>11. QED
        BY <2>2, <2>3, <3>2, <3>4, <3>6, <3>7, <3>9, <3>10 DEF Waits
    <2>7. handler' = [handler EXCEPT ![p] = h] /\ driver' = [driver EXCEPT ![p] = d]
      BY <1>2, <2>2
    <2> HIDE DEF s2, u2
    <2>8. steering' = [steering EXCEPT ![p] = s2] /\ unread' = [unread EXCEPT ![p] = u2]
          /\ Sound(b)
      BY <2>2, <2>3
    <2>9. QED
      BY <1>1, <2>1, <2>5, <2>6, <2>7, <2>8, SectionKeepsIt
  <1>7. CASE InjectContext(p)
    <2> DEFINE b == Notified(c)
    <2>1. Works(p) /\ body' = [body EXCEPT ![p] = b] /\ UNCHANGED place
      BY <1>7, Changes DEF InjectContext
    <2>2. /\ UNCHANGED <<driver, steering, unread>>
          /\ HandlerGoes(p, "changed") \/ HandlerGoes(p, "published")
      BY <1>7 DEF InjectContext
    <2>3. PICK h2 \in HandlerSections : handler' = [handler EXCEPT ![p] = h2]
      BY <2>2 DEF HandlerGoes, HandlerSections
    <2>4. /\ Sound(b) /\ b.given = c.given /\ QuietOnes(c.conversation, b.conversation)
          /\ UserIds(b.conversation) = UserIds(c.conversation)
          /\ \A i \in Added(c.conversation, b.conversation) : b.conversation[i] = Injected
      BY <1>1, NotificationsAreQuiet
    <2> HIDE DEF b
    <2>5. Hears(d, b)
      BY <1>1, <2>4, QuietKeepsAnswered, StillAwaited DEF Hears, QuietOnes
    <2>6. Waits(d, b, s, u)
      BY <1>1, <2>4 DEF Waits
    <2>7. /\ driver' = [driver EXCEPT ![p] = d] /\ steering' = [steering EXCEPT ![p] = s]
          /\ unread' = [unread EXCEPT ![p] = u] /\ Sound(b)
      BY <1>2, <2>2, <2>4
    <2>8. QED
      BY <1>1, <2>1, <2>3, <2>5, <2>6, <2>7, SectionKeepsIt
  <1>8. CASE Rewind(p)
    <2>1. PICK n \in UserIds(c.conversation) : AdvanceUntold(p, RewoundTo(c, n))
      BY <1>8 DEF Rewind
    <2> DEFINE b  == RewoundTo(c, n)
               u2 == u \ (UserIds(c.conversation) \ UserIds(b.conversation))
    <2>2. Works(p) /\ body' = [body EXCEPT ![p] = b] /\ UNCHANGED place
      BY <2>1, Changes
    <2>3. body'[p] = b
      BY <1>1, <2>2 DEF Volatile
    <2>4. /\ d.at \in {"off", "beginning", "begun"}
          /\ handler' = [handler EXCEPT ![p] = "changed"]
          /\ unread' = [unread EXCEPT ![p] = u2] /\ UNCHANGED <<driver, steering>>
      BY <1>8, <2>3 DEF Rewind, Idle, HandlerGoes
    <2>5. /\ Sound(b) /\ b.given = c.given
          /\ UserIds(b.conversation) \subseteq UserIds(c.conversation)
          /\ \A t : TurnAnswered(c.conversation, t, 0) => TurnAnswered(b.conversation, t, 0)
      BY <1>1, RewoundIsSound
    <2> HIDE DEF b
    <2>6. Hears(d, b)
      BY <1>1, <2>4, <2>5 DEF Hears, Drives
    <2>7. Waits(d, b, s, u2)
      <3>1. u2 \subseteq u /\ u2 \subseteq UserIds(b.conversation) \union ToSet(s)
        BY <1>1 DEF Waits
      <3>2. s # <<>> => d.turn # 0 /\ d.at \in InTurn
        BY <1>1 DEF Waits
      <3>3. QED
        BY <1>1, <2>5, <3>1, <3>2, WaitsOn
    <2>8. /\ driver' = [driver EXCEPT ![p] = d] /\ steering' = [steering EXCEPT ![p] = s]
          /\ "changed" \in HandlerSections /\ Sound(b)
      BY <1>2, <2>4, <2>5 DEF HandlerSections
    <2>9. QED
      BY <1>1, <2>2, <2>4, <2>6, <2>7, <2>8, SectionKeepsIt
  <1>9. QED
    BY <1>4, <1>5, <1>6, <1>7, <1>8 DEF Others

\* In this specification a session's bodies are those of Conversation.
OfTheSession == Bodies = SessionBodies /\ FreshBody = NothingSaid

LEMMA WhatIsSavedIsSound ==
    ASSUME OfTheSession, SaidInv
    PROVE  /\ current # 0 => Sound(SavedBody)
           /\ Blank.body = NothingSaid /\ Renamed.body = SavedBody /\ Saved.body = SavedBody
  <1>1. current # 0 => current \in Generations
    BY DEF SaidInv, StoreInv, Shape, Generations
  <1>2. QED
    BY <1>1 DEF SaidInv, SavedIsSound, SavedBody, PartNames, Blank, OfTheSession, Renamed, Saved

LEMMA NothingIsThere ==
    /\ Sound(NothingSaid) /\ UserIds(NothingSaid.conversation) = {}
    /\ Hears(Off, NothingSaid) /\ Waits(Off, NothingSaid, <<>>, {})
  <1>1. NothingSaid.conversation = <<>>
    BY DEF NothingSaid
  <1>2. UserIds(<<>>) = {}
    BY UserIdsAre DEF Own
  <1>3. QED
    BY <1>1, <1>2, NothingIsSound, OffIsAtRest

LEMMA OpeningKeepsSaid ==
    ASSUME Races = {}, OfTheSession, SaidInv, NEW p \in Procs, Open(p) \/ End(p) \/ Store(p)
    PROVE  Volatile' /\ \A q \in Procs : Said(q)'
  <1> DEFINE c == body[p]
             d == driver[p]
             h == handler[p]
             s == steering[p]
             u == unread[p]
             Kept == Volatile' /\ \A q \in Procs : Said(q)'
  <1>1. /\ Volatile /\ \A q \in Procs : Said(q)
        /\ Sound(c) /\ c \in SessionBodies /\ Drives(d) /\ d \in DriverStates
        /\ Hears(d, c) /\ Waits(d, c, s, u) /\ h \in HandlerSections
    BY AtWork
  <1>2. /\ body = [body EXCEPT ![p] = c] /\ driver = [driver EXCEPT ![p] = d]
        /\ handler = [handler EXCEPT ![p] = h] /\ steering = [steering EXCEPT ![p] = s]
        /\ unread = [unread EXCEPT ![p] = u]
    BY <1>1, Unmoved
  <1>3. place[p] # "live" => d = Off /\ h = "none" /\ s = <<>>
    BY <1>1 DEF Said
  <1>4. place[p] \in {"away", "renaming"} => u = {}
    BY <1>1 DEF Said
  <1>5. place \in [Procs -> Places] /\ place[p] # "leaving"
    BY DEF SaidInv, StoreInv, Shape, OneOpener
  <1>6. "none" \in HandlerSections /\ Drives(Off)
    BY OffIsAtRest DEF HandlerSections
  \* The session is opened, or let go: nothing runs in it.
  <1>7. ASSUME NEW at \in Places, place' = [place EXCEPT ![p] = at],
               NEW b, body' = [body EXCEPT ![p] = b], Sound(b),
               driver' = [driver EXCEPT ![p] = Off], handler' = [handler EXCEPT ![p] = "none"],
               steering' = [steering EXCEPT ![p] = <<>>],
               NEW u2, unread' = [unread EXCEPT ![p] = u2],
               u2 \in SUBSET (1..MaxGiven), u2 \subseteq UserIds(b.conversation),
               at \in {"away", "renaming"} => u2 = {}
        PROVE  Kept
    <2>1. place'[p] = at /\ \A q \in Procs \ {p} : place'[q] = place[q]
      BY <1>5, <1>7
    <2>2. Hears(Off, b) /\ Waits(Off, b, <<>>, u2)
      BY <1>7, OffIsAtRest
    <2>3. QED
      BY <1>1, <1>6, <1>7, <2>1, <2>2, StepOfOne
  <1>8. CASE Start(p) /\ Open(p)
    <2>1. /\ place' = [place EXCEPT ![p] = "live"] /\ place[p] = "away"
          /\ body' = [body EXCEPT ![p] = NothingSaid]
          /\ UNCHANGED <<driver, handler, steering>>
      BY <1>8, WhatIsSavedIsSound DEF Start, Open, Holds
    <2>2. unread' = [unread EXCEPT ![p] = {}]
      <3>1. body'[p] = NothingSaid
        BY <1>1, <2>1 DEF Volatile
      <3>2. unread' = [unread EXCEPT ![p] = UserIds(body'[p].conversation)]
        BY <1>8 DEF Open
      <3>3. QED
        BY <3>1, <3>2, NothingIsThere
    <2>3. /\ driver' = [driver EXCEPT ![p] = Off] /\ handler' = [handler EXCEPT ![p] = "none"]
          /\ steering' = [steering EXCEPT ![p] = <<>>]
      BY <1>2, <1>3, <2>1
    <2>4. "live" \in Places
      BY DEF Places
    <2>5. QED
      BY <1>7, <2>1, <2>2, <2>3, <2>4, NothingIsThere, ZenonT(30)
  <1>9. CASE Load(p) /\ Open(p)
    <2> DEFINE u2 == UserIds(SavedBody.conversation)
    <2>1. /\ place' = [place EXCEPT ![p] = "loaded"] /\ place[p] = "away" /\ current # 0
          /\ body' = [body EXCEPT ![p] = SavedBody]
          /\ UNCHANGED <<driver, handler, steering>>
      BY <1>9, WhatIsSavedIsSound DEF Load, Open, Holds
    <2>2. unread' = [unread EXCEPT ![p] = u2]
      <3>1. body'[p] = SavedBody
        BY <1>1, <2>1 DEF Volatile
      <3>2. unread' = [unread EXCEPT ![p] = UserIds(body'[p].conversation)]
        BY <1>9 DEF Open
      <3>3. QED
        BY <3>1, <3>2
    <2>3. /\ driver' = [driver EXCEPT ![p] = Off] /\ handler' = [handler EXCEPT ![p] = "none"]
          /\ steering' = [steering EXCEPT ![p] = <<>>]
      BY <1>2, <1>3, <2>1
    <2>4. Sound(SavedBody)
      BY <2>1, WhatIsSavedIsSound
    <2>5. u2 \in SUBSET (1..MaxGiven)
      BY <2>4, IdsWereGiven
    <2>6. "loaded" \in Places
      BY DEF Places
    <2>7. QED
      BY <1>7, <2>1, <2>2, <2>3, <2>4, <2>5, <2>6, ZenonT(30)
  <1>10. CASE Attach(p) /\ Store(p)
    <2>1. /\ place' = [place EXCEPT ![p] = "live"] /\ place[p] = "loaded"
          /\ UNCHANGED <<body, driver, handler, steering, unread>>
      <3>1. UNCHANGED volatile
        BY <1>10 DEF Store
      <3>2. QED
        BY <1>10, <3>1 DEF Attach, memoryVars, volatile
    <2>2. /\ body' = [body EXCEPT ![p] = c]
          /\ driver' = [driver EXCEPT ![p] = Off] /\ handler' = [handler EXCEPT ![p] = "none"]
          /\ steering' = [steering EXCEPT ![p] = <<>>] /\ unread' = [unread EXCEPT ![p] = u]
          /\ s = <<>>
      BY <1>2, <1>3, <2>1
    <2>3. u \in SUBSET (1..MaxGiven) /\ u \subseteq UserIds(c.conversation)
      BY <1>1, <2>2 DEF Waits, ToSet
    <2>4. "live" \in Places
      BY DEF Places
    <2>5. Sound(c)
      BY <1>1
    <2>6. QED
      BY <1>7, <2>1, <2>2, <2>3, <2>4, <2>5, ZenonT(30)
  <1>11. CASE End(p)
    <2>1. /\ place' = [place EXCEPT ![p] = "away"]
          /\ body' = [body EXCEPT ![p] = NothingSaid]
      BY <1>11, WhatIsSavedIsSound DEF End, Stop, Holds
    <2>2. /\ driver' = [driver EXCEPT ![p] = Off] /\ handler' = [handler EXCEPT ![p] = "none"]
          /\ steering' = [steering EXCEPT ![p] = <<>>] /\ unread' = [unread EXCEPT ![p] = {}]
      BY <1>11 DEF End, HandlerGoes
    <2>3. "away" \in Places
      BY DEF Places
    <2>4. QED
      BY <1>7, <2>1, <2>2, <2>3, NothingIsThere, ZenonT(30)
  <1>12. CASE RenameStored(p) /\ Store(p)
    <2>1. /\ place' = [place EXCEPT ![p] = "renaming"] /\ place[p] = "away"
          /\ body' = [body EXCEPT ![p] = SavedBody] /\ current # 0
      BY <1>12, WhatIsSavedIsSound DEF RenameStored, Holds
    <2>2. UNCHANGED <<driver, handler, steering, unread>>
      BY <1>12 DEF Store, volatile
    <2>3. /\ driver' = [driver EXCEPT ![p] = Off] /\ handler' = [handler EXCEPT ![p] = "none"]
          /\ steering' = [steering EXCEPT ![p] = <<>>] /\ unread' = [unread EXCEPT ![p] = {}]
      BY <1>2, <1>3, <1>4, <2>1, <2>2
    <2>4. Sound(SavedBody)
      BY <2>1, WhatIsSavedIsSound
    <2>5. "renaming" \in Places
      BY DEF Places
    <2>6. PICK none : none = {}
      OBVIOUS
    <2>7. /\ unread' = [unread EXCEPT ![p] = none] /\ none \in SUBSET (1..MaxGiven)
          /\ none \subseteq UserIds(SavedBody.conversation)
      BY <2>3, <2>6
    <2>8. QED
      BY <1>7, <2>1, <2>3, <2>4, <2>5, <2>6, <2>7, ZenonT(30)
  <1>13. CASE (WritePart(p) \/ PointCurrent(p) \/ FailWrite(p)) /\ Store(p)
    <2>1. UNCHANGED <<driver, handler, steering, unread>>
      BY <1>13 DEF Store, volatile
    <2>2. CASE UNCHANGED <<place, body>>
      <3>1. /\ place'[p] = place[p] /\ \A q \in Procs \ {p} : place'[q] = place[q]
        BY <2>2
      <3>2. /\ body' = [body EXCEPT ![p] = c] /\ driver' = [driver EXCEPT ![p] = d]
            /\ handler' = [handler EXCEPT ![p] = h] /\ steering' = [steering EXCEPT ![p] = s]
            /\ unread' = [unread EXCEPT ![p] = u]
        BY <1>2, <2>1, <2>2
      <3>3. QED
        BY <1>1, <1>3, <1>4, <3>1, <3>2, StepOfOne, ZenonT(30)
    <2>3. CASE ~UNCHANGED <<place, body>>
      <3>1. /\ place[p] = "renaming" /\ place' = [place EXCEPT ![p] = "away"]
            /\ body' = [body EXCEPT ![p] = NothingSaid]
        BY <1>13, <2>3, WhatIsSavedIsSound
           DEF WritePart, PointCurrent, FailWrite, Committed, Holds, memoryVars
      <3>2. /\ driver' = [driver EXCEPT ![p] = Off] /\ handler' = [handler EXCEPT ![p] = "none"]
            /\ steering' = [steering EXCEPT ![p] = <<>>] /\ unread' = [unread EXCEPT ![p] = {}]
        BY <1>2, <1>3, <1>4, <2>1, <3>1
      <3>3. "away" \in Places
        BY DEF Places
      <3>4. QED
        BY <1>7, <3>1, <3>2, <3>3, NothingIsThere, ZenonT(30)
    <2>4. QED
      BY <2>2, <2>3
  <1>14. ~Leave(p)
    BY DEF Leave
  <1>15. QED
    BY <1>8, <1>9, <1>10, <1>11, <1>12, <1>13, <1>14 DEF Open, Store

-----------------------------------------------------------------------------
(* What is on disk. *)

LEMMA NoFileIsSound ==
    ASSUME OfTheSession
    PROVE  NoFile.body = NothingSaid /\ Sound(NoFile.body)
  BY NothingIsSound DEF NoFile, Blank, OfTheSession

LEMMA ForgetLeavesSound ==
    ASSUME OfTheSession, SavedIsSound, Forget
    PROVE  SavedIsSound'
  <1>1. CASE KeepUnread
    BY <1>1 DEF Forget, SavedIsSound
  <1>2. CASE ~KeepUnread
    <2>1. parts' = [g \in Generations |-> IF g = current THEN parts[g] ELSE Unwritten]
      BY <1>2 DEF Forget
    <2>2. /\ Unwritten \in [PartNames -> Snapshots \union {NoFile}]
          /\ \A part \in PartNames : Unwritten[part] = NoFile
      BY DEF Unwritten
    <2>3. parts' \in [Generations -> [PartNames -> Snapshots \union {NoFile}]]
      BY <2>1, <2>2 DEF SavedIsSound
    <2>4. \A g \in Generations : \A part \in PartNames : Sound(parts'[g][part].body)
      BY <2>1, <2>2, NoFileIsSound DEF SavedIsSound
    <2>5. QED
      BY <2>3, <2>4 DEF SavedIsSound
  <1>3. QED
    BY <1>1, <1>2

LEMMA WrittenIsSound ==
    ASSUME OfTheSession, SaidInv, NEW p \in Procs, WritePart(p)
    PROVE  SavedIsSound'
  <1> DEFINE w == writing[p]
             part == Parts[w.next]
  <1>1. /\ w.generation \in Generations /\ w.next \in 1..3 /\ w.snapshot = Held(p)
    <2>1. w # NotWriting /\ w.next < 4
      BY PartsInOrder DEF WritePart
    <2>2. w.generation \in Generations /\ w.next \in 1..4 /\ w.snapshot = Held(p)
      BY <2>1, PartsInOrder DEF SaidInv, StoreInv, CommitIsAhead
    <2>3. QED
      BY <2>1, <2>2
  <1>2. part \in PartNames
    BY <1>1, PartsInOrder DEF PartNames
  <1>3. w.snapshot \in Snapshots /\ w.snapshot.body = body[p] /\ Sound(body[p])
    BY <1>1, AtWork DEF SaidInv, StoreInv, Shape, Held, Snapshots, OfTheSession
  <1>4. parts' = [parts EXCEPT ![w.generation][part] = w.snapshot]
    BY DEF WritePart
  <1> HIDE DEF w, part
  <1>5. parts' \in [Generations -> [PartNames -> Snapshots \union {NoFile}]]
    BY <1>1, <1>2, <1>3, <1>4 DEF SaidInv, SavedIsSound
  <1>6. ASSUME NEW g \in Generations, NEW name \in PartNames
        PROVE  Sound(parts'[g][name].body)
    <2>1. parts'[g][name] = parts[g][name] \/ parts'[g][name] = w.snapshot
      BY <1>1, <1>2, <1>4 DEF SaidInv, SavedIsSound
    <2>2. QED
      BY <1>3, <2>1 DEF SaidInv, SavedIsSound
  <1>7. QED
    BY <1>5, <1>6 DEF SavedIsSound

LEMMA DiskStaysSound ==
    ASSUME OfTheSession, SaidInv, [Next]_vars
    PROVE  SavedIsSound'
  <1>1. CASE UNCHANGED parts
    BY <1>1 DEF SaidInv, SavedIsSound
  <1>2. CASE Forget
    BY <1>2, ForgetLeavesSound DEF SaidInv
  <1>3. CASE \E p \in Procs : WritePart(p)
    BY <1>3, WrittenIsSound
  <1>4. UNCHANGED parts \/ Forget \/ \E p \in Procs : WritePart(p)
    <2>1. CASE UNCHANGED storeVars
      BY <2>1 DEF storeVars, diskVars
    <2>2. ASSUME NEW p \in Procs, StoreStep(p)
          PROVE  UNCHANGED parts \/ Forget \/ WritePart(p)
      BY <2>2 DEF StoreStep, Start, Load, Attach, Stop, Leave, Retitle, Tell, Save,
         RenameStored, PointCurrent, FailWrite, diskVars
    <2>3. ASSUME NEW p \in Procs, NEW b,
                 \/ Change(p, b) \/ AdvanceUntold(p, b) \/ \E n \in Nat : Advance(p, b, n)
          PROVE  UNCHANGED parts
      BY <2>3 DEF Change, AdvanceUntold, Advance, diskVars
    <2>4. QED
      BY <2>1, <2>2, <2>3, NextIsOfTheStore DEF AnyNext, AnyStep
  <1>5. QED
    BY <1>1, <1>2, <1>3, <1>4

LEMMA SaidInvariant == ASSUME Races = {}, OfTheSession PROVE Spec => []SaidInv
  <1>1. Init => SaidInv
    <2> SUFFICES ASSUME Init PROVE SaidInv
      OBVIOUS
    <2>1. StoreInv
      BY StoreInvInit DEF Init
    <2>2. /\ body = [p \in Procs |-> NothingSaid] /\ place = [p \in Procs |-> "away"]
          /\ driver = [p \in Procs |-> Off] /\ handler = [p \in Procs |-> "none"]
          /\ steering = [p \in Procs |-> <<>>] /\ unread = [p \in Procs |-> {}]
          /\ parts = [g \in Generations |-> Unwritten]
      BY DEF Init, StoreInit, OfTheSession
    <2>3. Volatile
      BY <2>2, NothingIsThere, OffIsAtRest DEF Volatile, HandlerSections, Sound
    <2>4. SavedIsSound
      BY <2>2, NoFileIsSound DEF SavedIsSound, Unwritten
    <2>5. \A p \in Procs : Said(p)
      BY <2>2, NothingIsThere, OffIsAtRest DEF Said
    <2>6. QED
      BY <2>1, <2>3, <2>4, <2>5 DEF SaidInv
  <1>2. SaidInv /\ [Next]_vars => SaidInv'
    <2> SUFFICES ASSUME SaidInv, [Next]_vars PROVE SaidInv'
      OBVIOUS
    <2>1. StoreInv'
      BY NextIsOfTheStore, StoreInvStep DEF SaidInv
    <2>2. SavedIsSound'
      BY DiskStaysSound
    <2>3. CASE UNCHANGED vars
      BY <2>1, <2>2, <2>3 DEF SaidInv, Volatile, Said, vars, storeVars, memoryVars, volatile
    <2>4. CASE Next
      BY <2>1, <2>2, <2>4, TurnKeepsSaid, OthersKeepSaid, OpeningKeepsSaid DEF Next, SaidInv
    <2>5. QED
      BY <2>3, <2>4
  <1>3. QED
    BY <1>1, <1>2, PTL DEF Spec

\* Every part of the session, on disk and in memory, is of its type.
THEOREM SavedIsTyped == ASSUME Races = {}, OfTheSession PROVE Spec => []SavedTypeOK
  <1>1. SaidInv => SavedTypeOK
    <2> SUFFICES ASSUME SaidInv PROVE SavedTypeOK
      OBVIOUS
    <2>1. StoreTypeOK
      BY DEF StoreTypeOK, SaidInv, StoreInv, Shape, Disk, SavedIsSound, Volatile, OfTheSession
    <2>2. QED
      BY <2>1 DEF SavedTypeOK, SaidInv, Volatile, DriverStates, HandlerSections
  <1>2. QED
    BY <1>1, SaidInvariant, PTL

\* The calls of an answer have all their results, in order, or none.
THEOREM SavedCallsAreAnswered ==
    ASSUME Races = {}, OfTheSession PROVE Spec => []CallsAreAnsweredInTurn
  <1>1. SaidInv => CallsAreAnsweredInTurn
    BY AtWork DEF CallsAreAnsweredInTurn, Sound
  <1>2. QED
    BY <1>1, SaidInvariant, PTL

\* What the person sent stays, in order and once, until a model call carries it.
THEOREM SavedMessagesReachTheModel ==
    ASSUME Races = {}, OfTheSession PROVE Spec => []UserMessagesReachTheModel
  <1>1. SaidInv => UserMessagesReachTheModel
    <2> SUFFICES ASSUME SaidInv, NEW p \in Procs
                 PROVE  LET pending == [i \in DOMAIN steering[p] |-> User(steering[p][i])]
                            kept    == body[p].conversation \o pending
                        IN unread[p] \subseteq UserIds(kept) /\ OwnInOrder(kept)
      BY DEF UserMessagesReachTheModel
    <2> DEFINE kept == body[p].conversation
                       \o [i \in DOMAIN steering[p] |-> User(steering[p][i])]
    <2>1. Sound(body[p]) /\ Waits(driver[p], body[p], steering[p], unread[p])
      BY AtWork
    <2>2. Steered(body[p], steering[p]).conversation = kept
      <3>1. body[p] \in SessionBodies
        BY <2>1 DEF Sound
      <3> HIDE DEF kept
      <3>2. Steered(body[p], steering[p]) = [conversation |-> kept, given |-> body[p].given]
        BY <3>1, Pushed DEF Steered, kept
      <3>3. QED
        BY <3>2
    <2>3. /\ Sound(Steered(body[p], steering[p]))
          /\ unread[p] \subseteq UserIds(Steered(body[p], steering[p]).conversation)
      BY <2>1, Delivered
    <2> HIDE DEF kept
    <2>4. unread[p] \subseteq UserIds(kept) /\ OwnInOrder(kept)
      BY <2>2, <2>3 DEF Sound
    <2>5. QED
      BY <2>4 DEF kept
  <1>2. QED
    BY <1>1, SaidInvariant, PTL
=============================================================================

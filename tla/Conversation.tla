---------------------------- MODULE Conversation ----------------------------
(***************************************************************************)
(* What the model is sent of a session, and what each handler does to it:  *)
(* the conversation of vibe-harness/src/engine/session_core.rs as          *)
(* engine/turn.rs, engine/compaction_run.rs and compaction.rs change it.   *)
(*                                                                         *)
(* A message says who wrote it and what it answers; what a person sends is  *)
(* numbered as it is given.                                                 *)
(***************************************************************************)
EXTENDS Integers, Sequences, SequencesExt

\* A message of the person's, and one the program wrote in their name: a
\* notification, injected context, the frame of a summary.
User(n)  == [role |-> "user", id |-> n]
Injected == [role |-> "injected"]

\* The r-th answer of turn t, which asks for k calls, and the result of its
\* i-th call.
Answer(t, r, k) == [role |-> "answer", turn |-> t, round |-> r, calls |-> k]
Result(t, r, i) == [role |-> "result", turn |-> t, round |-> r, call |-> i]

\* Nothing was said yet.
NothingSaid == [conversation |-> <<>>, given |-> 0]

IsUser(m)      == m.role = "user"
UserIds(conv)  == {m.id : m \in {n \in ToSet(conv) : IsUser(n)}}

Push(c, messages) == [c EXCEPT !.conversation = @ \o messages]

-----------------------------------------------------------------------------
\* The next message of the person's is accepted...
GiveMessage(c) == [c EXCEPT !.given = @ + 1]

\* ... and start_turn puts it in the conversation.
StartTurn(c) == Push(GiveMessage(c), <<User(c.given + 1)>>)

\* Fault: steering taken off the pending list and pushed nowhere.
TakenOnly(c, pending) == c

\* deliver_steering and keep_pending_steering: what was pending joins it.
Steered(c, pending) == Push(c, [i \in DOMAIN pending |-> User(pending[i])])

\* deliver_notifications: what ended in the background, as one message.
Notified(c) == Push(c, <<Injected>>)

\* commit_answer: r-th of turn t.
Answered(c, t, r, k) == Push(c, <<Answer(t, r, k)>>)

\* Fault: the results of calls that run side by side, as they come in.
ResultsAsTheyCome(c, t, r, k) == Push(c, [i \in 1..k |-> Result(t, r, k + 1 - i)])

\* run_turn, once every call of the answer ended: the results in the order the
\* model asked for them.
ResultsInOrder(c, t, r, k) == Push(c, [i \in 1..k |-> Result(t, r, i)])

\* preserved_user_messages: the last messages of the person's, in order, as many
\* as the budget keeps, at least one if there is any...
Own(conv) == {i \in DOMAIN conv : IsUser(conv[i])}

Increasing(s) == \A i, j \in DOMAIN s : i < j => s[i] < s[j]

LastOwn(conv) ==
    {at \in SeqOf(Own(conv), Cardinality(Own(conv))) :
        /\ Increasing(at)
        /\ Own(conv) # {} => at # <<>>
        /\ \A i \in Own(conv) \ ToSet(at) : \A j \in DOMAIN at : i < at[j]}

MayKeep(conv) == {[i \in DOMAIN at |-> conv[at[i]]] : at \in LastOwn(conv)}

\* ... and replacement: those kept, between the two frames.
Compacted(c, kept) ==
    [c EXCEPT !.conversation = <<Injected>> \o kept \o <<Injected>>]

\* rewind: the conversation before the message numbered n.
Position(conv, n) == CHOOSE i \in DOMAIN conv : conv[i] = User(n)

RewoundTo(c, n) ==
    [c EXCEPT !.conversation = SubSeq(@, 1, Position(@, n) - 1)]
=============================================================================

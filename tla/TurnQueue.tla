------------------------------ MODULE TurnQueue ------------------------------
(***************************************************************************)
(* The queue of turns to come of a unified session:                        *)
(* vibe-app-server/src/server/unified/queue.rs.                            *)
(*                                                                         *)
(* Every operation below is one section of the host mutex, so it is atomic *)
(* for the other threads; what an RPC does between two sections is the     *)
(* business of UnifiedSession, which extends this module and uses these    *)
(* operations as the conjuncts of its steps.                               *)
(*                                                                         *)
(* An item's fresh uuid is its number in creation order.  A request that   *)
(* the code refuses, or answers from the idempotency map, changes nothing  *)
(* and is therefore no step.                                               *)
(***************************************************************************)
EXTENDS Integers, SequencesExt

CONSTANTS
    Keys,        \* the idempotency keys a client sends
    NoKey,       \* a request without a key
    NoRecord,    \* a key no request has used yet
    Inputs,      \* what a client asks a turn to run: request params and entries
    MaxItems,    \* the capacity of the queue, 32 in the code
    MaxIds,      \* bound on the items one behaviour creates
    MaxTurns     \* bound on the turns one behaviour begins

Ids    == 1..MaxIds
Turns  == 1..MaxTurns
NoTurn == 0

Record == [id : Ids, params : Inputs]

ASSUME QueueConstants ==
    /\ MaxItems \in Nat /\ MaxIds \in Nat /\ MaxTurns \in Nat
    /\ NoKey \notin Keys
    /\ NoRecord \notin Record

VARIABLES
    items,         \* the queued records, the next one to run first
    paused,        \* the queue waits for a client's resume
    idempotency,   \* what each used key answers with
    steered,       \* the turn each steered item was folded into
    created,       \* how many items were ever created
    fate           \* history variable: what became of each item

queueVars == <<items, paused, idempotency, steered, created, fate>>

Fates == {"unknown", "queued", "taken", "removed", "steered"}

QueuedIds == {items[i].id : i \in DOMAIN items}

QueueInit ==
    /\ items = <<>>
    /\ paused = FALSE
    /\ idempotency = [key \in Keys |-> NoRecord]
    /\ steered = [id \in Ids |-> NoTurn]
    /\ created = 0
    /\ fate = [id \in Ids |-> "unknown"]

-----------------------------------------------------------------------------
(* Operations. *)

\* Faults, each a slip the properties below are there to catch: a key checked
\* by nobody, a capacity and an identifier off by one, a replacement that goes
\* to the back, a pause that outlives the items, an item read and not removed.
AnyKey(key)               == TRUE
RoomForOneMore            == Len(items) <= MaxItems
ReusedId                  == created
ReplacedLast(i, record)   == Append(RemoveAt(items, i), record)
PauseStays(left)          == paused
Peeked(i, how) ==
    /\ UNCHANGED <<items, paused>>
    /\ fate' = [fate EXCEPT ![items[i].id] = how]

\* A key already used answers for its first request or is refused: no change.
Unused(key) == key # NoKey => idempotency[key] = NoRecord

Remember(key, record) ==
    IF key = NoKey THEN idempotency ELSE [idempotency EXCEPT ![key] = record]

HasRoom == Len(items) < MaxItems

\* A fresh uuid.
FreshId == created + 1

Enqueue(key, params) ==
    LET record == [id |-> FreshId, params |-> params] IN
    /\ Unused(key)
    /\ HasRoom
    /\ created < MaxIds
    /\ items' = Append(items, record)
    /\ idempotency' = Remember(key, record)
    /\ created' = created + 1
    /\ fate' = [fate EXCEPT ![record.id] = "queued"]
    /\ UNCHANGED <<paused, steered>>

\* The item keeps its identifier and its place.
Replaced(i, record) == [items EXCEPT ![i] = record]

Replace(key, params, id) ==
    \E i \in DOMAIN items :
        LET record == [items[i] EXCEPT !.params = params] IN
        /\ items[i].id = id
        /\ Unused(key)
        /\ items' = Replaced(i, record)
        /\ idempotency' = Remember(key, record)
        /\ UNCHANGED <<paused, steered, created, fate>>

\* reset_pause_if_empty, on the queue an item just left.
PauseLeft(left) == paused /\ left # <<>>

\* The i-th item leaves; a queue left empty no longer pauses.
Leave(i, how) ==
    /\ items' = RemoveAt(items, i)
    /\ paused' = PauseLeft(items')
    /\ fate' = [fate EXCEPT ![items[i].id] = how]

RemoveItem(id) ==
    \E i \in DOMAIN items :
        /\ items[i].id = id
        /\ Leave(i, "removed")
        /\ UNCHANGED <<idempotency, steered, created>>

\* What steering leaves behind once the turn has the item's message.
SteerOut(id, turn) ==
    \E i \in DOMAIN items :
        /\ items[i].id = id
        /\ Leave(i, "steered")
        /\ steered' = [steered EXCEPT ![id] = turn]
        /\ UNCHANGED <<idempotency, created>>

\* Faults: the newest item first, and a pause nobody looks at.
PopNewest ==
    /\ ~paused
    /\ items # <<>>
    /\ Leave(Len(items), "taken")
    /\ UNCHANGED <<idempotency, steered, created>>

PopPaused ==
    /\ items # <<>>
    /\ Leave(1, "taken")
    /\ UNCHANGED <<idempotency, steered, created>>

PopNext ==
    /\ ~paused
    /\ items # <<>>
    /\ Leave(1, "taken")
    /\ UNCHANGED <<idempotency, steered, created>>

Resume ==
    /\ paused
    /\ paused' = FALSE
    /\ UNCHANGED <<items, idempotency, steered, created, fate>>

\* Only a queue holding items pauses.
Pause ==
    /\ ~paused
    /\ items # <<>>
    /\ paused' = TRUE
    /\ UNCHANGED <<items, idempotency, steered, created, fate>>

QueueNext ==
    \/ \E key \in Keys \union {NoKey}, params \in Inputs : Enqueue(key, params)
    \/ \E key \in Keys \union {NoKey}, params \in Inputs, id \in Ids :
           Replace(key, params, id)
    \/ \E id \in Ids : RemoveItem(id)
    \/ \E id \in Ids, turn \in Turns : SteerOut(id, turn)
    \/ PopNext
    \/ Resume
    \/ Pause

QueueSpec == QueueInit /\ [][QueueNext]_queueVars

-----------------------------------------------------------------------------
(* Properties. *)

\* The queue as an implementation of queued work.
Work == INSTANCE QueuedWork WITH
    MaxWorks <- MaxIds,
    arrived  <- created,
    waiting  <- QueuedIds,
    started  <- {id \in Ids : fate[id] = "taken"},
    folded   <- {id \in Ids : steered[id] # NoTurn},
    held     <- paused

\* What the client sees of the queue is the abstract promise: oldest first,
\* once, never while held.
KeepsQueuedWork == Work!Spec

\* The type of the queue's state.
QueueTypeOK ==
    /\ items \in Seq(Record)
    /\ paused \in BOOLEAN
    /\ idempotency \in [Keys -> Record \union {NoRecord}]
    /\ steered \in [Ids -> Turns \union {NoTurn}]
    /\ created \in 0..MaxIds
    /\ fate \in [Ids -> Fates]

\* The queue stays in creation order, which a replacement must not disturb.
InOrder ==
    \A i, j \in DOMAIN items : i < j => items[i].id < items[j].id

\* First in, first out: no item is taken while an older one still waits.
FirstInFirstOut ==
    \A old, new \in Ids :
        old < new /\ fate[new] = "taken" => fate[old] # "queued"

\* A queue that pauses holds items, so that a client always has something to
\* resume and a new item in an empty queue runs at once.
PauseHoldsItems == paused => items # <<>>

\* The queue never exceeds its capacity.
WithinCapacity == Len(items) <= MaxItems

\* An item's history agrees with the queue: the queued ones are exactly in
\* the queue, and the steered ones are exactly those the steered map names.
FateAgrees ==
    /\ \A id \in Ids : fate[id] = "queued" <=> id \in QueuedIds
    /\ \A id \in Ids : fate[id] = "steered" <=> steered[id] # NoTurn
    /\ \A id \in Ids : fate[id] = "unknown" <=> id > created

\* The record a key answers with is the one of its first request, for good:
\* a retried request never makes a second item under its key.
KeyAnswersOnce ==
    [][\A key \in Keys :
          idempotency[key] # NoRecord => idempotency'[key] = idempotency[key]]_queueVars

\* An item leaves the queue once: taken, removed or steered, it never comes
\* back and never leaves a second way.
LeavesOnce ==
    [][\A id \in Ids :
          fate[id] \in {"taken", "removed", "steered"} => fate'[id] = fate[id]]_queueVars
=============================================================================

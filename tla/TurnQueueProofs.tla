--------------------------- MODULE TurnQueueProofs ---------------------------
(***************************************************************************)
(* What holds of the queue for every capacity, every set of keys and       *)
(* inputs, and any number of items.                                        *)
(***************************************************************************)
EXTENDS TurnQueue, TLAPS

USE DEF Ids, Turns, NoTurn

-----------------------------------------------------------------------------
(* The queue's type. *)

\* Taking an item out of a queue gives a queue one shorter, whose items keep
\* their order: those before the place keep theirs, those after it move up.
LEMMA RemoveAtSeq ==
    ASSUME NEW S, NEW s \in Seq(S), NEW i \in DOMAIN s
    PROVE  /\ RemoveAt(s, i) \in Seq(S)
           /\ Len(RemoveAt(s, i)) = Len(s) - 1
           /\ \A j \in 1..(Len(s) - 1) :
                  RemoveAt(s, i)[j] = IF j < i THEN s[j] ELSE s[j + 1]
  <1> DEFINE front == SubSeq(s, 1, i - 1)
             back  == SubSeq(s, i + 1, Len(s))
  <1>1. i \in 1..Len(s) /\ Len(s) \in Nat
    OBVIOUS
  <1>2. front \in Seq(S) /\ Len(front) = i - 1
    BY <1>1
  <1>3. back \in Seq(S) /\ Len(back) = Len(s) - i
    BY <1>1
  <1>4. \A j \in 1..(i - 1) : front[j] = s[j]
    BY <1>1
  <1>5. \A j \in 1..(Len(s) - i) : back[j] = s[i + j]
    BY <1>1
  <1>6. RemoveAt(s, i) = front \o back
    BY DEF RemoveAt
  <1> HIDE DEF front, back
  <1>7. front \o back \in Seq(S) /\ Len(front \o back) = Len(s) - 1
    BY <1>1, <1>2, <1>3
  <1>8. ASSUME NEW j \in 1..(Len(s) - 1)
        PROVE  (front \o back)[j] = IF j < i THEN s[j] ELSE s[j + 1]
    <2>1. CASE j < i
      BY <1>1, <1>2, <1>3, <1>4, <2>1
    <2>2. CASE ~(j < i)
      <3>1. (front \o back)[j] = back[j - (i - 1)]
        BY <1>1, <1>2, <1>3, <2>2
      <3>2. j - (i - 1) \in 1..(Len(s) - i) /\ i + (j - (i - 1)) = j + 1
        BY <1>1, <2>2
      <3>3. QED
        BY <1>5, <2>2, <3>1, <3>2
    <2>3. QED
      BY <2>1, <2>2
  <1>9. QED
    BY <1>6, <1>7, <1>8

\* The operations by which an item leaves share this shape.
LEMMA LeaveShape ==
    ASSUME QueueTypeOK, NEW i \in DOMAIN items, NEW how, Leave(i, how)
    PROVE  /\ items' \in Seq(Record)
           /\ Len(items') = Len(items) - 1
           /\ \A j \in 1..(Len(items) - 1) :
                  items'[j] = IF j < i THEN items[j] ELSE items[j + 1]
           /\ paused' = (paused /\ items' # <<>>)
           /\ fate' = [fate EXCEPT ![items[i].id] = how]
  <1>1. items \in Seq(Record)
    BY DEF QueueTypeOK
  <1>2. items' = RemoveAt(items, i)
    BY DEF Leave
  <1>3. /\ RemoveAt(items, i) \in Seq(Record)
        /\ Len(RemoveAt(items, i)) = Len(items) - 1
        /\ \A j \in 1..(Len(items) - 1) :
               RemoveAt(items, i)[j] = IF j < i THEN items[j] ELSE items[j + 1]
    BY <1>1, RemoveAtSeq
  <1>4. QED
    BY <1>2, <1>3 DEF Leave, PauseLeft

LEMMA LeaveKeepsType ==
    ASSUME QueueTypeOK, NEW i \in DOMAIN items, NEW how \in Fates, Leave(i, how),
           UNCHANGED <<idempotency, created>>, steered' \in [Ids -> Turns \union {NoTurn}]
    PROVE  QueueTypeOK'
  <1>1. items' \in Seq(Record) /\ paused' = (paused /\ items' # <<>>)
        /\ fate' = [fate EXCEPT ![items[i].id] = how]
    BY LeaveShape
  <1>2. paused' \in BOOLEAN
    BY <1>1
  <1>3. fate' \in [Ids -> Fates]
    BY <1>1 DEF QueueTypeOK
  <1>4. QED
    BY <1>1, <1>2, <1>3 DEF QueueTypeOK

LEMMA QueueTypeInductive == QueueTypeOK /\ [QueueNext]_queueVars => QueueTypeOK'
  <1> SUFFICES ASSUME QueueTypeOK, [QueueNext]_queueVars
               PROVE  QueueTypeOK'
    OBVIOUS
  <1>1. ASSUME NEW key \in Keys \union {NoKey}, NEW params \in Inputs, Enqueue(key, params)
        PROVE  QueueTypeOK'
    <2> DEFINE record == [id |-> FreshId, params |-> params]
    <2>1. created + 1 \in Ids /\ created' = created + 1
      BY <1>1, QueueConstants DEF QueueTypeOK, Enqueue
    <2>2. record \in Record
      BY <2>1 DEF Record, FreshId
    <2>3. items' = Append(items, record) /\ idempotency' = Remember(key, record)
          /\ fate' = [fate EXCEPT ![record.id] = "queued"]
          /\ UNCHANGED <<paused, steered>>
      BY <1>1 DEF Enqueue
    <2> HIDE DEF record
    <2>4. items' \in Seq(Record)
      BY <2>2, <2>3 DEF QueueTypeOK
    <2>5. idempotency' \in [Keys -> Record \union {NoRecord}]
      BY <2>2, <2>3 DEF QueueTypeOK, Remember
    <2>6. fate' \in [Ids -> Fates]
      BY <2>3 DEF QueueTypeOK, Fates
    <2>7. created' \in 0..MaxIds
      BY <2>1
    <2>8. QED
      BY <2>3, <2>4, <2>5, <2>6, <2>7 DEF QueueTypeOK
  <1>2. ASSUME NEW key \in Keys \union {NoKey}, NEW params \in Inputs, NEW id \in Ids,
               Replace(key, params, id)
        PROVE  QueueTypeOK'
    <2>1. PICK i \in DOMAIN items :
              /\ items' = Replaced(i, [items[i] EXCEPT !.params = params])
              /\ idempotency' = Remember(key, [items[i] EXCEPT !.params = params])
              /\ UNCHANGED <<paused, steered, created, fate>>
      BY <1>2 DEF Replace
    <2>2. [items[i] EXCEPT !.params = params] \in Record
      <3>1. items[i] \in Record
        BY DEF QueueTypeOK
      <3>2. QED
        BY <3>1 DEF Record
    <2>3. items' \in Seq(Record)
      BY <2>1, <2>2 DEF QueueTypeOK, Replaced
    <2>4. idempotency' \in [Keys -> Record \union {NoRecord}]
      BY <2>1, <2>2 DEF QueueTypeOK, Remember
    <2>5. QED
      BY <2>1, <2>3, <2>4 DEF QueueTypeOK
  <1>3. ASSUME NEW id \in Ids, RemoveItem(id)
        PROVE  QueueTypeOK'
    <2>1. PICK i \in DOMAIN items :
              Leave(i, "removed") /\ UNCHANGED <<idempotency, steered, created>>
      BY <1>3 DEF RemoveItem
    <2>2. steered' \in [Ids -> Turns \union {NoTurn}]
      BY <2>1 DEF QueueTypeOK
    <2>3. QED
      BY <2>1, <2>2, LeaveKeepsType DEF Fates
  <1>4. ASSUME NEW id \in Ids, NEW turn \in Turns, SteerOut(id, turn)
        PROVE  QueueTypeOK'
    <2>1. PICK i \in DOMAIN items :
              /\ Leave(i, "steered")
              /\ steered' = [steered EXCEPT ![id] = turn]
              /\ UNCHANGED <<idempotency, created>>
      BY <1>4 DEF SteerOut
    <2>2. steered' \in [Ids -> Turns \union {NoTurn}]
      BY <2>1 DEF QueueTypeOK
    <2>3. QED
      BY <2>1, <2>2, LeaveKeepsType DEF Fates
  <1>5. CASE PopNext
    <2>1. 1 \in DOMAIN items
      BY <1>5 DEF PopNext, QueueTypeOK
    <2>2. steered' \in [Ids -> Turns \union {NoTurn}]
      BY <1>5 DEF PopNext, QueueTypeOK
    <2>3. QED
      BY <1>5, <2>1, <2>2, LeaveKeepsType DEF PopNext, Fates
  <1>6. CASE Resume
    BY <1>6 DEF Resume, QueueTypeOK
  <1>7. CASE Pause
    BY <1>7 DEF Pause, QueueTypeOK
  <1>8. CASE UNCHANGED queueVars
    BY <1>8 DEF queueVars, QueueTypeOK
  <1>9. QED
    BY <1>1, <1>2, <1>3, <1>4, <1>5, <1>6, <1>7, <1>8 DEF QueueNext

LEMMA QueueTypeInit == QueueInit => QueueTypeOK
  <1> SUFFICES ASSUME QueueInit
               PROVE  QueueTypeOK
    OBVIOUS
  <1>1. items = <<>> /\ items \in Seq(Record)
    BY DEF QueueInit
  <1>2. paused \in BOOLEAN
    BY DEF QueueInit
  <1>3. idempotency \in [Keys -> Record \union {NoRecord}]
    BY DEF QueueInit
  <1>4. steered \in [Ids -> Turns \union {NoTurn}] /\ fate \in [Ids -> Fates]
    BY DEF QueueInit, Fates
  <1>5. created \in 0..MaxIds
    BY QueueConstants DEF QueueInit
  <1>6. QED
    BY <1>1, <1>2, <1>3, <1>4, <1>5 DEF QueueTypeOK

\* The queue's state always has its type, whatever the client and the drivers do.
THEOREM QueueTypeCorrect == QueueSpec => []QueueTypeOK
  BY QueueTypeInit, QueueTypeInductive, PTL DEF QueueSpec

-----------------------------------------------------------------------------
(* The inductive invariant.  First in, first out needs to know that the queue *)
(* is in creation order, so that what is taken is the oldest, and that the    *)
(* history of an item says whether it is queued; creation order needs to know *)
(* that no item is newer than the last one created.                           *)

QueueInv ==
    /\ QueueTypeOK
    /\ InOrder
    /\ FateAgrees
    /\ PauseHoldsItems
    /\ WithinCapacity
    /\ FirstInFirstOut

LEMMA ItemHasId ==
    ASSUME QueueTypeOK, NEW i \in DOMAIN items
    PROVE  items[i] \in Record /\ items[i].id \in Ids /\ items[i].id \in Int
  <1>1. items[i] \in Record
    BY DEF QueueTypeOK
  <1>2. items[i].id \in Ids
    BY <1>1 DEF Record
  <1>3. QED
    BY <1>1, <1>2, QueueConstants

\* The items of an order-keeping queue have identifiers of their own.
LEMMA DistinctIds ==
    ASSUME QueueTypeOK, InOrder, NEW i \in DOMAIN items, NEW j \in DOMAIN items, i # j
    PROVE  items[i].id # items[j].id
  <1>1. i \in Int /\ j \in Int /\ (i < j \/ j < i)
    BY DEF QueueTypeOK
  <1>2. items[i].id \in Int /\ items[j].id \in Int
    BY ItemHasId
  <1>3. QED
    BY <1>1, <1>2 DEF InOrder

\* An item that leaves is the only one to, and the others keep their order.
LEMMA LeaveQueued ==
    ASSUME QueueTypeOK, InOrder, NEW i \in DOMAIN items, NEW how, Leave(i, how)
    PROVE  /\ QueuedIds' = QueuedIds \ {items[i].id}
           /\ InOrder'
           /\ PauseHoldsItems'
           /\ WithinCapacity => WithinCapacity'
  <1>1. /\ items' \in Seq(Record)
        /\ Len(items') = Len(items) - 1
        /\ \A j \in 1..(Len(items) - 1) :
               items'[j] = IF j < i THEN items[j] ELSE items[j + 1]
        /\ paused' = (paused /\ items' # <<>>)
    BY LeaveShape
  <1>2. /\ items \in Seq(Record) /\ Len(items) \in Nat
        /\ DOMAIN items = 1..Len(items) /\ i \in 1..Len(items)
        /\ DOMAIN items' = 1..(Len(items) - 1)
    BY <1>1 DEF QueueTypeOK
  <1>3. QueuedIds' \subseteq QueuedIds \ {items[i].id}
    <2> SUFFICES ASSUME NEW j \in DOMAIN items'
                 PROVE  items'[j].id \in QueuedIds \ {items[i].id}
      BY DEF QueuedIds
    <2> DEFINE k == IF j < i THEN j ELSE j + 1
    <2>1. k \in DOMAIN items /\ k # i /\ items'[j] = items[k]
      BY <1>1, <1>2
    <2> HIDE DEF k
    <2>2. items[k].id # items[i].id
      BY <2>1, DistinctIds
    <2>3. QED
      BY <2>1, <2>2 DEF QueuedIds
  <1>4. QueuedIds \ {items[i].id} \subseteq QueuedIds'
    <2> SUFFICES ASSUME NEW k \in DOMAIN items, k # i
                 PROVE  items[k].id \in QueuedIds'
      BY DEF QueuedIds
    <2> DEFINE j == IF k < i THEN k ELSE k - 1
    <2>1. j \in DOMAIN items' /\ items'[j] = items[k]
      BY <1>1, <1>2
    <2> HIDE DEF j
    <2>2. QED
      BY <2>1 DEF QueuedIds
  <1>5. InOrder'
    <2> SUFFICES ASSUME NEW a \in DOMAIN items', NEW b \in DOMAIN items', a < b
                 PROVE  items'[a].id < items'[b].id
      BY DEF InOrder
    <2> DEFINE c == IF a < i THEN a ELSE a + 1
               d == IF b < i THEN b ELSE b + 1
    <2>1. /\ c \in DOMAIN items /\ items'[a] = items[c]
          /\ d \in DOMAIN items /\ items'[b] = items[d]
          /\ c < d
      BY <1>1, <1>2
    <2> HIDE DEF c, d
    <2>2. QED
      BY <2>1 DEF InOrder
  <1>6. PauseHoldsItems'
    BY <1>1 DEF PauseHoldsItems
  <1>7. WithinCapacity => WithinCapacity'
    BY <1>1, <1>2, QueueConstants DEF WithinCapacity
  <1>8. QED
    BY <1>3, <1>4, <1>5, <1>6, <1>7

\* Leaving keeps the invariant but for what it says of the item that leaves.
LEMMA LeaveKeepsInv ==
    ASSUME QueueInv, NEW i \in DOMAIN items, NEW how \in {"taken", "removed", "steered"},
           Leave(i, how), created' = created, QueueTypeOK',
           \A id \in Ids : steered'[id] # NoTurn <=>
               (steered[id] # NoTurn \/ (id = items[i].id /\ how = "steered")),
           how = "taken" => i = 1
    PROVE  QueueInv'
  <1> DEFINE gone == items[i].id
  <1>1. /\ QueuedIds' = QueuedIds \ {gone}
        /\ InOrder' /\ PauseHoldsItems' /\ WithinCapacity'
    BY LeaveQueued DEF QueueInv
  <1>2. fate' = [fate EXCEPT ![gone] = how] /\ fate \in [Ids -> Fates]
    BY LeaveShape DEF QueueInv, QueueTypeOK
  <1>3. gone \in Ids /\ gone \in QueuedIds /\ fate[gone] = "queued"
    <2>1. gone \in Ids /\ gone \in QueuedIds
      BY ItemHasId DEF QueueInv, QueuedIds
    <2>2. QED
      BY <2>1 DEF QueueInv, FateAgrees
  <1>4. \A id \in Ids : fate'[id] = IF id = gone THEN how ELSE fate[id]
    BY <1>2
  <1>5. FateAgrees'
    <2>1. \A id \in Ids : fate'[id] = "queued" <=> id \in QueuedIds'
      BY <1>1, <1>4 DEF QueueInv, FateAgrees
    <2>2. \A id \in Ids : fate'[id] = "steered" <=> steered'[id] # NoTurn
      BY <1>3, <1>4 DEF QueueInv, FateAgrees
    <2>3. \A id \in Ids : fate'[id] = "unknown" <=> id > created'
      BY <1>3, <1>4 DEF QueueInv, FateAgrees
    <2>4. QED
      BY <2>1, <2>2, <2>3 DEF FateAgrees
  <1>6. FirstInFirstOut'
    <2> SUFFICES ASSUME NEW old \in Ids, NEW new \in Ids, old < new,
                        fate'[new] = "taken", fate'[old] = "queued"
                 PROVE  FALSE
      BY DEF FirstInFirstOut
    <2>1. fate[old] = "queued" /\ old # gone /\ old \in QueuedIds
      BY <1>4 DEF QueueInv, FateAgrees
    <2>2. CASE new # gone
      BY <1>4, <2>1, <2>2 DEF QueueInv, FirstInFirstOut
    <2>3. CASE new = gone
      <3>1. i = 1
        BY <1>4, <2>3
      <3>2. PICK k \in DOMAIN items : items[k].id = old
        BY <2>1 DEF QueuedIds
      <3>3. k # 1
        BY <2>1, <3>1, <3>2
      <3>4. 1 < k
        BY <3>3 DEF QueueInv, QueueTypeOK
      <3>5. items[1].id < items[k].id
        BY <3>1, <3>4 DEF QueueInv, InOrder
      <3>6. items[1].id \in Int /\ items[k].id \in Int
        BY <3>1, ItemHasId DEF QueueInv
      <3>7. QED
        BY <2>3, <3>1, <3>2, <3>5, <3>6
    <2>4. QED
      BY <2>2, <2>3
  <1>7. QED
    BY <1>1, <1>5, <1>6 DEF QueueInv

LEMMA EnqueueKeepsInv ==
    ASSUME QueueInv, QueueTypeOK', NEW key \in Keys \union {NoKey}, NEW params \in Inputs,
           Enqueue(key, params)
    PROVE  QueueInv'
  <1> DEFINE record == [id |-> FreshId, params |-> params]
  <1>1. /\ items' = Append(items, record) /\ Len(items) < MaxItems
        /\ created' = created + 1 /\ UNCHANGED <<paused, steered>>
        /\ fate' = [fate EXCEPT ![record.id] = "queued"]
        /\ record.id = created + 1 /\ created < MaxIds
    BY DEF Enqueue, HasRoom, FreshId
  <1>2. /\ record \in Record /\ created \in Nat /\ created + 1 \in Ids
        /\ items \in Seq(Record) /\ Len(items) \in Nat
        /\ fate \in [Ids -> Fates]
    BY <1>1, QueueConstants DEF QueueInv, QueueTypeOK, Record
  <1> HIDE DEF record
  <1>3. /\ DOMAIN items = 1..Len(items) /\ DOMAIN items' = 1..(Len(items) + 1)
        /\ \A j \in DOMAIN items : items'[j] = items[j]
        /\ items'[Len(items) + 1] = record
        /\ Len(items') = Len(items) + 1
    BY <1>1, <1>2
  <1>4. \A j \in DOMAIN items : items[j].id <= created
    <2> SUFFICES ASSUME NEW j \in DOMAIN items
                 PROVE  items[j].id <= created
      OBVIOUS
    <2>1. items[j].id \in Ids /\ items[j].id \in Int /\ items[j].id \in QueuedIds
      BY ItemHasId DEF QueueInv, QueuedIds
    <2>2. fate[items[j].id] # "unknown"
      BY <2>1 DEF QueueInv, FateAgrees
    <2>3. QED
      BY <1>2, <2>1, <2>2 DEF QueueInv, FateAgrees
  <1>5. QueuedIds' = QueuedIds \union {created + 1}
    <2>1. QueuedIds' = {items'[j].id : j \in DOMAIN items'}
      BY DEF QueuedIds
    <2>2. DOMAIN items' = DOMAIN items \union {Len(items) + 1}
      BY <1>2, <1>3
    <2>3. \A j \in DOMAIN items : items'[j].id = items[j].id
      BY <1>3
    <2>4. items'[Len(items) + 1].id = created + 1
      BY <1>1, <1>3
    <2>5. QED
      BY <2>1, <2>2, <2>3, <2>4 DEF QueuedIds
  <1>6. InOrder'
    <2> SUFFICES ASSUME NEW a \in DOMAIN items', NEW b \in DOMAIN items', a < b
                 PROVE  items'[a].id < items'[b].id
      BY DEF InOrder
    <2>1. a \in DOMAIN items /\ items'[a] = items[a] /\ items[a].id \in Int
      <3>1. a \in DOMAIN items /\ items'[a] = items[a]
        BY <1>2, <1>3
      <3>2. QED
        BY <3>1, ItemHasId DEF QueueInv
    <2>2. CASE b \in DOMAIN items
      BY <1>3, <2>1, <2>2 DEF QueueInv, InOrder
    <2>3. CASE b = Len(items) + 1
      <3>1. items'[b].id = created + 1
        BY <1>1, <1>3, <2>3
      <3>2. items[a].id <= created
        BY <1>4, <2>1
      <3>3. QED
        BY <1>2, <2>1, <3>1, <3>2
    <2>4. QED
      BY <1>2, <1>3, <2>2, <2>3
  <1>7. \A id \in Ids : fate'[id] = IF id = created + 1 THEN "queued" ELSE fate[id]
    BY <1>1, <1>2
  <1>8. FateAgrees'
    <2>1. \A id \in Ids : fate'[id] = "queued" <=> id \in QueuedIds'
      BY <1>5, <1>7 DEF QueueInv, FateAgrees
    <2>2. fate[created + 1] = "unknown"
      BY <1>2 DEF QueueInv, FateAgrees
    <2>3. \A id \in Ids : fate'[id] = "steered" <=> steered'[id] # NoTurn
      BY <1>1, <1>7, <2>2 DEF QueueInv, FateAgrees
    <2>4. \A id \in Ids : fate'[id] = "unknown" <=> id > created'
      <3> SUFFICES ASSUME NEW id \in Ids
                   PROVE  fate'[id] = "unknown" <=> id > created + 1
        BY <1>1
      <3>1. fate[id] = "unknown" <=> id > created
        BY DEF QueueInv, FateAgrees
      <3>2. id \in Int
        BY QueueConstants
      <3>3. QED
        BY <1>2, <1>7, <3>1, <3>2
    <2>5. QED
      BY <2>1, <2>3, <2>4 DEF FateAgrees
  <1>9. PauseHoldsItems'
    BY <1>2, <1>3 DEF PauseHoldsItems
  <1>10. WithinCapacity'
    BY <1>1, <1>2, <1>3, QueueConstants DEF WithinCapacity
  <1>11. FirstInFirstOut'
    <2> SUFFICES ASSUME NEW old \in Ids, NEW new \in Ids, old < new,
                        fate'[new] = "taken", fate'[old] = "queued"
                 PROVE  FALSE
      BY DEF FirstInFirstOut
    <2>1. fate[new] = "taken"
      BY <1>7
    <2>2. ~(new > created)
      BY <2>1 DEF QueueInv, FateAgrees
    <2>3. old # created + 1
      BY <1>2, <2>2, QueueConstants
    <2>4. QED
      BY <1>7, <2>1, <2>3 DEF QueueInv, FirstInFirstOut
  <1>12. QED
    BY <1>6, <1>8, <1>9, <1>10, <1>11 DEF QueueInv

\* A replacement changes what an item runs and nothing the invariant sees.
LEMMA ReplaceKeepsInv ==
    ASSUME QueueInv, QueueTypeOK', NEW key \in Keys \union {NoKey}, NEW params \in Inputs,
           NEW id \in Ids, Replace(key, params, id)
    PROVE  QueueInv'
  <1>1. PICK i \in DOMAIN items :
            /\ items' = Replaced(i, [items[i] EXCEPT !.params = params])
            /\ UNCHANGED <<paused, steered, created, fate>>
    BY DEF Replace
  <1> DEFINE record == [items[i] EXCEPT !.params = params]
  <1>2. items \in Seq(Record) /\ items' = [items EXCEPT ![i] = record]
    BY <1>1 DEF QueueInv, QueueTypeOK, Replaced
  <1>3. record.id = items[i].id
    <2>1. items[i] \in Record
      BY ItemHasId DEF QueueInv
    <2>2. QED
      BY <2>1 DEF Record
  <1> HIDE DEF record
  <1>4. /\ DOMAIN items' = DOMAIN items /\ Len(items') = Len(items)
        /\ \A j \in DOMAIN items : items'[j].id = items[j].id
    BY <1>2, <1>3
  <1>5. QueuedIds' = QueuedIds
    BY <1>4 DEF QueuedIds
  <1>6. InOrder'
    BY <1>4 DEF QueueInv, InOrder
  <1>7. FateAgrees' /\ FirstInFirstOut'
    BY <1>1, <1>5 DEF QueueInv, FateAgrees, FirstInFirstOut
  <1>8. WithinCapacity'
    BY <1>4 DEF QueueInv, WithinCapacity
  <1>9. PauseHoldsItems'
    <2>1. items' # <<>> <=> items # <<>>
      BY <1>2, <1>4
    <2>2. QED
      BY <1>1, <2>1 DEF QueueInv, PauseHoldsItems
  <1>10. QED
    BY <1>6, <1>7, <1>8, <1>9 DEF QueueInv

LEMMA QueueInvInit == QueueInit => QueueInv
  <1> SUFFICES ASSUME QueueInit
               PROVE  QueueInv
    OBVIOUS
  <1>1. QueueTypeOK
    BY QueueTypeInit
  <1>2. items = <<>> /\ DOMAIN items = {} /\ QueuedIds = {} /\ Len(items) = 0
    BY DEF QueueInit, QueuedIds
  <1>3. InOrder /\ WithinCapacity
    BY <1>2, QueueConstants DEF InOrder, WithinCapacity
  <1>4. \A id \in Ids : fate[id] = "unknown" /\ steered[id] = NoTurn
    BY DEF QueueInit
  <1>5. \A id \in Ids : id > created
    BY QueueConstants DEF QueueInit
  <1>6. FateAgrees
    BY <1>2, <1>4, <1>5 DEF FateAgrees
  <1>7. PauseHoldsItems
    BY DEF QueueInit, PauseHoldsItems
  <1>8. FirstInFirstOut
    BY <1>4 DEF FirstInFirstOut
  <1>9. QED
    BY <1>1, <1>3, <1>6, <1>7, <1>8 DEF QueueInv

LEMMA QueueInvStep == QueueInv /\ [QueueNext]_queueVars => QueueInv'
  <1> SUFFICES ASSUME QueueInv, [QueueNext]_queueVars
               PROVE  QueueInv'
    OBVIOUS
  <1>0. QueueTypeOK /\ QueueTypeOK'
    BY QueueTypeInductive DEF QueueInv
  <1>1. ASSUME NEW key \in Keys \union {NoKey}, NEW params \in Inputs, Enqueue(key, params)
        PROVE  QueueInv'
    BY <1>0, <1>1, EnqueueKeepsInv
  <1>2. ASSUME NEW key \in Keys \union {NoKey}, NEW params \in Inputs, NEW id \in Ids,
               Replace(key, params, id)
        PROVE  QueueInv'
    BY <1>0, <1>2, ReplaceKeepsInv
  <1>3. ASSUME NEW id \in Ids, RemoveItem(id)
        PROVE  QueueInv'
    <2>1. PICK i \in DOMAIN items :
              Leave(i, "removed") /\ UNCHANGED <<idempotency, steered, created>>
      BY <1>3 DEF RemoveItem
    <2>2. QED
      BY <1>0, <2>1, LeaveKeepsInv
  <1>4. ASSUME NEW id \in Ids, NEW turn \in Turns, SteerOut(id, turn)
        PROVE  QueueInv'
    <2>1. PICK i \in DOMAIN items :
              /\ items[i].id = id
              /\ Leave(i, "steered")
              /\ steered' = [steered EXCEPT ![id] = turn]
              /\ created' = created
      BY <1>4 DEF SteerOut
    <2>2. turn # NoTurn
      BY QueueConstants
    <2>3. \A other \in Ids : steered'[other] # NoTurn <=>
              (steered[other] # NoTurn \/ other = items[i].id)
      BY <1>0, <2>1, <2>2 DEF QueueTypeOK
    <2>4. QED
      BY <1>0, <2>1, <2>3, LeaveKeepsInv
  <1>5. CASE PopNext
    <2>1. 1 \in DOMAIN items
      BY <1>0, <1>5 DEF PopNext, QueueTypeOK
    <2>2. Leave(1, "taken") /\ UNCHANGED <<idempotency, steered, created>>
      BY <1>5 DEF PopNext
    <2>3. QED
      BY <1>0, <2>1, <2>2, LeaveKeepsInv
  <1>6. CASE Resume
    BY <1>0, <1>6 DEF Resume, QueueInv, InOrder, FateAgrees, PauseHoldsItems, WithinCapacity,
                      FirstInFirstOut, QueuedIds
  <1>7. CASE Pause
    BY <1>0, <1>7 DEF Pause, QueueInv, InOrder, FateAgrees, PauseHoldsItems, WithinCapacity,
                      FirstInFirstOut, QueuedIds
  <1>8. CASE UNCHANGED queueVars
    BY <1>0, <1>8 DEF queueVars, QueueInv, InOrder, FateAgrees, PauseHoldsItems,
                      WithinCapacity, FirstInFirstOut, QueuedIds
  <1>9. QED
    BY <1>1, <1>2, <1>3, <1>4, <1>5, <1>6, <1>7, <1>8 DEF QueueNext

LEMMA QueueInvHolds == QueueSpec => []QueueInv
  BY QueueInvInit, QueueInvStep, PTL DEF QueueSpec

\* Queued turns are taken first in, first out, whatever is replaced, removed or
\* steered meanwhile and whenever the queue pauses.
THEOREM ServedInOrder == QueueSpec => []FirstInFirstOut
  <1>1. QueueInv => FirstInFirstOut
    BY DEF QueueInv
  <1>2. QED
    BY <1>1, QueueInvHolds, PTL

\* The queue stays in the order its items were created in.
THEOREM StaysInOrder == QueueSpec => []InOrder
  <1>1. QueueInv => InOrder
    BY DEF QueueInv
  <1>2. QED
    BY <1>1, QueueInvHolds, PTL

\* A paused queue has an item for the client to resume.
THEOREM PausedHoldsItems == QueueSpec => []PauseHoldsItems
  <1>1. QueueInv => PauseHoldsItems
    BY DEF QueueInv
  <1>2. QED
    BY <1>1, QueueInvHolds, PTL

\* No sequence of requests exceeds the capacity.
THEOREM CapacityHolds == QueueSpec => []WithinCapacity
  <1>1. QueueInv => WithinCapacity
    BY DEF QueueInv
  <1>2. QED
    BY <1>1, QueueInvHolds, PTL

\* The history of an item says where it is: in the queue, out of it, or folded
\* into the turn the steered map names.
THEOREM HistoryAgrees == QueueSpec => []FateAgrees
  <1>1. QueueInv => FateAgrees
    BY DEF QueueInv
  <1>2. QED
    BY <1>1, QueueInvHolds, PTL

-----------------------------------------------------------------------------
(* What a step may never do. *)

\* What a leaving item's history records, under the invariant.
LEMMA LeaveFate ==
    ASSUME QueueInv, NEW i \in DOMAIN items, NEW how, Leave(i, how)
    PROVE  /\ items[i].id \in Ids /\ items[i].id \in QueuedIds
           /\ fate[items[i].id] = "queued"
           /\ \A id \in Ids : fate'[id] = IF id = items[i].id THEN how ELSE fate[id]
  <1>1. items[i].id \in Ids /\ items[i].id \in QueuedIds
    BY ItemHasId DEF QueueInv, QueuedIds
  <1>2. fate[items[i].id] = "queued"
    BY <1>1 DEF QueueInv, FateAgrees
  <1>3. fate' = [fate EXCEPT ![items[i].id] = how] /\ fate \in [Ids -> Fates]
    BY LeaveShape DEF QueueInv, QueueTypeOK
  <1>4. QED
    BY <1>1, <1>2, <1>3

\* A retried request never makes a second item under its key.
THEOREM KeysAnswerOnce == QueueSpec => KeyAnswersOnce
  <1> DEFINE Once == \A key \in Keys :
                        idempotency[key] # NoRecord => idempotency'[key] = idempotency[key]
  <1>1. ASSUME QueueTypeOK, [QueueNext]_queueVars
        PROVE  [Once]_queueVars
    <2>1. ASSUME NEW key \in Keys \union {NoKey}, NEW record, Unused(key),
                 idempotency' = Remember(key, record)
          PROVE  Once
      BY <1>1, <2>1 DEF QueueTypeOK, Unused, Remember
    <2>2. ASSUME idempotency' = idempotency
          PROVE  Once
      BY <2>2
    <2> HIDE DEF Once
    <2>3. ASSUME NEW key \in Keys \union {NoKey}, NEW params \in Inputs, Enqueue(key, params)
          PROVE  Once
      BY <2>1, <2>3 DEF Enqueue
    <2>4. ASSUME NEW key \in Keys \union {NoKey}, NEW params \in Inputs, NEW id \in Ids,
                 Replace(key, params, id)
          PROVE  Once
      BY <2>1, <2>4 DEF Replace
    <2>5. ASSUME NEW id \in Ids, RemoveItem(id)
          PROVE  Once
      BY <2>2, <2>5 DEF RemoveItem
    <2>6. ASSUME NEW id \in Ids, NEW turn \in Turns, SteerOut(id, turn)
          PROVE  Once
      BY <2>2, <2>6 DEF SteerOut
    <2>7. PopNext \/ Resume \/ Pause => Once
      BY <2>2 DEF PopNext, Resume, Pause
    <2>8. QED
      BY <1>1, <2>3, <2>4, <2>5, <2>6, <2>7 DEF QueueNext
  <1>2. QED
    BY <1>1, QueueTypeCorrect, PTL DEF QueueSpec, KeyAnswersOnce

\* An item that was taken, removed or steered never comes back, nor leaves a
\* second way.
THEOREM ItemsLeaveOnce == QueueSpec => LeavesOnce
  <1> DEFINE Once == \A id \in Ids :
                        fate[id] \in {"taken", "removed", "steered"} => fate'[id] = fate[id]
  <1>1. ASSUME QueueInv, [QueueNext]_queueVars
        PROVE  [Once]_queueVars
    <2>1. ASSUME NEW i \in DOMAIN items, NEW how, Leave(i, how)
          PROVE  Once
      <3>1. /\ fate[items[i].id] = "queued"
            /\ \A id \in Ids : fate'[id] = IF id = items[i].id THEN how ELSE fate[id]
        BY <1>1, <2>1, LeaveFate
      <3>2. QED
        BY <3>1
    <2>2. ASSUME fate' = fate
          PROVE  Once
      BY <2>2
    <2>3. ASSUME NEW key \in Keys \union {NoKey}, NEW params \in Inputs, Enqueue(key, params)
          PROVE  Once
      <3>1. fate' = [fate EXCEPT ![created + 1] = "queued"] /\ created < MaxIds
        BY <2>3 DEF Enqueue, FreshId
      <3>2. created + 1 \in Ids /\ created + 1 > created
        BY <1>1, <3>1, QueueConstants DEF QueueInv, QueueTypeOK
      <3>3. fate[created + 1] = "unknown"
        BY <1>1, <3>2 DEF QueueInv, FateAgrees
      <3>4. QED
        BY <1>1, <3>1, <3>3 DEF QueueInv, QueueTypeOK
    <2> HIDE DEF Once
    <2>4. ASSUME NEW key \in Keys \union {NoKey}, NEW params \in Inputs, NEW id \in Ids,
                 Replace(key, params, id)
          PROVE  Once
      BY <2>2, <2>4 DEF Replace
    <2>5. ASSUME NEW id \in Ids, RemoveItem(id)
          PROVE  Once
      BY <2>1, <2>5 DEF RemoveItem
    <2>6. ASSUME NEW id \in Ids, NEW turn \in Turns, SteerOut(id, turn)
          PROVE  Once
      BY <2>1, <2>6 DEF SteerOut
    <2>7. CASE PopNext
      <3>1. 1 \in DOMAIN items
        BY <1>1, <2>7 DEF PopNext, QueueInv, QueueTypeOK
      <3>2. QED
        BY <2>1, <2>7, <3>1 DEF PopNext
    <2>8. Resume \/ Pause => Once
      BY <2>2 DEF Resume, Pause
    <2>9. QED
      BY <1>1, <2>3, <2>4, <2>5, <2>6, <2>7, <2>8 DEF QueueNext
  <1>2. QED
    BY <1>1, QueueInvHolds, PTL DEF QueueSpec, LeavesOnce

-----------------------------------------------------------------------------
(* The queue implements QueuedWork: the queued items are the waiting works,   *)
(* and what their history says became of them is what the works did.          *)

Started == {id \in Ids : fate[id] = "taken"}
Folded  == {id \in Ids : steered[id] # NoTurn}

LEMMA QueuedIdsTyped ==
    /\ QueueInv => QueuedIds \subseteq Ids
    /\ QueueInv' => QueuedIds' \subseteq Ids
  <1>1. QueueInv => QueuedIds \subseteq Ids
    BY ItemHasId DEF QueueInv, QueuedIds
  <1>2. ASSUME QueueInv'
        PROVE  QueuedIds' \subseteq Ids
    <2>1. \A i \in DOMAIN items' : items'[i] \in Record
      BY <1>2 DEF QueueInv, QueueTypeOK
    <2>2. QED
      BY <2>1 DEF QueuedIds, Record
  <1>3. QED
    BY <1>1, <1>2

\* Leaving is, for the client, to stop waiting.
LEMMA LeaveStopsWaiting ==
    ASSUME QueueInv, NEW i \in DOMAIN items, NEW how \in {"taken", "removed", "steered"},
           Leave(i, how), created' = created
    PROVE  /\ Work!StopsWaiting(items[i].id)
           /\ Started' = IF how = "taken" THEN Started \union {items[i].id} ELSE Started
  <1>1. QueuedIds' = QueuedIds \ {items[i].id}
    BY LeaveQueued DEF QueueInv
  <1>2. /\ items[i].id \in Ids /\ items[i].id \in QueuedIds
        /\ fate[items[i].id] = "queued"
        /\ \A id \in Ids : fate'[id] = IF id = items[i].id THEN how ELSE fate[id]
    BY LeaveFate
  <1>3. paused' = (paused /\ QueuedIds' # {})
    <2>1. /\ items' \in Seq(Record)
          /\ paused' = (paused /\ items' # <<>>)
      BY LeaveShape DEF QueueInv
    <2>2. items' # <<>> <=> QueuedIds' # {}
      <3>1. CASE items' = <<>>
        BY <3>1 DEF QueuedIds
      <3>2. CASE items' # <<>>
        <4>1. 1 \in DOMAIN items'
          BY <2>1, <3>2
        <4>2. items'[1].id \in QueuedIds'
          BY <4>1 DEF QueuedIds
        <4>3. QED
          BY <3>2, <4>2
      <3>3. QED
        BY <3>1, <3>2
    <2>3. QED
      BY <2>1, <2>2
  <1>4. Work!StopsWaiting(items[i].id)
    BY <1>1, <1>2, <1>3 DEF Work!StopsWaiting
  <1>5. Started' = IF how = "taken" THEN Started \union {items[i].id} ELSE Started
    BY <1>2 DEF Started
  <1>6. QED
    BY <1>4, <1>5

\* What the client sees of the queue, with its races over who pops, removes and
\* steers, is the simple promise: oldest first, once, never while held.
THEOREM ImplementsQueuedWork == QueueSpec => KeepsQueuedWork
  <1>1. ASSUME QueueInit
        PROVE  Work!Init
    <2>1. QueuedIds = {}
      BY <1>1 DEF QueueInit, QueuedIds
    <2>2. Started = {} /\ Folded = {}
      BY <1>1 DEF QueueInit, Started, Folded
    <2>3. QED
      BY <1>1, <2>1, <2>2 DEF QueueInit, Work!Init, Started, Folded
  <1>2. ASSUME QueueInv, QueueInv', [QueueNext]_queueVars
        PROVE  [Work!Next]_(Work!workVars)
    <2> USE DEF Work!Next
    <2>1. ASSUME NEW key \in Keys \union {NoKey}, NEW params \in Inputs, Enqueue(key, params)
          PROVE  Work!Next
      <3>1. created < MaxIds /\ created' = created + 1 /\ UNCHANGED <<paused, steered>>
            /\ fate' = [fate EXCEPT ![created + 1] = "queued"]
        BY <2>1 DEF Enqueue, FreshId
      <3>2. \A id \in Ids : fate'[id] = IF id = created + 1 THEN "queued" ELSE fate[id]
        BY <1>2, <3>1 DEF QueueInv, QueueTypeOK
      <3>3. created + 1 \in Ids /\ fate[created + 1] = "unknown"
        BY <1>2, <3>1, QueueConstants DEF QueueInv, QueueTypeOK, FateAgrees
      <3>4. Started' = Started /\ Folded' = Folded
        BY <3>1, <3>2, <3>3 DEF Started, Folded
      <3>5. QueuedIds' = QueuedIds \union {created + 1}
        <4>1. QueuedIds \subseteq Ids /\ QueuedIds' \subseteq Ids
          BY <1>2, QueuedIdsTyped
        <4>2. \A id \in Ids : id \in QueuedIds' <=> id \in QueuedIds \/ id = created + 1
          BY <1>2, <3>2 DEF QueueInv, FateAgrees
        <4>3. QED
          BY <3>3, <4>1, <4>2
      <3>6. Work!Arrive
        BY <3>1, <3>4, <3>5 DEF Work!Arrive, Started, Folded
      <3>7. QED
        BY <3>6
    <2>2. ASSUME NEW key \in Keys \union {NoKey}, NEW params \in Inputs, NEW id \in Ids,
                 Replace(key, params, id)
          PROVE  UNCHANGED Work!workVars
      <3>1. UNCHANGED <<paused, steered, created, fate>>
        BY <2>2 DEF Replace
      <3>2. QueuedIds' = QueuedIds
        <4>1. QueuedIds \subseteq Ids /\ QueuedIds' \subseteq Ids
          BY <1>2, QueuedIdsTyped
        <4>2. \A other \in Ids : other \in QueuedIds' <=> other \in QueuedIds
          BY <1>2, <3>1 DEF QueueInv, FateAgrees
        <4>3. QED
          BY <4>1, <4>2
      <3>3. QED
        BY <3>1, <3>2 DEF Work!workVars
    <2>3. ASSUME NEW id \in Ids, RemoveItem(id)
          PROVE  Work!Next
      <3>1. PICK i \in DOMAIN items :
                /\ items[i].id = id /\ Leave(i, "removed")
                /\ UNCHANGED <<idempotency, steered, created>>
        BY <2>3 DEF RemoveItem
      <3>2. Work!StopsWaiting(id) /\ Started' = Started
        BY <1>2, <3>1, LeaveStopsWaiting
      <3>3. Work!Withdraw(id)
        BY <3>1, <3>2 DEF Work!Withdraw, Started
      <3>4. QED
        BY <3>3
    <2>4. ASSUME NEW id \in Ids, NEW turn \in Turns, SteerOut(id, turn)
          PROVE  Work!Next
      <3>1. PICK i \in DOMAIN items :
                /\ items[i].id = id /\ Leave(i, "steered")
                /\ steered' = [steered EXCEPT ![id] = turn]
                /\ created' = created
        BY <2>4 DEF SteerOut
      <3>2. Work!StopsWaiting(id) /\ Started' = Started
        BY <1>2, <3>1, LeaveStopsWaiting
      <3>3. turn # NoTurn
        BY QueueConstants
      <3>4. Folded' = Folded \union {id}
        BY <1>2, <3>1, <3>3 DEF QueueInv, QueueTypeOK, Folded
      <3>5. Work!Fold(id)
        BY <3>2, <3>4 DEF Work!Fold, Started, Folded
      <3>6. QED
        BY <3>5
    <2>5. CASE PopNext
      <3>1. 1 \in DOMAIN items
        BY <1>2, <2>5 DEF PopNext, QueueInv, QueueTypeOK
      <3>2. Leave(1, "taken") /\ UNCHANGED <<idempotency, steered, created>> /\ ~paused
        BY <2>5 DEF PopNext
      <3>3. Work!StopsWaiting(items[1].id) /\ Started' = Started \union {items[1].id}
        BY <1>2, <3>1, <3>2, LeaveStopsWaiting
      <3>4. \A other \in QueuedIds : items[1].id <= other
        <4> SUFFICES ASSUME NEW k \in DOMAIN items
                     PROVE  items[1].id <= items[k].id
          BY DEF QueuedIds
        <4>1. items[1].id \in Int /\ items[k].id \in Int
          BY <1>2, <3>1, ItemHasId DEF QueueInv
        <4>2. k = 1 \/ 1 < k
          BY <1>2 DEF QueueInv, QueueTypeOK
        <4>3. QED
          BY <1>2, <3>1, <4>1, <4>2 DEF QueueInv, InOrder
      <3>5. PICK id \in Ids : id = items[1].id
        BY <1>2, <3>1, ItemHasId DEF QueueInv
      <3>6. Work!StopsWaiting(id)
        BY <3>3, <3>5 DEF Work!StopsWaiting
      <3>7. Work!Start(id)
        BY <3>2, <3>3, <3>4, <3>5, <3>6 DEF Work!Start, Started
      <3>8. QED
        BY <3>7
    <2>6. CASE Resume
      <3>1. Work!Release
        BY <2>6 DEF Resume, Work!Release, QueuedIds
      <3>2. QED
        BY <3>1
    <2>7. CASE Pause
      <3>1. QueuedIds # {}
        <4>1. 1 \in DOMAIN items
          BY <1>2, <2>7 DEF Pause, QueueInv, QueueTypeOK
        <4>2. QED
          BY <4>1 DEF QueuedIds
      <3>2. Work!Hold
        BY <2>7, <3>1 DEF Pause, Work!Hold, QueuedIds
      <3>3. QED
        BY <3>2
    <2>8. CASE UNCHANGED queueVars
      BY <2>8 DEF queueVars, Work!workVars, QueuedIds
    <2> HIDE DEF Work!Next
    <2>9. QED
      BY <1>2, <2>1, <2>2, <2>3, <2>4, <2>5, <2>6, <2>7, <2>8 DEF QueueNext
  <1>3. QED
    BY <1>1, <1>2, QueueInvHolds, PTL DEF QueueSpec, KeepsQueuedWork, Work!Spec
=============================================================================

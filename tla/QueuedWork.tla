----------------------------- MODULE QueuedWork -----------------------------
(***************************************************************************)
(* What a queue of turns promises a client, whatever it is kept in: queued *)
(* work waits in the order it arrived, it starts at most once and oldest   *)
(* first, the client may withdraw it or fold it into the running turn      *)
(* while it waits, and nothing starts while the queue is held.             *)
(*                                                                         *)
(* Works are numbered as they arrive.                                      *)
(***************************************************************************)
EXTENDS Integers

CONSTANT MaxWorks   \* bound on the works one behaviour sees, a natural number

VARIABLES
    arrived,   \* how many works arrived so far
    waiting,   \* the works that have not started
    started,   \* the works that became a turn of their own
    folded,    \* the works that joined a running turn instead
    held       \* nothing starts until a client says so

workVars == <<arrived, waiting, started, folded, held>>

Init ==
    /\ arrived = 0
    /\ waiting = {}
    /\ started = {}
    /\ folded = {}
    /\ held = FALSE

Arrive ==
    /\ arrived < MaxWorks
    /\ arrived' = arrived + 1
    /\ waiting' = waiting \union {arrived + 1}
    /\ UNCHANGED <<started, folded, held>>

\* What stays behind may stay held; an empty queue holds nothing.
StopsWaiting(work) ==
    /\ work \in waiting
    /\ waiting' = waiting \ {work}
    /\ held' = (held /\ waiting' # {})
    /\ UNCHANGED arrived

Start(work) ==
    /\ ~held
    /\ \A other \in waiting : work <= other
    /\ StopsWaiting(work)
    /\ started' = started \union {work}
    /\ UNCHANGED folded

Withdraw(work) ==
    /\ StopsWaiting(work)
    /\ UNCHANGED <<started, folded>>

Fold(work) ==
    /\ StopsWaiting(work)
    /\ folded' = folded \union {work}
    /\ UNCHANGED started

Hold ==
    /\ waiting # {}
    /\ held' = TRUE
    /\ UNCHANGED <<arrived, waiting, started, folded>>

Release ==
    /\ held' = FALSE
    /\ UNCHANGED <<arrived, waiting, started, folded>>

Next ==
    \/ Arrive
    \/ \E work \in 1..MaxWorks : Start(work) \/ Withdraw(work) \/ Fold(work)
    \/ Hold
    \/ Release

Spec == Init /\ [][Next]_workVars
=============================================================================

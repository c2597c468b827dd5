--------------------------- MODULE DurableSession ---------------------------
(***************************************************************************)
(* What saving a session promises whoever reopens it: what is on disk is    *)
(* replaced all at once by what the one process that holds the session      *)
(* holds, follows a title that process gave it, and otherwise stays as it   *)
(* is, whatever stops on the way.                                           *)
(***************************************************************************)
EXTENDS Integers

CONSTANTS
    Fresh,      \* what a new session holds: a body and a title
    None        \* nothing on disk, or nobody holding the session

VARIABLES
    held,       \* what the process that holds the session holds of it
    saved       \* what the next one to open it will read

durableVars == <<held, saved>>

Init == held = None /\ saved = None

\* A process opens the session as it was saved, or a new one.
Open ==
    /\ held = None
    /\ held' = (IF saved = None THEN Fresh ELSE saved)
    /\ saved' = saved

\* It opens it, gives it a title and saves it so, or fails to.
OpenRenamed ==
    /\ held = None /\ saved # None
    /\ held' = [saved EXCEPT !.title = @ + 1]
    /\ saved' = saved

\* The session goes on, and what is saved may take a title it has had.
Work ==
    /\ held # None /\ held' # None
    /\ \/ saved' = saved
       \/ /\ saved # None
          /\ \E t \in 0..held'.title : saved' = [saved EXCEPT !.title = t]

Save ==
    /\ held # None /\ held' \in {held, None}
    /\ saved' = held

Lose == held # None /\ held' = None /\ saved' = saved

Next == Work \/ Save \/ Lose \/ Open \/ OpenRenamed

Spec == Init /\ [][Next]_durableVars
=============================================================================

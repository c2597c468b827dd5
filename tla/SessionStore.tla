---------------------------- MODULE SessionStore ----------------------------
(***************************************************************************)
(* The store of one unified session and the processes that open it:        *)
(* SessionStore of vibe-harness/src/store.rs, the lease of                 *)
(* vibe-core/src/storage/lease.rs, and the calls of                        *)
(* vibe-app-server/src/server/unified.rs and unified/reopen.rs, marks.rs   *)
(* and titles.rs on them.                                                  *)
(*                                                                         *)
(* A generation is written one file at a time, and CURRENT is pointed at   *)
(* it by the last write; the process may stop, or a write fail, between    *)
(* any two.  A commit holds the core's and the host's mutex, so nothing    *)
(* else of its process runs meanwhile; another process may.  Files are     *)
(* replaced whole (write_atomic), and the chunks a part refers to are named *)
(* by what they hold, so that a part stands for its chunks too.            *)
(***************************************************************************)
EXTENDS Integers, Sequences

CONSTANTS
    Procs,          \* the processes that may open the session
    Nobody,
    Bodies,         \* what a session may hold beside its title
    FreshBody,      \* what a new one does
    MaxGeneration,  \* bound on the generations and on the watermark
    MaxTitle,       \* bound on the titles given: the n-th is n, 0 is none
    KeepUnread,     \* whether files nothing will read again are kept, as they are on
                    \* disk: a run that forgets them has fewer states
    Races           \* what overlaps although the lease should prevent it: a process
                    \* that lets its lease go goes on writing ("leave"), one that has
                    \* read the store takes the lease later ("reopen"), a stored
                    \* session is renamed while it is held ("rename")

ASSUME StoreConstants ==
    /\ Nobody \notin Procs
    /\ FreshBody \in Bodies
    /\ KeepUnread \in BOOLEAN
    /\ MaxGeneration \in Nat \ {0} /\ MaxTitle \in Nat

Generations == 1..MaxGeneration
Titles      == 0..MaxTitle
NoRecord    == -1
Places      == {"away", "loaded", "live", "leaving", "renaming"}

\* The parts of a generation, in the order commit writes them (the checkpoint
\* stands for the runtime state, written next to it).
Parts == <<"checkpoint", "projection", "manifest">>
PartNames == {"checkpoint", "projection", "manifest"}

VARIABLES
    (* The session's directory, and its lease. *)
    current,    \* the generation CURRENT names, 0 while there is none
    parts,      \* what each part of each generation holds
    segment,    \* the title of the last step each journal segment records
    lease,      \* who holds the session
    told,       \* the title last put on disk, by a journaled step or a generation
    (* Each process. *)
    place,      \* how far it has opened the session
    body,       \* what it holds of it,
    title,      \* under which title,
    watermark,  \* and the journaled advances behind it
    store,      \* the generation its handle is at, 0 while it has none
    writing,    \* the commit it is in
    failed      \* whether the last one failed

diskVars    == <<current, parts, segment, told>>
memoryVars  == <<body, title, watermark, store>>
storeVars   == <<diskVars, lease, place, memoryVars, writing, failed>>

\* What a process that has not opened the session stands for, and a file that
\* was not written: no session has a negative watermark.
Blank  == [body |-> FreshBody, title |-> 0, watermark |-> 0]
NoFile == [Blank EXCEPT !.watermark = -1]

NotWriting == [generation |-> 0, next |-> 0, snapshot |-> NoFile]

Larger(m, n) == IF m > n THEN m ELSE n

Unwritten == [part \in PartNames |-> NoFile]

StoreInit ==
    /\ current = 0
    /\ parts = [g \in Generations |-> Unwritten]
    /\ segment = [g \in 1..(MaxGeneration + 1) |-> NoRecord]
    /\ lease = Nobody
    /\ told = 0
    /\ place = [p \in Procs |-> "away"]
    /\ body = [p \in Procs |-> FreshBody]
    /\ title = [p \in Procs |-> 0]
    /\ watermark = [p \in Procs |-> 0]
    /\ store = [p \in Procs |-> 0]
    /\ writing = [p \in Procs |-> NotWriting]
    /\ failed = [p \in Procs |-> FALSE]

-----------------------------------------------------------------------------
(* What load reads back: the conversation of the checkpoint, the title and  *)
(* the watermark of the projection, and over them the last step of the      *)
(* segment that follows the generation.                                     *)

ReplayedSegment == current + 1

SavedBody      == parts[current]["checkpoint"].body
SavedWatermark == parts[current]["projection"].watermark
SavedTitle     == IF segment[ReplayedSegment] # NoRecord
                  THEN segment[ReplayedSegment]
                  ELSE parts[current]["projection"].title

Unheld == lease = Nobody

\* Nothing comes between a process' read of the store and what it then does
\* with it, unless the lease lets it.
Undisturbed(p) ==
    \A q \in Procs \ {p} :
        /\ place[q] = "loaded" => "reopen" \in Races
        /\ place[q] = "renaming" => "rename" \in Races

\* p now holds what snapshot s says, through a handle at generation g.
Holds(p, s, g) ==
    /\ body' = [body EXCEPT ![p] = s.body]
    /\ title' = [title EXCEPT ![p] = s.title]
    /\ watermark' = [watermark EXCEPT ![p] = s.watermark]
    /\ store' = [store EXCEPT ![p] = g]

Saved == [body |-> SavedBody, title |-> SavedTitle, watermark |-> SavedWatermark]

\* session/start: a session with nothing said and no store yet, which nobody
\* else knows of.
Start(p) ==
    /\ current = 0 /\ Unheld
    /\ \A q \in Procs : place[q] = "away"
    /\ lease' = p
    /\ place' = [place EXCEPT ![p] = "live"]
    /\ Holds(p, Blank, 0)
    /\ UNCHANGED <<diskVars, writing, failed>>

\* reopen_with reads the store first (who reads one that somebody holds is
\* refused in the next step, and is left out)...
Load(p) ==
    /\ Undisturbed(p)
    /\ place[p] = "away" /\ current # 0
    /\ Unheld \/ "reopen" \in Races
    /\ place' = [place EXCEPT ![p] = "loaded"]
    /\ Holds(p, Saved, current)
    /\ UNCHANGED <<diskVars, lease, writing, failed>>

\* ... and takes the lease second, ...
Attach(p) ==
    /\ Undisturbed(p)
    /\ place[p] = "loaded" /\ Unheld
    /\ lease' = p
    /\ place' = [place EXCEPT ![p] = "live"]
    /\ UNCHANGED <<diskVars, memoryVars, writing, failed>>

\* The files nothing will read again are left where they are: the generations
\* CURRENT does not name, the segments before the one that is replayed.
Forget ==
    IF KeepUnread THEN UNCHANGED <<parts, segment>>
    ELSE /\ parts' = [g \in Generations |-> IF g = current THEN parts[g] ELSE Unwritten]
         /\ segment' = [n \in DOMAIN segment |->
                           IF n = ReplayedSegment THEN segment[n] ELSE NoRecord]

\* The process ends, whatever it was doing, or (place "loaded") is refused the
\* session somebody else holds.
Freed(p) == IF lease = p THEN Nobody ELSE lease

Stop(p) ==
    /\ Undisturbed(p)
    /\ place[p] # "away"
    /\ lease' = Freed(p)
    /\ place' = [place EXCEPT ![p] = "away"]
    /\ writing' = [writing EXCEPT ![p] = NotWriting]
    /\ failed' = [failed EXCEPT ![p] = FALSE]
    /\ Holds(p, Blank, 0)
    /\ Forget
    /\ UNCHANGED <<current, told>>

\* The connection closes and gives the lease back at once.  A turn that still
\* runs is given time to end, and the process ends after it.
Leave(p) ==
    /\ Undisturbed(p)
    /\ place[p] = "live"
    /\ "leave" \in Races
    /\ lease' = Freed(p)
    /\ place' = [place EXCEPT ![p] = "leaving"]
    /\ UNCHANGED <<diskVars, memoryVars, writing, failed>>

-----------------------------------------------------------------------------
(* The session at work, one section of its mutexes at a time.               *)

Works(p) ==
    /\ Undisturbed(p)
    /\ place[p] \in {"live", "leaving"} /\ writing[p] = NotWriting

\* journal: a step that advanced the state is recorded in the segment that
\* follows the handle's generation, if there is a store.
\* Fault: the segment after the watermark, which the manifest names.
SegmentOfManifest(p) == watermark[p] + 1

Segment(p) == store[p] + 1

Recorded(p, t) ==
    IF store[p] = 0 THEN UNCHANGED <<segment, told>>
    ELSE /\ segment' = [segment EXCEPT ![Segment(p)] = t]
         /\ told' = t

\* A core section that is not journaled.
Change(p, b) ==
    /\ Works(p)
    /\ body' = [body EXCEPT ![p] = b]
    /\ UNCHANGED <<diskVars, lease, place, title, watermark, store, writing, failed>>

\* A core section of n journaled steps, published before the core is released.
Advance(p, b, n) ==
    /\ Works(p)
    /\ watermark[p] + n <= MaxGeneration
    /\ body' = [body EXCEPT ![p] = b]
    /\ watermark' = [watermark EXCEPT ![p] = @ + n]
    /\ Recorded(p, title[p])
    /\ UNCHANGED <<current, parts, lease, place, title, store, writing, failed>>

\* A core section whose step a later section of the same handler journals, ...
AdvanceUntold(p, b) ==
    /\ Works(p)
    /\ watermark[p] < MaxGeneration
    /\ body' = [body EXCEPT ![p] = b]
    /\ watermark' = [watermark EXCEPT ![p] = @ + 1]
    /\ UNCHANGED <<diskVars, lease, place, title, store, writing, failed>>

\* ... as those of unified_rename and land_title, which take a title, are.
Retitle(p) ==
    /\ Works(p)
    /\ watermark[p] < MaxGeneration /\ title[p] < MaxTitle
    /\ title' = [title EXCEPT ![p] = @ + 1]
    /\ watermark' = [watermark EXCEPT ![p] = @ + 1]
    /\ UNCHANGED <<diskVars, lease, place, body, store, writing, failed>>

\* The later section: publish journals the state its caller read, and a title
\* given since is not in it.
Tell(p, t) ==
    /\ Works(p) /\ t \in 0..title[p]
    /\ Recorded(p, t)
    /\ UNCHANGED <<current, parts, lease, place, memoryVars, writing, failed>>

-----------------------------------------------------------------------------
(* commit: a generation of its own, one file at a time.                     *)

\* Faults: a generation numbered by the watermark alone, CURRENT pointed at it
\* before its manifest is written, a generation that leaves the title out.
WatermarkAlone(p) == watermark[p]
ManifestLast      == Len(Parts)
HeldUntitled(p)   == [body |-> body[p], title |-> 0, watermark |-> watermark[p]]

NextGeneration(p) == Larger(watermark[p], store[p] + 1)
AllWritten        == Len(Parts) + 1

\* What p holds, as a generation records it.
Held(p) == [body |-> body[p], title |-> title[p], watermark |-> watermark[p]]

\* promote, the first time, and settle: the two run the same commit.
Save(p) ==
    /\ Works(p)
    /\ NextGeneration(p) \in Generations
    /\ writing' = [writing EXCEPT ![p] = [generation |-> NextGeneration(p), next |-> 1,
                                          snapshot   |-> Held(p)]]
    /\ Forget
    /\ UNCHANGED <<current, told, lease, place, memoryVars, failed>>

\* unified_rename on a session this process does not hold: no lease is taken.
Renamed == [body |-> SavedBody, title |-> SavedTitle + 1, watermark |-> SavedWatermark + 1]

RenameStored(p) ==
    /\ Undisturbed(p)
    /\ place[p] = "away" /\ current # 0
    /\ Unheld \/ "rename" \in Races
    /\ SavedTitle < MaxTitle /\ SavedWatermark < MaxGeneration
    /\ LET g == Larger(Renamed.watermark, current + 1) IN
       /\ g \in Generations
       /\ writing' = [writing EXCEPT ![p] = [generation |-> g, next |-> 1,
                                             snapshot   |-> Renamed]]
    /\ place' = [place EXCEPT ![p] = "renaming"]
    /\ Holds(p, Renamed, current)
    /\ Forget
    /\ UNCHANGED <<current, told, lease, failed>>

\* Fault: the handle stays at the generation it was opened at.
HandleStays(p, g) ==
    /\ place' = [place EXCEPT ![p] = IF @ = "renaming" THEN "away" ELSE @]
    /\ UNCHANGED memoryVars

\* The commit of a rename, or its failure, is all its process wanted of the
\* store; any other leaves the handle at generation g.
Committed(p, g) ==
    IF place[p] = "renaming"
    THEN place' = [place EXCEPT ![p] = "away"] /\ Holds(p, Blank, 0)
    ELSE /\ store' = [store EXCEPT ![p] = g]
         /\ UNCHANGED <<place, body, title, watermark>>

WritePart(p) ==
    LET w == writing[p] IN
    /\ Undisturbed(p)
    /\ w # NotWriting /\ w.next < AllWritten
    /\ parts' = [parts EXCEPT ![w.generation][Parts[w.next]] = w.snapshot]
    /\ writing' = [writing EXCEPT ![p].next = @ + 1]
    /\ UNCHANGED <<current, segment, told, lease, place, memoryVars, failed>>

PointCurrent(p) ==
    LET w == writing[p] IN
    /\ Undisturbed(p)
    /\ w # NotWriting /\ w.next = AllWritten
    /\ current' = w.generation
    /\ told' = w.snapshot.title
    /\ writing' = [writing EXCEPT ![p] = NotWriting]
    /\ failed' = [failed EXCEPT ![p] = FALSE]
    /\ Committed(p, w.generation)
    /\ UNCHANGED <<parts, segment, lease>>

\* A write fails: the commit returns, the handle stays where it was and the
\* caller goes on.
FailWrite(p) ==
    /\ Undisturbed(p)
    /\ writing[p] # NotWriting
    /\ failed' = [failed EXCEPT ![p] = place[p] # "renaming"]
    /\ writing' = [writing EXCEPT ![p] = NotWriting]
    /\ Committed(p, store[p])
    /\ Forget
    /\ UNCHANGED <<current, told, lease>>

-----------------------------------------------------------------------------
\* What opens, ends and writes, whatever the session holds.
StoreStep(p) ==
    \/ Start(p) \/ Load(p) \/ Attach(p) \/ Stop(p) \/ Leave(p)
    \/ Retitle(p)
    \/ \E t \in Titles : Tell(p, t)
    \/ Save(p) \/ RenameStored(p)
    \/ WritePart(p) \/ PointCurrent(p) \/ FailWrite(p)

StoreNext ==
    \E p \in Procs :
        \/ StoreStep(p)
        \/ \E b \in Bodies : \/ Change(p, b) \/ AdvanceUntold(p, b)
                            \/ Advance(p, b, 1) \/ Advance(p, b, 2)

StoreSpec == StoreInit /\ [][StoreNext]_storeVars

-----------------------------------------------------------------------------
(* Properties. *)

Snapshots == [body : Bodies, title : Titles, watermark : 0..MaxGeneration]

StoreTypeOK ==
    /\ current \in 0..MaxGeneration
    /\ parts \in [Generations -> [PartNames -> Snapshots \union {NoFile}]]
    /\ segment \in [1..(MaxGeneration + 1) -> Titles \union {NoRecord}]
    /\ lease \in Procs \union {Nobody}
    /\ told \in Titles
    /\ place \in [Procs -> Places]
    /\ body \in [Procs -> Bodies] /\ title \in [Procs -> Titles]
    /\ watermark \in [Procs -> 0..MaxGeneration]
    /\ store \in [Procs -> 0..MaxGeneration]
    /\ failed \in [Procs -> BOOLEAN]

\* CURRENT names a generation all of whose parts one commit wrote, whatever
\* failed or stopped on the way.
PublishedIsWhole ==
    current # 0 =>
        /\ parts[current]["manifest"] # NoFile
        /\ \A part \in PartNames : parts[current][part] = parts[current]["manifest"]

\* A generation CURRENT named is never written again: who opened it before a
\* commit reads one state, the old one.
PublishedIsNotRewritten ==
    [][current # 0 => current' >= current /\ parts'[current] = parts[current]]_storeVars

\* A reopened session has the title last put on disk: steps are journaled in
\* the segment that is replayed, and a new generation finds it empty.
ReopenReadsLastStep == current # 0 => SavedTitle = told

\* One process at a time writes the session: the one that holds its lease.
MayWrite(p) == place[p] \in {"live", "leaving", "renaming"}

OneProcessWrites == \A p, q \in Procs : MayWrite(p) /\ MayWrite(q) => p = q

\* The handle the session is written through is at the generation CURRENT
\* names: none was published behind its back.
HandleIsCurrent == \A p \in Procs : MayWrite(p) => store[p] = current

\* To whoever opens the session next it is saved all at once: what a process
\* that may write it holds, and what the disk holds, are DurableSession's two.
NoSession == [body |-> FreshBody, title |-> -1]

InMemory(p) == [body |-> body[p], title |-> title[p]]

HeldNow == IF \E p \in Procs : MayWrite(p) THEN InMemory(CHOOSE p \in Procs : MayWrite(p))
           ELSE NoSession

SavedNow == IF current = 0 THEN NoSession ELSE [body |-> SavedBody, title |-> SavedTitle]

Durable == INSTANCE DurableSession WITH
    Fresh <- [body |-> FreshBody, title |-> 0],
    None  <- NoSession,
    held  <- HeldNow,
    saved <- SavedNow

SavesAtOnce == Durable!Spec
=============================================================================

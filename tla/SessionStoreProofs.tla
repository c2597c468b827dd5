------------------------- MODULE SessionStoreProofs -------------------------
(***************************************************************************)
(* What the store promises while the lease keeps others out (no Races), for *)
(* any number of processes, generations and titles, and whatever a session  *)
(* holds: nothing here looks into a body.                                   *)
(***************************************************************************)
EXTENDS SessionStore, TLAPS

\* A step of process p, with any body and any number of journaled advances.
AnyStep(p) ==
    \/ StoreStep(p)
    \/ \E b : \/ Change(p, b) \/ AdvanceUntold(p, b)
              \/ \E n \in Nat : Advance(p, b, n)

AnyNext == \E p \in Procs : AnyStep(p)

-----------------------------------------------------------------------------
(* The inductive invariant. *)

\* A title and a watermark, beside any body.
Image(s) == s.title \in Titles /\ s.watermark \in 0..MaxGeneration

Shape ==
    /\ current \in 0..MaxGeneration
    /\ lease \in Procs \union {Nobody}
    /\ place \in [Procs -> Places]
    /\ DOMAIN body = Procs
    /\ title \in [Procs -> Titles]
    /\ watermark \in [Procs -> 0..MaxGeneration]
    /\ store \in [Procs -> 0..MaxGeneration]
    /\ failed \in [Procs -> BOOLEAN]
    /\ DOMAIN writing = Procs

\* One process at a time is anywhere near the session; it holds the lease once
\* the session is its own.
OneOpener ==
    /\ \A p, q \in Procs : place[p] # "away" /\ place[q] # "away" => p = q
    /\ \A p \in Procs : place[p] # "leaving" /\ (lease = p <=> place[p] = "live")

\* Whoever is near it has read what CURRENT names.
HandleFollows == \A p \in Procs : place[p] # "away" => store[p] = current

\* What it has read is still what is there.
ReadIsSaved ==
    \A p \in Procs : place[p] = "loaded" =>
        /\ current # 0
        /\ body[p] = SavedBody /\ title[p] = SavedTitle

\* A commit is ahead of CURRENT, takes what its process holds, and has written
\* the parts before the next.
CommitIsAhead ==
    \A p \in Procs : writing[p] # NotWriting =>
        LET w == writing[p] IN
        /\ place[p] \in {"live", "renaming"}
        /\ w = [generation |-> w.generation, next |-> w.next, snapshot |-> w.snapshot]
        /\ w.generation \in Generations /\ w.generation > current
        /\ w.next \in 1..AllWritten
        /\ w.snapshot = Held(p)
        /\ \A i \in 1..3 : i < w.next => parts[w.generation][Parts[i]] = w.snapshot

\* What CURRENT names was written by one commit, ...
Published ==
    current # 0 =>
        /\ Image(parts[current]["manifest"])
        /\ \A part \in PartNames : parts[current][part] = parts[current]["manifest"]

\* ... and the segments after the one it is read with are empty.
SegmentsAhead ==
    \A n \in 1..(MaxGeneration + 1) : n > ReplayedSegment => segment[n] = NoRecord

Disk ==
    /\ DOMAIN parts = Generations
    /\ \A g \in Generations : DOMAIN parts[g] = PartNames
    /\ segment \in [1..(MaxGeneration + 1) -> Titles \union {NoRecord}]
    /\ told \in Titles
    /\ Published /\ SegmentsAhead /\ ReopenReadsLastStep

StoreInv ==
    Shape /\ OneOpener /\ HandleFollows /\ ReadIsSaved /\ CommitIsAhead /\ Disk

LEMMA PartsInOrder ==
    /\ Parts[1] = "checkpoint" /\ Parts[2] = "projection" /\ Parts[3] = "manifest"
    /\ AllWritten = 4
  BY DEF Parts, AllWritten

LEMMA StoreInvInit == StoreInit => StoreInv
  BY StoreConstants DEF StoreInit, StoreInv, Shape, OneOpener, HandleFollows,
     ReadIsSaved, CommitIsAhead, Disk, Published, SegmentsAhead, ReopenReadsLastStep, Generations,
     Titles, Places, Unwritten, ReplayedSegment, NoRecord

-----------------------------------------------------------------------------
(* What a step may rely on.                                                 *)

\* Who may open the session finds nobody near it.
LEMMA NobodyIsNear ==
    ASSUME Races = {}, Shape, OneOpener, NEW p \in Procs,
           place[p] = "away", Unheld, Undisturbed(p)
    PROVE  \A q \in Procs : place[q] = "away"
  BY StoreConstants DEF Shape, OneOpener, Unheld, Undisturbed, Places

LEMMA AwayWritesNothing ==
    ASSUME CommitIsAhead, NEW p \in Procs, place[p] = "away"
    PROVE  writing[p] = NotWriting
  BY DEF CommitIsAhead

LEMMA OthersAreAway ==
    ASSUME OneOpener, CommitIsAhead, NEW p \in Procs, place[p] # "away"
    PROVE  \A q \in Procs \ {p} : place[q] = "away" /\ writing[q] = NotWriting
  BY AwayWritesNothing DEF OneOpener

LEMMA WhoWorksIsLive ==
    ASSUME StoreInv, NEW p \in Procs, Works(p)
    PROVE  place[p] = "live" /\ writing[p] = NotWriting /\ store[p] = current
  BY DEF StoreInv, OneOpener, HandleFollows, Works

\* What is read of a saved session.
LEMMA SavedIsAnImage ==
    ASSUME Shape, Disk, current # 0
    PROVE  /\ SavedTitle \in Titles /\ SavedWatermark \in 0..MaxGeneration
           /\ ReplayedSegment \in 1..(MaxGeneration + 1)
  BY StoreConstants DEF Shape, Disk, Published, Image, SavedTitle, SavedWatermark,
     ReplayedSegment, PartNames

LEMMA SameDisk ==
    ASSUME Disk, UNCHANGED <<current, parts, segment, told>>
    PROVE  Disk'
  BY DEF Disk, Published, SegmentsAhead, ReopenReadsLastStep, ReplayedSegment, SavedTitle

\* A recorded step is the last of the segment that is replayed.
LEMMA RecordedKeepsDisk ==
    ASSUME Shape, Disk, NEW p \in Procs, store[p] = current,
           NEW t \in Titles, Recorded(p, t), UNCHANGED <<current, parts>>
    PROVE  Disk'
  <1>1. CASE store[p] = 0
    BY <1>1, SameDisk DEF Recorded
  <1>2. CASE store[p] # 0
    <2>1. /\ segment' = [segment EXCEPT ![current + 1] = t] /\ told' = t
          /\ current + 1 \in 1..(MaxGeneration + 1)
      BY <1>2, StoreConstants DEF Recorded, Segment, Shape
    <2>2. segment'[current + 1] = t /\ t # NoRecord
      BY <2>1 DEF Disk, Titles, NoRecord
    <2>3. ReopenReadsLastStep'
      BY <2>1, <2>2 DEF ReopenReadsLastStep, SavedTitle, ReplayedSegment
    <2>4. SegmentsAhead'
      BY <2>1, StoreConstants DEF Disk, SegmentsAhead, ReplayedSegment, Shape
    <2>5. Published'
      BY DEF Disk, Published, Image
    <2>6. QED
      BY <2>1, <2>3, <2>4, <2>5 DEF Disk
  <1>3. QED
    BY <1>1, <1>2

\* What nothing reads again is not missed.
LEMMA ForgetKeepsDisk ==
    ASSUME Shape, Disk, Forget, UNCHANGED <<current, told>>
    PROVE  Disk'
  <1>1. CASE KeepUnread
    BY <1>1, SameDisk DEF Forget
  <1>2. CASE ~KeepUnread
    <2>1. /\ parts' = [g \in Generations |-> IF g = current THEN parts[g] ELSE Unwritten]
          /\ segment' = [n \in 1..(MaxGeneration + 1) |->
                            IF n = ReplayedSegment THEN segment[n] ELSE NoRecord]
      BY <1>2 DEF Forget, Disk
    <2>2. current # 0 => /\ parts'[current] = parts[current]
                         /\ segment'[ReplayedSegment] = segment[ReplayedSegment]
      BY <2>1, StoreConstants DEF Shape, Generations, ReplayedSegment
    <2>3. Published'
      BY <2>2 DEF Disk, Published, Image
    <2>4. SegmentsAhead'
      BY <2>1 DEF SegmentsAhead, ReplayedSegment, Disk
    <2>5. ReopenReadsLastStep'
      BY <2>2 DEF Disk, ReopenReadsLastStep, SavedTitle, ReplayedSegment
    <2>6. /\ DOMAIN parts' = Generations
          /\ \A g \in Generations : DOMAIN parts'[g] = PartNames
          /\ segment' \in [1..(MaxGeneration + 1) -> Titles \union {NoRecord}]
      BY <2>1 DEF Disk, Unwritten
    <2>7. QED
      BY <2>3, <2>4, <2>5, <2>6 DEF Disk
  <1>3. QED
    BY <1>1, <1>2

\* A part of a generation CURRENT does not name is nobody's business.
LEMMA PartKeepsDisk ==
    ASSUME Shape, Disk, NEW g \in Generations, g # current, NEW part, NEW s,
           parts' = [parts EXCEPT ![g][part] = s],
           UNCHANGED <<current, segment, told>>
    PROVE  Disk'
  <1>1. parts'[current] = parts[current]
    BY DEF Disk
  <1>2. Published' /\ ReopenReadsLastStep' /\ SegmentsAhead'
    BY <1>1 DEF Disk, Published, Image, ReopenReadsLastStep, SavedTitle,
       SegmentsAhead, ReplayedSegment
  <1>3. DOMAIN parts' = Generations /\ \A h \in Generations : DOMAIN parts'[h] = PartNames
    BY DEF Disk
  <1>4. QED
    BY <1>2, <1>3 DEF Disk

LEMMA TitleOfGeneration ==
    ASSUME Disk, NEW g \in Generations, g > current, current' = g,
           NEW s, Image(s), told' = s.title,
           \A part \in PartNames : parts[g][part] = s,
           UNCHANGED <<parts, segment>>, Shape
    PROVE  Disk'
  <1>1. segment'[g + 1] = NoRecord
    BY StoreConstants DEF Disk, SegmentsAhead, ReplayedSegment, Generations, Shape
  <1>2. ReopenReadsLastStep'
    BY <1>1 DEF ReopenReadsLastStep, SavedTitle, ReplayedSegment, PartNames
  <1>3. SegmentsAhead'
    BY StoreConstants DEF Disk, SegmentsAhead, ReplayedSegment, Generations, Shape
  <1>4. Published'
    BY DEF Published, PartNames, Image
  <1>5. told' \in Titles
    BY DEF Image
  <1>6. QED
    BY <1>2, <1>3, <1>4, <1>5 DEF Disk

-----------------------------------------------------------------------------
(* Every step keeps the invariant. *)

\* A step that leaves the disk and the commits as they are, and who is near the
\* session: it is at work in memory.
LEMMA WorkKeepsIt ==
    ASSUME StoreInv, NEW p \in Procs, place[p] = "live", writing[p] = NotWriting,
           DOMAIN body' = Procs,
           \A q \in Procs \ {p} : Held(q)' = Held(q),
           title' \in [Procs -> Titles], watermark' \in [Procs -> 0..MaxGeneration],
           Disk', UNCHANGED <<current, parts, lease, place, store, writing, failed>>
    PROVE  StoreInv'
  <1>1. Shape' /\ OneOpener' /\ HandleFollows'
    BY DEF StoreInv, Shape, OneOpener, HandleFollows
  <1>2. ReadIsSaved'
    BY DEF StoreInv, OneOpener, ReadIsSaved
  <1>3. CommitIsAhead'
    BY DEF StoreInv, CommitIsAhead
  <1>4. QED
    BY <1>1, <1>2, <1>3 DEF StoreInv

\* A step of p that opens the session, or ends it, while nobody writes.
LEMMA OpeningKeepsIt ==
    ASSUME StoreInv, NEW p \in Procs,
           \A q \in Procs \ {p} : place[q] = "away",
           DOMAIN writing' = Procs, \A q \in Procs : writing'[q] = NotWriting,
           NEW s, Image(s), NEW g \in 0..MaxGeneration, Holds(p, s, g),
           NEW at \in {"away", "loaded", "live"}, place' = [place EXCEPT ![p] = at],
           at # "away" => g = current,
           at = "loaded" => current # 0 /\ s.body = SavedBody' /\ s.title = SavedTitle',
           lease' = (IF at = "live" THEN p ELSE Nobody),
           failed' \in [Procs -> BOOLEAN],
           Disk', UNCHANGED current
    PROVE  StoreInv'
  <1>1. Shape'
    BY DEF StoreInv, Shape, Holds, Image, Places
  <1>2. OneOpener' /\ HandleFollows'
    BY StoreConstants DEF StoreInv, Shape, OneOpener, HandleFollows, Holds
  <1>3. CommitIsAhead'
    BY DEF CommitIsAhead
  <1>4. ReadIsSaved'
    BY DEF StoreInv, Shape, ReadIsSaved, Holds
  <1>5. QED
    BY <1>1, <1>2, <1>3, <1>4 DEF StoreInv

LEMMA StartKeepsIt ==
    ASSUME StoreInv, NEW p \in Procs, Start(p)
    PROVE  StoreInv'
  <1>1. DOMAIN writing' = Procs /\ \A q \in Procs : writing'[q] = NotWriting
    BY AwayWritesNothing DEF Start, StoreInv, Shape
  <1>2. Image(Blank) /\ 0 \in 0..MaxGeneration /\ current = 0
    BY StoreConstants DEF Start, Image, Blank, Titles
  <1>3. Disk'
    BY SameDisk DEF StoreInv, Start, diskVars
  <1>4. QED
    BY <1>1, <1>2, <1>3, OpeningKeepsIt DEF Start, StoreInv, Shape, diskVars

LEMMA LoadKeepsIt ==
    ASSUME Races = {}, StoreInv, NEW p \in Procs, Load(p)
    PROVE  StoreInv'
  <1>1. Unheld /\ \A q \in Procs : place[q] = "away"
    BY NobodyIsNear DEF Load, StoreInv
  <1>2. DOMAIN writing' = Procs /\ \A q \in Procs : writing'[q] = NotWriting
    BY <1>1, AwayWritesNothing DEF Load, StoreInv, Shape
  <1>3. Image(Saved) /\ current \in 0..MaxGeneration
    BY SavedIsAnImage DEF Load, StoreInv, Shape, Image, Saved
  <1>4. Disk'
    BY SameDisk DEF StoreInv, Load, diskVars
  <1>5. Saved.body = SavedBody' /\ Saved.title = SavedTitle'
    BY DEF Load, Saved, SavedBody, SavedTitle, ReplayedSegment, diskVars
  <1>6. QED
    BY <1>1, <1>2, <1>3, <1>4, <1>5, OpeningKeepsIt
       DEF Load, StoreInv, Shape, diskVars, Unheld

LEMMA AttachKeepsIt ==
    ASSUME StoreInv, NEW p \in Procs, Attach(p)
    PROVE  StoreInv'
  <1>1. Shape' /\ HandleFollows'
    BY DEF Attach, StoreInv, Shape, HandleFollows, memoryVars, diskVars, Places
  <1>2. OneOpener'
    BY StoreConstants DEF Attach, StoreInv, Shape, OneOpener, Unheld
  <1>3. CommitIsAhead'
    BY DEF Attach, StoreInv, Shape, CommitIsAhead, Held, memoryVars, diskVars
  <1>4. Disk'
    BY SameDisk DEF StoreInv, Attach, diskVars
  <1>5. ReadIsSaved'
    BY DEF Attach, StoreInv, Shape, OneOpener, ReadIsSaved
  <1>6. QED
    BY <1>1, <1>2, <1>3, <1>4, <1>5 DEF StoreInv

LEMMA StopKeepsIt ==
    ASSUME StoreInv, NEW p \in Procs, Stop(p)
    PROVE  StoreInv'
  <1>1. \A q \in Procs \ {p} : place[q] = "away" /\ writing[q] = NotWriting
    BY OthersAreAway DEF Stop, StoreInv
  <1>2. DOMAIN writing' = Procs /\ \A q \in Procs : writing'[q] = NotWriting
    BY <1>1 DEF Stop, StoreInv, Shape
  <1>3. lease' = Nobody
    BY <1>1 DEF Stop, Freed, StoreInv, Shape, OneOpener
  <1>4. Image(Blank) /\ 0 \in 0..MaxGeneration
    BY StoreConstants DEF Image, Blank, Titles
  <1>5. Disk'
    BY ForgetKeepsDisk DEF Stop, StoreInv
  <1>6. QED
    BY <1>1, <1>2, <1>3, <1>4, <1>5, OpeningKeepsIt DEF Stop, StoreInv, Shape

LEMMA ChangeKeepsIt ==
    ASSUME StoreInv, NEW p \in Procs, NEW b, Change(p, b) \/ AdvanceUntold(p, b)
    PROVE  StoreInv'
  <1>1. Disk'
    BY SameDisk DEF StoreInv, Change, AdvanceUntold, diskVars
  <1>2. title' \in [Procs -> Titles] /\ watermark' \in [Procs -> 0..MaxGeneration]
    BY StoreConstants DEF StoreInv, Shape, Change, AdvanceUntold
  <1>3. QED
    BY <1>1, <1>2, WorkKeepsIt, WhoWorksIsLive
       DEF StoreInv, Shape, Change, AdvanceUntold, Held, diskVars

LEMMA AdvanceKeepsIt ==
    ASSUME StoreInv, NEW p \in Procs, NEW b, NEW n \in Nat, Advance(p, b, n)
    PROVE  StoreInv'
  <1>1. store[p] = current /\ title[p] \in Titles
    BY WhoWorksIsLive DEF StoreInv, Shape, Advance
  <1>2. Disk'
    BY <1>1, RecordedKeepsDisk DEF StoreInv, Advance
  <1>3. watermark' \in [Procs -> 0..MaxGeneration]
    BY StoreConstants DEF StoreInv, Shape, Advance
  <1>4. QED
    BY <1>2, <1>3, WorkKeepsIt, WhoWorksIsLive DEF StoreInv, Shape, Advance, Held

LEMMA RetitleKeepsIt ==
    ASSUME StoreInv, NEW p \in Procs, Retitle(p)
    PROVE  StoreInv'
  <1>1. Disk'
    BY SameDisk DEF StoreInv, Retitle, diskVars
  <1>2. title' \in [Procs -> Titles] /\ watermark' \in [Procs -> 0..MaxGeneration]
    BY StoreConstants DEF StoreInv, Shape, Retitle, Titles
  <1>3. QED
    BY <1>1, <1>2, WorkKeepsIt, WhoWorksIsLive
       DEF StoreInv, Shape, Retitle, Held, diskVars

LEMMA TellKeepsIt ==
    ASSUME StoreInv, NEW p \in Procs, NEW t \in Titles, Tell(p, t)
    PROVE  StoreInv'
  <1>1. Disk'
    BY RecordedKeepsDisk, WhoWorksIsLive DEF StoreInv, Tell
  <1>2. QED
    BY <1>1, WorkKeepsIt, WhoWorksIsLive DEF StoreInv, Shape, Tell, Held, memoryVars

\* A commit begins: a generation ahead of CURRENT, none of its parts written.
LEMMA SaveKeepsIt ==
    ASSUME StoreInv, NEW p \in Procs, Save(p)
    PROVE  StoreInv'
  <1> DEFINE w == writing'[p]
  <1>1. \A q \in Procs \ {p} : writing[q] = NotWriting
    BY OthersAreAway, WhoWorksIsLive DEF StoreInv, Save
  <1>2. Disk'
    BY ForgetKeepsDisk DEF StoreInv, Save
  <1>3. w = [generation |-> NextGeneration(p), next |-> 1, snapshot |-> Held(p)]
    BY DEF StoreInv, Shape, Save
  <1>4. NextGeneration(p) \in Generations /\ NextGeneration(p) > current
    BY WhoWorksIsLive, StoreConstants
       DEF StoreInv, Shape, Save, NextGeneration, Larger, Generations
  <1>5. place[p] = "live"
    BY WhoWorksIsLive DEF Save
  <1>6. CommitIsAhead'
    BY <1>1, <1>3, <1>4, <1>5, PartsInOrder
       DEF CommitIsAhead, Save, Shape, StoreInv, Held, memoryVars
  <1>7. Shape' /\ OneOpener' /\ HandleFollows' /\ ReadIsSaved'
    BY <1>5 DEF StoreInv, Shape, OneOpener, HandleFollows, ReadIsSaved, Save, memoryVars
  <1>8. QED
    BY <1>2, <1>6, <1>7 DEF StoreInv

LEMMA RenameStoredKeepsIt ==
    ASSUME Races = {}, StoreInv, NEW p \in Procs, RenameStored(p)
    PROVE  StoreInv'
  <1> DEFINE g == Larger(Renamed.watermark, current + 1)
  <1>1. Unheld /\ \A q \in Procs : place[q] = "away" /\ writing[q] = NotWriting
    BY NobodyIsNear, AwayWritesNothing DEF RenameStored, StoreInv
  <1>2. Disk'
    BY ForgetKeepsDisk DEF StoreInv, RenameStored
  <1>3. /\ Image(Renamed)
        /\ Renamed = [body |-> Renamed.body, title |-> Renamed.title,
                      watermark |-> Renamed.watermark]
    <2>1. SavedTitle \in 0..MaxTitle /\ SavedWatermark \in 0..MaxGeneration
      BY SavedIsAnImage DEF StoreInv, RenameStored, Titles
    <2>2. QED
      BY <2>1, StoreConstants DEF RenameStored, Image, Renamed, Titles
  <1>4. g \in Generations /\ g > current
    BY <1>3 DEF StoreInv, Shape, RenameStored, Larger, Generations, Image
  <1>5. /\ writing' = [writing EXCEPT ![p] = [generation |-> g, next |-> 1,
                                              snapshot   |-> Renamed]]
        /\ place' = [place EXCEPT ![p] = "renaming"]
        /\ Holds(p, Renamed, current)
        /\ UNCHANGED <<current, lease, failed>>
    BY DEF RenameStored
  <1>6. Shape'
    BY <1>3, <1>5 DEF StoreInv, Shape, Holds, Image, Places
  <1>7. OneOpener' /\ HandleFollows' /\ ReadIsSaved'
    BY <1>1, <1>5, StoreConstants
       DEF StoreInv, Shape, OneOpener, HandleFollows, ReadIsSaved, Holds, Unheld
  <1>8. Held(p)' = Renamed
    BY <1>3, <1>5 DEF StoreInv, Shape, Held, Holds
  <1>9. CommitIsAhead'
    BY <1>1, <1>4, <1>5, <1>8, PartsInOrder DEF StoreInv, Shape, CommitIsAhead
  <1>10. QED
    BY <1>2, <1>6, <1>7, <1>9 DEF StoreInv

LEMMA WritePartKeepsIt ==
    ASSUME StoreInv, NEW p \in Procs, WritePart(p)
    PROVE  StoreInv'
  <1> DEFINE w == writing[p]
  <1>1. /\ w.generation \in Generations /\ w.generation > current
        /\ w.next \in 1..3 /\ w.snapshot = Held(p)
        /\ w = [generation |-> w.generation, next |-> w.next, snapshot |-> w.snapshot]
        /\ place[p] \in {"live", "renaming"}
        /\ \A i \in 1..3 : i < w.next => parts[w.generation][Parts[i]] = w.snapshot
    BY PartsInOrder DEF StoreInv, CommitIsAhead, WritePart
  <1>2. \A q \in Procs \ {p} : writing[q] = NotWriting
    BY <1>1, OthersAreAway DEF StoreInv
  <1>3. parts' = [parts EXCEPT ![w.generation][Parts[w.next]] = w.snapshot]
    BY DEF WritePart
  <1>4. /\ writing'[p] = [generation |-> w.generation, next |-> w.next + 1,
                          snapshot |-> w.snapshot]
        /\ \A q \in Procs \ {p} : writing'[q] = NotWriting
        /\ DOMAIN writing' = Procs
    BY <1>1, <1>2 DEF WritePart, StoreInv, Shape
  <1>5. Disk'
    <2>1. w.generation # current /\ UNCHANGED <<current, segment, told>>
      BY <1>1 DEF StoreInv, Shape, Generations, WritePart
    <2>2. QED
      BY <1>1, <1>3, <2>1, PartKeepsDisk DEF StoreInv
  <1>6. \A i \in 1..3 : i < w.next + 1 => parts'[w.generation][Parts[i]] = w.snapshot
    BY <1>1, <1>3, PartsInOrder DEF StoreInv, Disk, PartNames
  <1>7. CommitIsAhead'
    BY <1>1, <1>4, <1>6, PartsInOrder DEF CommitIsAhead, WritePart, Held, memoryVars
  <1>8. Shape' /\ OneOpener' /\ HandleFollows' /\ ReadIsSaved'
    BY <1>1, <1>4
       DEF StoreInv, Shape, OneOpener, HandleFollows, ReadIsSaved, WritePart, memoryVars
  <1>9. QED
    BY <1>5, <1>7, <1>8 DEF StoreInv

\* A commit ends, done or failed, at generation g.
LEMMA CommittedKeepsIt ==
    ASSUME StoreInv, NEW p \in Procs, writing[p] # NotWriting,
           NEW g \in 0..MaxGeneration, current' = g, Committed(p, g),
           writing' = [writing EXCEPT ![p] = NotWriting],
           failed' \in [Procs -> BOOLEAN], Disk', UNCHANGED lease
    PROVE  StoreInv'
  <1>1. \A q \in Procs \ {p} : place[q] = "away" /\ writing[q] = NotWriting
    BY OthersAreAway DEF StoreInv, CommitIsAhead
  <1>2. CommitIsAhead'
    BY <1>1 DEF StoreInv, Shape, CommitIsAhead
  <1>3. CASE place[p] = "renaming"
    <2>1. place' = [place EXCEPT ![p] = "away"] /\ Holds(p, Blank, 0)
      BY <1>3 DEF Committed
    <2>2. Shape'
      BY <2>1, StoreConstants DEF StoreInv, Shape, Holds, Blank, Titles, Places
    <2>3. OneOpener' /\ HandleFollows' /\ ReadIsSaved'
      BY <1>1, <1>3, <2>1 DEF StoreInv, Shape, OneOpener, HandleFollows, ReadIsSaved
    <2>4. QED
      BY <1>2, <2>2, <2>3 DEF StoreInv
  <1>4. CASE place[p] # "renaming"
    <2>1. store' = [store EXCEPT ![p] = g] /\ UNCHANGED <<place, body, title, watermark>>
      BY <1>4 DEF Committed
    <2>2. Shape'
      BY <2>1 DEF StoreInv, Shape
    <2>3. OneOpener' /\ HandleFollows' /\ ReadIsSaved'
      BY <1>1, <2>1
         DEF StoreInv, Shape, OneOpener, HandleFollows, ReadIsSaved, CommitIsAhead
    <2>4. QED
      BY <1>2, <2>2, <2>3 DEF StoreInv
  <1>5. QED
    BY <1>3, <1>4

\* CURRENT is pointed at a later generation, all of which the commit has written.
LEMMA AllPartsWritten ==
    ASSUME StoreInv, NEW p \in Procs, PointCurrent(p)
    PROVE  LET w == writing[p] IN
           /\ w # NotWriting /\ place[p] \in {"live", "renaming"}
           /\ w.generation \in Generations /\ w.generation > current
           /\ w.snapshot = Held(p)
           /\ \A part \in PartNames : parts[w.generation][part] = w.snapshot
           /\ segment[w.generation + 1] = NoRecord
  <1> DEFINE w == writing[p]
             g == w.generation
  <1>1. w # NotWriting /\ w.next = 4
    BY PartsInOrder DEF PointCurrent
  <1>2. /\ place[p] \in {"live", "renaming"}
        /\ g \in Generations /\ g > current
        /\ w.snapshot = Held(p)
        /\ \A i \in 1..3 : i < w.next => parts[g][Parts[i]] = w.snapshot
    BY <1>1 DEF StoreInv, CommitIsAhead
  <1>3. \A i \in 1..3 : parts[g][Parts[i]] = w.snapshot
    BY <1>1, <1>2
  <1>4. \A part \in PartNames : parts[g][part] = w.snapshot
    BY <1>3, PartsInOrder DEF PartNames
  <1>5. g + 1 \in 1..(MaxGeneration + 1) /\ g + 1 > current + 1
    BY <1>2, StoreConstants DEF StoreInv, Shape, Generations
  <1>6. segment[g + 1] = NoRecord
    BY <1>5 DEF StoreInv, Disk, SegmentsAhead, ReplayedSegment
  <1>7. QED
    BY <1>1, <1>2, <1>4, <1>6

LEMMA PointCurrentKeepsIt ==
    ASSUME StoreInv, NEW p \in Procs, PointCurrent(p)
    PROVE  StoreInv'
  <1> DEFINE w == writing[p]
             g == w.generation
  <1>1. /\ w # NotWriting /\ g \in Generations /\ g > current /\ w.snapshot = Held(p)
        /\ \A part \in PartNames : parts[g][part] = w.snapshot
    BY AllPartsWritten
  <1>2. Image(w.snapshot)
    BY <1>1 DEF StoreInv, Shape, Held, Image
  <1>3. /\ current' = g /\ told' = w.snapshot.title /\ Committed(p, g)
        /\ writing' = [writing EXCEPT ![p] = NotWriting]
        /\ failed' = [failed EXCEPT ![p] = FALSE]
        /\ UNCHANGED <<parts, segment, lease>>
    BY DEF PointCurrent
  <1>4. Disk'
    BY <1>1, <1>2, <1>3, TitleOfGeneration DEF StoreInv
  <1>5. g \in 0..MaxGeneration /\ failed' \in [Procs -> BOOLEAN]
    BY <1>1, <1>3 DEF StoreInv, Shape, Generations
  <1>6. QED
    BY <1>1, <1>3, <1>4, <1>5, CommittedKeepsIt

LEMMA FailWriteKeepsIt ==
    ASSUME StoreInv, NEW p \in Procs, FailWrite(p)
    PROVE  StoreInv'
  <1>1. store[p] = current /\ current \in 0..MaxGeneration
    BY DEF StoreInv, Shape, HandleFollows, CommitIsAhead, FailWrite
  <1>2. Disk'
    BY ForgetKeepsDisk DEF StoreInv, FailWrite
  <1>3. failed' \in [Procs -> BOOLEAN]
    BY DEF StoreInv, Shape, FailWrite
  <1>4. QED
    BY <1>1, <1>2, <1>3, CommittedKeepsIt DEF FailWrite

LEMMA StoreInvStep ==
    ASSUME Races = {}, StoreInv, AnyNext \/ UNCHANGED storeVars
    PROVE  StoreInv'
  <1>1. CASE UNCHANGED storeVars
    BY <1>1, SameDisk DEF StoreInv, storeVars, diskVars, memoryVars, Shape, OneOpener,
       HandleFollows, ReadIsSaved, CommitIsAhead, Held, SavedBody, SavedTitle,
       ReplayedSegment
  <1>2. ASSUME NEW p \in Procs, AnyStep(p) PROVE StoreInv'
    <2>1. ~Leave(p)
      BY DEF Leave
    <2>2. CASE \E t \in Titles : Tell(p, t)
      BY <2>2, TellKeepsIt
    <2>3. CASE Start(p) \/ Load(p) \/ Attach(p) \/ Stop(p)
      BY <2>3, StartKeepsIt, LoadKeepsIt, AttachKeepsIt, StopKeepsIt
    <2>4. CASE Retitle(p) \/ Save(p) \/ RenameStored(p)
      BY <2>4, RetitleKeepsIt, SaveKeepsIt, RenameStoredKeepsIt
    <2>5. CASE WritePart(p) \/ PointCurrent(p) \/ FailWrite(p)
      BY <2>5, WritePartKeepsIt, PointCurrentKeepsIt, FailWriteKeepsIt
    <2>6. ASSUME NEW b, \/ Change(p, b) \/ AdvanceUntold(p, b)
                        \/ \E n \in Nat : Advance(p, b, n)
          PROVE  StoreInv'
      BY <2>6, ChangeKeepsIt, AdvanceKeepsIt
    <2>7. QED
      BY <1>2, <2>1, <2>2, <2>3, <2>4, <2>5, <2>6 DEF AnyStep, StoreStep
  <1>3. QED
    BY <1>1, <1>2 DEF AnyNext

-----------------------------------------------------------------------------
(* What the invariant, and a step from a state that has it, are worth.      *)

\* Every property of a state the store promises.
LEMMA StoreInvIsWorth ==
    ASSUME StoreInv
    PROVE  PublishedIsWhole /\ ReopenReadsLastStep /\ OneProcessWrites /\ HandleIsCurrent
  <1>1. PublishedIsWhole
    BY DEF StoreInv, Disk, Published, PublishedIsWhole, Image, NoFile, Blank
  <1>2. ReopenReadsLastStep
    BY DEF StoreInv, Disk
  <1>3. OneProcessWrites /\ HandleIsCurrent
    BY DEF StoreInv, OneOpener, HandleFollows, OneProcessWrites, HandleIsCurrent, MayWrite
  <1>4. QED
    BY <1>1, <1>2, <1>3

\* The generation CURRENT names stays as it is, and is followed by a later one.
KeepsPublished == current # 0 => current' >= current /\ parts'[current] = parts[current]

LEMMA StepKeepsPublished ==
    ASSUME StoreInv, AnyNext \/ UNCHANGED storeVars
    PROVE  KeepsPublished
  <1>1. current \in 0..MaxGeneration
    BY DEF StoreInv, Shape
  <1>2. CASE UNCHANGED <<current, parts>>
    BY <1>1, <1>2 DEF KeepsPublished
  <1>3. CASE Forget /\ UNCHANGED current
    BY <1>1, <1>3, StoreConstants DEF Forget, KeepsPublished, Generations
  <1>4. ASSUME NEW p \in Procs, WritePart(p) PROVE KeepsPublished
    <2>1. writing[p].generation > current /\ UNCHANGED current
      BY <1>4 DEF StoreInv, CommitIsAhead, WritePart
    <2>2. writing[p].generation # current
      BY <1>1, <2>1
    <2>3. QED
      BY <1>1, <1>4, <2>1, <2>2, StoreConstants
         DEF WritePart, KeepsPublished, StoreInv, Disk, Generations
  <1>5. ASSUME NEW p \in Procs, PointCurrent(p) PROVE KeepsPublished
    <2>1. writing[p].generation > current /\ writing[p].generation \in Generations
      BY <1>5 DEF StoreInv, CommitIsAhead, PointCurrent
    <2>2. QED
      BY <1>1, <1>5, <2>1 DEF PointCurrent, KeepsPublished, Generations
  <1>6. ASSUME NEW p \in Procs, Stop(p) \/ Save(p) \/ RenameStored(p) \/ FailWrite(p)
        PROVE  Forget /\ UNCHANGED current
    BY <1>6 DEF Stop, Save, RenameStored, FailWrite
  <1>7. ASSUME NEW p \in Procs, \/ Start(p) \/ Load(p) \/ Attach(p) \/ Leave(p)
                                \/ Retitle(p) \/ \E t \in Titles : Tell(p, t)
        PROVE  UNCHANGED <<current, parts>>
    BY <1>7 DEF Start, Load, Attach, Leave, Retitle, Tell, diskVars
  <1>8. ASSUME NEW p \in Procs, NEW b, \/ Change(p, b) \/ AdvanceUntold(p, b)
                                       \/ \E n \in Nat : Advance(p, b, n)
        PROVE  UNCHANGED <<current, parts>>
    BY <1>8 DEF Change, AdvanceUntold, Advance, diskVars
  <1>9. CASE UNCHANGED storeVars
    BY <1>2, <1>9 DEF storeVars, diskVars
  <1>10. QED
    BY <1>2, <1>3, <1>4, <1>5, <1>6, <1>7, <1>8, <1>9 DEF AnyNext, AnyStep, StoreStep

-----------------------------------------------------------------------------
(* The store implements DurableSession.                                     *)

LEMMA HeldByOne ==
    /\ \A p \in Procs : OneOpener /\ MayWrite(p) => HeldNow = InMemory(p)
    /\ \A p \in Procs : OneOpener' /\ MayWrite(p)' => HeldNow' = InMemory(p)'
    /\ (\A p \in Procs : ~MayWrite(p)) => HeldNow = NoSession
    /\ (\A p \in Procs : ~MayWrite(p)') => HeldNow' = NoSession
  <1>1. ASSUME NEW p \in Procs, OneOpener, MayWrite(p) PROVE HeldNow = InMemory(p)
    <2>1. \A q \in Procs : MayWrite(q) => q = p
      BY <1>1 DEF OneOpener, MayWrite
    <2>2. (CHOOSE q \in Procs : MayWrite(q)) = p
      BY <1>1, <2>1
    <2>3. QED
      BY <1>1, <2>2 DEF HeldNow
  <1>2. ASSUME NEW p \in Procs, OneOpener', MayWrite(p)' PROVE HeldNow' = InMemory(p)'
    <2>1. \A q \in Procs : MayWrite(q)' => q = p
      BY <1>2 DEF OneOpener, MayWrite
    <2>2. (CHOOSE q \in Procs : MayWrite(q))' = p
      BY <1>2, <2>1
    <2>3. QED
      BY <1>2, <2>2 DEF HeldNow
  <1>3. QED
    BY <1>1, <1>2 DEF HeldNow

\* Nothing on disk is not a session on disk, and so in memory.
LEMMA SomeSession ==
    ASSUME StoreInv
    PROVE  /\ current # 0 => SavedNow # NoSession
           /\ \A p \in Procs : InMemory(p) # NoSession
  BY SavedIsAnImage DEF StoreInv, Shape, SavedNow, InMemory, NoSession, Titles

LEMMA SameSaved ==
    ASSUME StoreInv, UNCHANGED current,
           Forget \/ UNCHANGED <<parts, segment>>
    PROVE  UNCHANGED SavedNow
  <1>1. CASE UNCHANGED <<parts, segment>>
    BY <1>1 DEF SavedNow, SavedBody, SavedTitle, ReplayedSegment
  <1>2. CASE Forget /\ ~KeepUnread /\ current # 0
    <2>1. parts'[current] = parts[current] /\ segment'[current + 1] = segment[current + 1]
      BY <1>2, StoreConstants
         DEF Forget, StoreInv, Shape, Disk, Generations, ReplayedSegment
    <2>2. QED
      BY <2>1 DEF SavedNow, SavedBody, SavedTitle, ReplayedSegment
  <1>3. QED
    BY <1>1, <1>2 DEF Forget, SavedNow

\* A step journaled under title t.
LEMMA RecordedIsSaved ==
    ASSUME StoreInv, NEW p \in Procs, store[p] = current, NEW t \in Titles,
           Recorded(p, t), UNCHANGED <<current, parts>>
    PROVE  SavedNow' = IF current = 0 THEN SavedNow ELSE [SavedNow EXCEPT !.title = t]
  <1>1. CASE current = 0
    BY <1>1 DEF SavedNow
  <1>2. CASE current # 0
    <2>1. segment'[current + 1] = t /\ t # NoRecord
      BY <1>2, StoreConstants
         DEF Recorded, Segment, StoreInv, Shape, Disk, Titles, NoRecord
    <2>2. SavedTitle' = t /\ SavedBody' = SavedBody
      BY <2>1 DEF SavedTitle, SavedBody, ReplayedSegment
    <2>3. QED
      BY <1>2, <2>2 DEF SavedNow
  <1>3. QED
    BY <1>1, <1>2

DurableStep == Durable!Next \/ UNCHANGED <<HeldNow, SavedNow>>

LEMMA DurableDefs ==
    /\ Durable!Open <=> /\ HeldNow = NoSession
                        /\ HeldNow' = (IF SavedNow = NoSession
                                       THEN [body |-> FreshBody, title |-> 0] ELSE SavedNow)
                        /\ SavedNow' = SavedNow
    /\ Durable!OpenRenamed <=> /\ HeldNow = NoSession /\ SavedNow # NoSession
                               /\ HeldNow' = [SavedNow EXCEPT !.title = @ + 1]
                               /\ SavedNow' = SavedNow
    /\ Durable!Work <=> /\ HeldNow # NoSession /\ HeldNow' # NoSession
                        /\ \/ SavedNow' = SavedNow
                           \/ /\ SavedNow # NoSession
                              /\ \E t \in 0..HeldNow'.title :
                                    SavedNow' = [SavedNow EXCEPT !.title = t]
    /\ Durable!Save <=> /\ HeldNow # NoSession /\ HeldNow' \in {HeldNow, NoSession}
                        /\ SavedNow' = HeldNow
    /\ Durable!Lose <=> HeldNow # NoSession /\ HeldNow' = NoSession /\ SavedNow' = SavedNow
  BY DEF Durable!Open, Durable!OpenRenamed, Durable!Work, Durable!Save, Durable!Lose

\* A step of p that goes on with the session, and leaves what is saved, journals
\* a title it had or saves it as it is.
LEMMA WorkIsDurable ==
    ASSUME StoreInv, StoreInv', NEW p \in Procs, MayWrite(p), MayWrite(p)',
           \/ UNCHANGED SavedNow
           \/ /\ current # 0
              /\ \E t \in 0..title'[p] : SavedNow' = [SavedNow EXCEPT !.title = t]
    PROVE  DurableStep
  <1>1. HeldNow = InMemory(p) /\ HeldNow' = InMemory(p)'
    BY HeldByOne DEF StoreInv
  <1>2. HeldNow # NoSession /\ HeldNow' # NoSession
    <2>1. title[p] # -1 /\ title'[p] # -1
      BY DEF StoreInv, Shape, Titles
    <2>2. QED
      BY <1>1, <2>1 DEF InMemory, NoSession
  <1>3. HeldNow'.title = title'[p]
    BY <1>1 DEF InMemory
  <1>4. current # 0 => SavedNow # NoSession
    BY SomeSession
  <1>5. Durable!Work
    BY <1>2, <1>3, <1>4, DurableDefs
  <1>6. QED
    BY <1>5 DEF DurableStep, Durable!Next

\* A step of p that ends its hold on the session, or never had one.
LEMMA EndIsDurable ==
    ASSUME StoreInv, StoreInv', NEW p \in Procs, place[p] # "away", ~MayWrite(p)',
           \A q \in Procs \ {p} : place'[q] = place[q],
           UNCHANGED SavedNow \/ (MayWrite(p) /\ SavedNow' = InMemory(p))
    PROVE  DurableStep
  <1>1. \A q \in Procs : ~MayWrite(q)'
    BY DEF StoreInv, OneOpener, MayWrite
  <1>2. HeldNow' = NoSession
    BY <1>1, HeldByOne
  <1>3. CASE MayWrite(p)
    <2>1. HeldNow = InMemory(p) /\ HeldNow # NoSession
      BY <1>3, HeldByOne, SomeSession DEF StoreInv
    <2>2. Durable!Lose \/ Durable!Save
      BY <1>2, <2>1, DurableDefs
    <2>3. QED
      BY <2>2 DEF DurableStep, Durable!Next
  <1>4. CASE ~MayWrite(p)
    <2>1. \A q \in Procs : ~MayWrite(q)
      BY <1>4 DEF StoreInv, OneOpener, MayWrite
    <2>2. QED
      BY <1>2, <1>4, <2>1, HeldByOne DEF DurableStep
  <1>5. QED
    BY <1>3, <1>4

\* A step of p that opens the session.
LEMMA OpenIsDurable ==
    ASSUME StoreInv, StoreInv', NEW p \in Procs, \A q \in Procs : ~MayWrite(q),
           MayWrite(p)', UNCHANGED SavedNow,
           \/ current = 0 /\ body'[p] = FreshBody /\ title'[p] = 0
           \/ /\ current # 0 /\ body'[p] = SavedBody
              /\ title'[p] \in {SavedTitle, SavedTitle + 1}
    PROVE  DurableStep
  <1>1. HeldNow = NoSession /\ HeldNow' = InMemory(p)'
    BY HeldByOne DEF StoreInv
  <1>2. InMemory(p)' = [body |-> body'[p], title |-> title'[p]]
    BY DEF InMemory
  <1>3. CASE current = 0
    <2>1. SavedNow = NoSession
      BY <1>3 DEF SavedNow
    <2>2. Durable!Open
      BY <1>1, <1>2, <1>3, <2>1, DurableDefs
    <2>3. QED
      BY <2>2 DEF DurableStep, Durable!Next
  <1>4. CASE current # 0
    <2>1. SavedNow = [body |-> SavedBody, title |-> SavedTitle] /\ SavedNow # NoSession
      BY <1>4, SomeSession DEF SavedNow
    <2>2. CASE title'[p] = SavedTitle
      <3>1. Durable!Open
        BY <1>1, <1>2, <1>4, <2>1, <2>2, DurableDefs
      <3>2. QED
        BY <3>1 DEF DurableStep, Durable!Next
    <2>3. CASE title'[p] = SavedTitle + 1
      <3>1. HeldNow' = [SavedNow EXCEPT !.title = @ + 1]
        BY <1>1, <1>2, <1>4, <2>1, <2>3
      <3>2. Durable!OpenRenamed
        BY <1>1, <2>1, <3>1, DurableDefs
      <3>3. QED
        BY <3>2 DEF DurableStep, Durable!Next
    <2>4. QED
      BY <1>4, <2>2, <2>3
  <1>5. QED
    BY <1>3, <1>4

LEMMA StepIsDurable ==
    ASSUME Races = {}, StoreInv, StoreInv', AnyNext \/ UNCHANGED storeVars
    PROVE  DurableStep
  <1>1. CASE UNCHANGED storeVars
    BY <1>1 DEF storeVars, diskVars, memoryVars, DurableStep, HeldNow, SavedNow, InMemory,
       MayWrite, SavedBody, SavedTitle, ReplayedSegment
  <1>2. ASSUME NEW p \in Procs, Start(p) PROVE DurableStep
    <2>1. UNCHANGED SavedNow /\ current = 0
      BY <1>2, SameSaved DEF Start, diskVars
    <2>2. place'[p] = "live" /\ body'[p] = FreshBody /\ title'[p] = 0
      BY <1>2 DEF Start, StoreInv, Shape, Holds, Blank
    <2>3. QED
      BY <1>2, <2>1, <2>2, OpenIsDurable DEF Start, MayWrite
  <1>3. ASSUME NEW p \in Procs, Load(p) PROVE DurableStep
    <2>1. UNCHANGED SavedNow
      BY <1>3, SameSaved DEF Load, diskVars
    <2>2. \A q \in Procs : place[q] = "away" /\ ~MayWrite(q)'
      BY <1>3, NobodyIsNear DEF Load, StoreInv, Shape, MayWrite
    <2>3. QED
      BY <2>1, <2>2, HeldByOne DEF DurableStep, MayWrite
  <1>4. ASSUME NEW p \in Procs, Attach(p) PROVE DurableStep
    <2>1. UNCHANGED SavedNow
      BY <1>4, SameSaved DEF Attach, diskVars
    <2>2. /\ \A q \in Procs : ~MayWrite(q)
          /\ place'[p] = "live" /\ body'[p] = SavedBody /\ title'[p] = SavedTitle
          /\ current # 0
      BY <1>4 DEF Attach, StoreInv, Shape, OneOpener, ReadIsSaved, MayWrite, memoryVars
    <2>3. QED
      BY <2>1, <2>2, OpenIsDurable DEF MayWrite
  <1>5. ASSUME NEW p \in Procs, Stop(p) PROVE DurableStep
    <2>1. UNCHANGED SavedNow
      BY <1>5, SameSaved DEF Stop
    <2>2. place[p] # "away" /\ place' = [place EXCEPT ![p] = "away"]
      BY <1>5 DEF Stop
    <2>3. QED
      BY <2>1, <2>2, EndIsDurable DEF MayWrite, StoreInv, Shape
  <1>6. ASSUME NEW p \in Procs, NEW b,
               Change(p, b) \/ AdvanceUntold(p, b) \/ Retitle(p)
        PROVE  DurableStep
    <2>1. UNCHANGED SavedNow
      BY <1>6, SameSaved DEF Change, AdvanceUntold, Retitle, diskVars
    <2>2. MayWrite(p) /\ UNCHANGED place
      BY <1>6 DEF Change, AdvanceUntold, Retitle, Works, MayWrite
    <2>3. QED
      BY <2>1, <2>2, WorkIsDurable DEF MayWrite
  <1>7. ASSUME NEW p \in Procs, NEW b, NEW n \in Nat, Advance(p, b, n) PROVE DurableStep
    <2>1. /\ store[p] = current /\ title[p] \in Titles
          /\ Recorded(p, title[p]) /\ UNCHANGED <<current, parts, title, place>>
      BY <1>7, WhoWorksIsLive DEF Advance, StoreInv, Shape
    <2>2. SavedNow' = IF current = 0 THEN SavedNow ELSE [SavedNow EXCEPT !.title = title[p]]
      BY <2>1, RecordedIsSaved
    <2>3. MayWrite(p) /\ title[p] \in 0..title'[p]
      BY <1>7, <2>1 DEF Advance, Works, MayWrite, Titles
    <2>4. QED
      BY <2>1, <2>2, <2>3, WorkIsDurable DEF MayWrite
  <1>8. ASSUME NEW p \in Procs, NEW t \in Titles, Tell(p, t) PROVE DurableStep
    <2>1. /\ store[p] = current /\ t \in 0..title'[p]
          /\ Recorded(p, t) /\ UNCHANGED <<current, parts, place>>
      BY <1>8, WhoWorksIsLive DEF Tell, memoryVars
    <2>2. SavedNow' = IF current = 0 THEN SavedNow ELSE [SavedNow EXCEPT !.title = t]
      BY <2>1, RecordedIsSaved
    <2>3. MayWrite(p)
      BY <1>8 DEF Tell, Works, MayWrite
    <2>4. QED
      BY <2>1, <2>2, <2>3, WorkIsDurable DEF MayWrite
  <1>9. ASSUME NEW p \in Procs, Save(p) PROVE DurableStep
    <2>1. UNCHANGED SavedNow
      BY <1>9, SameSaved DEF Save
    <2>2. MayWrite(p) /\ UNCHANGED place
      BY <1>9 DEF Save, Works, MayWrite
    <2>3. QED
      BY <2>1, <2>2, WorkIsDurable DEF MayWrite
  <1>10. ASSUME NEW p \in Procs, RenameStored(p) PROVE DurableStep
    <2>1. UNCHANGED SavedNow
      BY <1>10, SameSaved DEF RenameStored
    <2>2. \A q \in Procs : ~MayWrite(q)
      BY <1>10, NobodyIsNear DEF RenameStored, StoreInv, MayWrite
    <2>3. /\ current # 0 /\ place'[p] = "renaming"
          /\ body'[p] = SavedBody /\ title'[p] = SavedTitle + 1
      BY <1>10 DEF RenameStored, StoreInv, Shape, Holds, Renamed
    <2>4. QED
      BY <2>1, <2>2, <2>3, OpenIsDurable DEF MayWrite
  <1>11. ASSUME NEW p \in Procs, WritePart(p) PROVE DurableStep
    <2>1. KeepsPublished
      BY <1>11, StepKeepsPublished DEF AnyNext, AnyStep, StoreStep
    <2>2. UNCHANGED SavedNow
      BY <1>11, <2>1
         DEF WritePart, KeepsPublished, SavedNow, SavedBody, SavedTitle, ReplayedSegment
    <2>3. MayWrite(p) /\ UNCHANGED place
      BY <1>11 DEF WritePart, StoreInv, CommitIsAhead, MayWrite
    <2>4. QED
      BY <2>2, <2>3, WorkIsDurable DEF MayWrite
  <1>12. ASSUME NEW p \in Procs, PointCurrent(p) PROVE DurableStep
    <2> DEFINE g == writing[p].generation
    <2>1. MayWrite(p) /\ g \in Generations
      BY <1>12, AllPartsWritten DEF MayWrite
    <2>2. parts[g]["checkpoint"] = Held(p) /\ parts[g]["projection"] = Held(p)
      BY <1>12, AllPartsWritten DEF PartNames
    <2>3. current' = g /\ g # 0 /\ UNCHANGED <<parts, segment>>
      BY <1>12, <2>1 DEF PointCurrent, Generations
    <2>4. segment[g + 1] = NoRecord
      BY <1>12, AllPartsWritten
    <2>5. SavedNow' = InMemory(p)
      BY <2>2, <2>3, <2>4
         DEF SavedNow, SavedBody, SavedTitle, ReplayedSegment, Held, InMemory
    <2>6. CASE place[p] = "renaming"
      <3>1. place' = [place EXCEPT ![p] = "away"]
        BY <1>12, <2>6 DEF PointCurrent, Committed
      <3>2. QED
        BY <2>1, <2>5, <2>6, <3>1, EndIsDurable DEF MayWrite, StoreInv, Shape
    <2>7. CASE place[p] # "renaming"
      <3>1. UNCHANGED <<place, body, title>>
        BY <1>12, <2>7 DEF PointCurrent, Committed
      <3>2. HeldNow' = HeldNow /\ HeldNow = InMemory(p) /\ HeldNow # NoSession
        BY <2>1, <3>1, HeldByOne, SomeSession DEF StoreInv, InMemory, MayWrite
      <3>3. Durable!Save
        BY <2>5, <3>2, DurableDefs
      <3>4. QED
        BY <3>3 DEF DurableStep, Durable!Next
    <2>8. QED
      BY <2>6, <2>7
  <1>13. ASSUME NEW p \in Procs, FailWrite(p) PROVE DurableStep
    <2>1. UNCHANGED SavedNow
      BY <1>13, SameSaved DEF FailWrite
    <2>2. MayWrite(p)
      BY <1>13 DEF FailWrite, StoreInv, CommitIsAhead, MayWrite
    <2>3. CASE place[p] = "renaming"
      <3>1. place' = [place EXCEPT ![p] = "away"]
        BY <1>13, <2>3 DEF FailWrite, Committed
      <3>2. QED
        BY <2>1, <2>3, <3>1, EndIsDurable DEF MayWrite, StoreInv, Shape
    <2>4. CASE place[p] # "renaming"
      <3>1. UNCHANGED place
        BY <1>13, <2>4 DEF FailWrite, Committed
      <3>2. QED
        BY <2>1, <2>2, <3>1, WorkIsDurable DEF MayWrite
    <2>5. QED
      BY <2>3, <2>4
  <1>14. ASSUME NEW p \in Procs PROVE ~Leave(p)
    BY DEF Leave
  <1>15. QED
    BY <1>1, <1>2, <1>3, <1>4, <1>5, <1>6, <1>7, <1>8, <1>9, <1>10, <1>11, <1>12, <1>13,
       <1>14 DEF AnyNext, AnyStep, StoreStep

LEMMA InitIsDurable == StoreInit => Durable!Init
  BY HeldByOne DEF StoreInit, Durable!Init, MayWrite, SavedNow

LEMMA StoreNextIsAnyNext == StoreNext => AnyNext
  BY DEF StoreNext, AnyNext, AnyStep

-----------------------------------------------------------------------------
(* Theorems. *)

\* The store, its lease and the processes that open it keep StoreInv: every
\* interleaving of the sections of reopen_with, journal, commit and stop does.
THEOREM StoreInvariant == ASSUME Races = {} PROVE StoreSpec => []StoreInv
  <1>1. StoreInv /\ [StoreNext]_storeVars => StoreInv'
    BY StoreInvStep, StoreNextIsAnyNext
  <1>2. QED
    BY <1>1, StoreInvInit, PTL DEF StoreSpec

\* What CURRENT names is whole: commit points it at a generation it has written.
THEOREM StoreIsWhole == ASSUME Races = {} PROVE StoreSpec => []PublishedIsWhole
  BY StoreInvariant, StoreInvIsWorth, PTL

\* load reads the title that was put on disk last, by journal or by commit.
THEOREM StoreReadsLastStep == ASSUME Races = {} PROVE StoreSpec => []ReopenReadsLastStep
  BY StoreInvariant, StoreInvIsWorth, PTL

\* The lease and the read before it leave one process at a time that may write.
THEOREM OneWriter == ASSUME Races = {} PROVE StoreSpec => []OneProcessWrites
  BY StoreInvariant, StoreInvIsWorth, PTL

\* The handle a process saves through is at the generation CURRENT names.
THEOREM HandlesAreCurrent == ASSUME Races = {} PROVE StoreSpec => []HandleIsCurrent
  BY StoreInvariant, StoreInvIsWorth, PTL

\* commit writes no generation CURRENT names or named.
THEOREM PublishedStays == ASSUME Races = {} PROVE StoreSpec => PublishedIsNotRewritten
  <1>1. StoreInv /\ [StoreNext]_storeVars => [KeepsPublished]_storeVars
    BY StepKeepsPublished, StoreNextIsAnyNext
  <1>2. QED
    BY <1>1, StoreInvariant, PTL DEF StoreSpec, PublishedIsNotRewritten, KeepsPublished

\* The store implements DurableSession: whoever opens it reads one commit, with
\* a title journaled since.
THEOREM StoreSavesAtOnce == ASSUME Races = {} PROVE StoreSpec => SavesAtOnce
  <1>1. StoreInv /\ StoreInv' /\ [StoreNext]_storeVars
        => [Durable!Next]_(Durable!durableVars)
    BY StepIsDurable, StoreNextIsAnyNext DEF DurableStep, Durable!durableVars
  <1>2. QED
    BY <1>1, InitIsDurable, StoreInvariant, PTL DEF StoreSpec, SavesAtOnce, Durable!Spec
=============================================================================

---------------------- MODULE TranscriptionBatchProofs ----------------------
(***************************************************************************)
(* Proofs about RecordingSession, and about its composition with            *)
(* TranscriptionBatch, for any windows, recordings, directories, kinds of   *)
(* files and delay; and, at the end, about the engine that a batch awaits,  *)
(* for any calls and files.                                                 *)
(***************************************************************************)
EXTENDS TranscriptionBatch, TranscribeEngine, WellFoundedInduction, TLAPS

(* A non-empty set of positions in a sequence has a last one.               *)
LEMMA LatestIsLast ==
  ASSUME NEW S, NEW s \in Seq(S), NEW I \in SUBSET DOMAIN s, I # {}
  PROVE  /\ Latest(I) \in I
         /\ \A j \in I : j <= Latest(I)
<1> DEFINE back == {Len(s) - i : i \in I}
<1>1. back \in SUBSET Nat /\ back # {}
  OBVIOUS
<1>2. PICK k \in back : \A m \in back : k <= m
  <2> DEFINE less == OpToRel(<, Nat)
  <2>1. IsWellFoundedOn(less, Nat)
    BY NatLessThanWellFounded
  <2>2. PICK k \in back : \A m \in back : <<m, k>> \notin less
    <3> HIDE DEF less, back
    <3> QED BY <1>1, <2>1, WFMin
  <2>3. \A m, n \in Nat : m < n => <<m, n>> \in less
    BY DEF OpToRel
  <2>4. k \in Nat /\ \A m \in back : m \in Nat /\ ~(m < k)
    <3> HIDE DEF less, back
    <3> QED BY <1>1, <2>2, <2>3
  <2> QED
    <3> HIDE DEF back
    <3>1. \A m \in back : k <= m
      BY <2>4
    <3> QED BY <2>2, <3>1
<1>3. PICK i \in I : k = Len(s) - i
  BY <1>2
<1>4. \A j \in I : j <= i
  <2> TAKE j \in I
  <2>1. Len(s) - i <= Len(s) - j
    BY <1>2, <1>3
  <2>2. Len(s) \in Nat /\ i \in Nat /\ j \in Nat
    OBVIOUS
  <2> HIDE DEF back
  <2> QED
    BY <2>1, <2>2
<1> QED
  BY <1>3, <1>4 DEF Latest

-----------------------------------------------------------------------------
(* Who records what: no two windows record the same, and what is recorded   *)
(* has its files and the completion of its own start.                       *)
RecordingInv ==
  /\ \A v, w \in Windows : recording[v] = recording[w] => v = w \/ recording[v] = None
  /\ \A w \in Windows : recording[w] # None =>
       /\ place[recording[w]] # None
       /\ {recording[w]} \X Kinds \subseteq wavs
       /\ completion[w] = recording[w]

(* A row belongs to a recording that has begun and is over.                 *)
RowInv == \A f \in Recordings :
            HasRow(f) \/ f \in unlisted => place[f] # None /\ f \notin Active

(* The clock has a start exactly while its window records.                  *)
ClockInv == \A w \in Windows : w \in startTime <=> recording[w] # None

(* The file of an undisturbed recording is the newest of all, and in the    *)
(* current directory.                                                       *)
NewestInv ==
  \A w \in Windows : recording[w] # None /\ recording[w] \notin disturbed =>
    /\ born # <<>>
    /\ born[Len(born)] = recording[w]
    /\ place[recording[w]] = directory

SessionInv == /\ SessionTypeOK /\ RecordingInv /\ RowInv /\ ClockInv /\ NewestInv
        /\ DurationZeroWhenIdle /\ UndisturbedRowNamesItsFile

(* What the lookup of the newest file returns.                              *)
LEMMA LookupType ==
  ASSUME SessionTypeOK
  PROVE  LastProcessFile \in Recordings \union {None}
<1>1. CASE ProcessFiles = {}
  BY <1>1 DEF LastProcessFile
<1>2. CASE ProcessFiles # {}
  <2>1. ProcessFiles \in SUBSET DOMAIN born /\ born \in Seq(Recordings)
    BY DEF ProcessFiles, SessionTypeOK
  <2>2. Latest(ProcessFiles) \in DOMAIN born
    BY <1>2, <2>1, LatestIsLast
  <2> QED
    BY <1>2, <2>1, <2>2 DEF LastProcessFile
<1> QED
  BY <1>1, <1>2

LEMMA LookupFindsNewest ==
  ASSUME SessionTypeOK, born # <<>>, place[born[Len(born)]] = directory
  PROVE  LastProcessFile = born[Len(born)]
<1>1. born \in Seq(Recordings) /\ Len(born) \in ProcessFiles
      /\ ProcessFiles \in SUBSET DOMAIN born
  BY DEF ProcessFiles, SessionTypeOK
<1>2. Latest(ProcessFiles) \in ProcessFiles /\ Len(born) <= Latest(ProcessFiles)
  BY <1>1, LatestIsLast
<1>3. Latest(ProcessFiles) = Len(born)
  BY <1>1, <1>2
<1> QED
  BY <1>1, <1>3 DEF LastProcessFile

-----------------------------------------------------------------------------
LEMMA SessionInitHolds == SessionInit => SessionInv
<1> SUFFICES ASSUME SessionInit PROVE SessionInv
  OBVIOUS
<1>1. SessionTypeOK
  BY DEF SessionInit, SessionTypeOK
<1> QED
  BY <1>1 DEF SessionInit, SessionInv, RecordingInv, RowInv, ClockInv, NewestInv,
     DurationZeroWhenIdle, UndisturbedRowNamesItsFile, HasRow

(* A click on Start.  Nothing names the new recording yet.                  *)
LEMMA StartKept ==
  ASSUME SessionInv, NEW w \in Windows, NEW f \in Recordings, StartRecording(w, f)
  PROVE  SessionInv'
<1> USE DEF SessionInv, HasRow, Active
<1>1. PICK made \in {{}, {"process"}, Kinds}, ok \in BOOLEAN :
        /\ ok => made = Kinds
        /\ wavs' = wavs \union ({f} \X made)
        /\ IF "process" \in made
           THEN born' = Append(born, f) /\ disturbed' = disturbed \union Active
           ELSE UNCHANGED <<born, disturbed>>
        /\ IF ok
           THEN /\ recording' = [recording EXCEPT ![w] = f]
                /\ startTime' = startTime \union {w}
                /\ duration' = [duration EXCEPT ![w] = 0]
                /\ UNCHANGED finished
           ELSE /\ finished' = finished \union {f}
                /\ UNCHANGED <<recording, startTime, duration>>
  BY DEF StartRecording
<1>2. /\ recording[w] = None /\ place[f] = None
      /\ place' = [place EXCEPT ![f] = directory]
      /\ completion' = [completion EXCEPT ![w] = f]
      /\ UNCHANGED <<open, ticks, directory, rowVars>>
  BY DEF StartRecording, StoreCompletion
<1>3. f # None /\ directory # None /\ "process" \in Kinds
  BY RecordingNone, ProcessKind DEF SessionTypeOK
<1>4. (\A v \in Windows : recording[v] # f) /\ ~HasRow(f) /\ f \notin unlisted
  BY <1>2, <1>3 DEF RecordingInv, RowInv
<1>5. SessionTypeOK'
  <2>1. wavs' \in SUBSET Wavs
    <3>1. made \subseteq Kinds
      BY <1>1, <1>3
    <3>2. {f} \X made \subseteq Wavs
      BY <3>1 DEF Wavs
    <3>3. wavs \subseteq Wavs /\ wavs' = wavs \union ({f} \X made)
      BY <1>1 DEF SessionTypeOK
    <3> QED
      BY <3>2, <3>3, Zenon
  <2>2. born' \in Seq(Recordings)
    <3>1. IF "process" \in made THEN born' = Append(born, f) ELSE born' = born
      BY <1>1, Zenon
    <3>2. born \in Seq(Recordings)
      BY DEF SessionTypeOK
    <3>3. Append(born, f) \in Seq(Recordings)
      BY <3>2
    <3> QED
      BY <3>1, <3>2, <3>3, Zenon
  <2>3. disturbed' \in SUBSET Recordings /\ finished' \in SUBSET Recordings
    BY <1>1 DEF SessionTypeOK
  <2>4. /\ recording' \in [Windows -> Recordings \union {None}]
        /\ startTime' \in SUBSET Windows
        /\ duration' \in [Windows -> {0, 1}]
    <3>1. CASE ok
      BY <1>1, <3>1 DEF SessionTypeOK
    <3>2. CASE ~ok
      BY <1>1, <3>2 DEF SessionTypeOK
    <3> QED
      BY <3>1, <3>2
  <2> QED
    BY <1>2, <2>1, <2>2, <2>3, <2>4 DEF SessionTypeOK, rowVars
<1>6. RecordingInv'
  <2>1. /\ recording \in [Windows -> Recordings \union {None}]
        /\ completion \in [Windows -> Recordings \union {None}]
        /\ place \in [Recordings -> Dirs \union {None}]
    BY DEF SessionTypeOK
  <2>2. /\ recording' = recording \/ (ok /\ recording' = [recording EXCEPT ![w] = f])
        /\ wavs \subseteq wavs' /\ (ok => {f} \X Kinds \subseteq wavs')
    BY <1>1
  <2>3. /\ \A v \in Windows \ {w} : recording'[v] = recording[v]
                                 /\ completion'[v] = completion[v]
        /\ recording'[w] = None \/ (ok /\ recording'[w] = f)
        /\ completion'[w] = f /\ place'[f] # None
        /\ \A g \in Recordings \ {f} : place'[g] = place[g]
    BY <1>2, <1>3, <2>1, <2>2
  <2> QED
    BY <1>3, <1>4, <2>1, <2>2, <2>3 DEF RecordingInv
<1>7. RowInv'
  <2>1. Active' \subseteq Active \union {f}
    BY <1>1 DEF SessionTypeOK
  <2> QED
    BY <1>2, <1>3, <1>4, <2>1 DEF RowInv, rowVars, SessionTypeOK
<1>8. ClockInv' /\ DurationZeroWhenIdle'
  <2>1. CASE ok
    BY <1>1, <1>3, <2>1 DEF ClockInv, DurationZeroWhenIdle, SessionTypeOK
  <2>2. CASE ~ok
    BY <1>1, <2>2 DEF ClockInv, DurationZeroWhenIdle
  <2> QED
    BY <2>1, <2>2
<1>9. NewestInv'
  <2> SUFFICES ASSUME NEW v \in Windows, recording'[v] # None,
                      recording'[v] \notin disturbed'
               PROVE  /\ born' # <<>>
                      /\ born'[Len(born')] = recording'[v]
                      /\ place'[recording'[v]] = directory'
    BY DEF NewestInv
  <2>1. CASE ok /\ v = w
    <3>1. born' = Append(born, f) /\ recording'[v] = f /\ place'[f] = directory
      BY <1>1, <1>2, <1>3, <2>1 DEF SessionTypeOK
    <3>2. born \in Seq(Recordings)
      BY DEF SessionTypeOK
    <3>3. born' # <<>> /\ born'[Len(born')] = f
      BY <3>1, <3>2
    <3> QED
      BY <1>2, <3>1, <3>3
  <2>2. CASE ~(ok /\ v = w)
    <3>1. recording'[v] = recording[v]
      BY <1>1, <2>2 DEF SessionTypeOK
    <3>2. recording[v] \in Active /\ recording[v] # f
      BY <1>4, <3>1
    <3>3. UNCHANGED <<born, disturbed>>
      BY <1>1, <3>1, <3>2
    <3> QED
      BY <1>2, <3>1, <3>2, <3>3 DEF NewestInv, SessionTypeOK
  <2> QED
    BY <2>1, <2>2
<1>10. UndisturbedRowNamesItsFile'
  BY <1>1, <1>2 DEF UndisturbedRowNamesItsFile, rowVars
<1> QED
  BY <1>5, <1>6, <1>7, <1>8, <1>9, <1>10

(* A click on Stop calls the completion of the recording's own start, and   *)
(* the recording had no row before.                                         *)
LEMMA StopFacts ==
  ASSUME SessionInv, NEW w \in Windows, StopRecording(w)
  PROVE  LET f == recording[w] IN
         /\ f # None /\ f \in Recordings /\ f \in Active
         /\ ~HasRow(f) /\ f \notin unlisted /\ place[f] # None
         /\ InsertRow(f) /\ w \in open'
         /\ finished' = finished \union {f}
         /\ recording' = [recording EXCEPT ![w] = None]
         /\ completion' = [completion EXCEPT ![w] = None]
         /\ startTime' = startTime \ {w}
         /\ duration' = [duration EXCEPT ![w] = 0]
         /\ UNCHANGED <<open, ticks, directory, place, wavs, born, disturbed>>
<1> DEFINE f == recording[w]
<1>1. f # None /\ f \in Recordings /\ f \in Active
  BY DEF StopRecording, SessionInv, SessionTypeOK, Active
<1>2. completion[w] = f /\ place[f] # None
  BY <1>1 DEF SessionInv, RecordingInv
<1>3. ~HasRow(f) /\ f \notin unlisted
  BY <1>1 DEF SessionInv, RowInv
<1>4. InsertRow(f)
  BY <1>1, <1>2 DEF StopRecording
<1> QED
  BY <1>1, <1>2, <1>3, <1>4 DEF StopRecording, ResetManager

(* The row of an undisturbed recording gets its file, or none.              *)
LEMMA StopKept ==
  ASSUME SessionInv, NEW w \in Windows, StopRecording(w)
  PROVE  SessionInv'
<1> USE DEF SessionInv, HasRow, Active
<1> DEFINE f == recording[w]
<1>1. /\ f # None /\ f \in Recordings
      /\ ~HasRow(f) /\ f \notin unlisted /\ place[f] # None
      /\ finished' = finished \union {f}
      /\ rowMic' = [rowMic EXCEPT ![f] = None]
      /\ rowOrder' = Append(rowOrder, f)
      /\ recording' = [recording EXCEPT ![w] = None]
      /\ completion' = [completion EXCEPT ![w] = None]
      /\ startTime' = startTime \ {w}
      /\ duration' = [duration EXCEPT ![w] = 0]
      /\ UNCHANGED <<open, ticks, directory, place, wavs, born, disturbed>>
  BY StopFacts DEF InsertRow
<1>2. \/ rowProcess' = [rowProcess EXCEPT ![f] = LastProcessFile] /\ UNCHANGED unlisted
      \/ rowProcess' = [rowProcess EXCEPT ![f] = None] /\ unlisted' = unlisted \union {f}
  BY StopFacts DEF InsertRow
<1>3. LastProcessFile \in Recordings \union {None}
  BY LookupType
<1> HIDE DEF f
<1>4. f = recording[w]
  BY DEF f
<1>5. SessionTypeOK'
  <2>1. /\ rowProcess' \in [Recordings -> Recordings \union {None, "norow"}]
        /\ unlisted' \in SUBSET Recordings
    BY <1>1, <1>2, <1>3 DEF SessionTypeOK
  <2>2. rowOrder' \in Seq(Recordings)
    <3>1. rowOrder \in Seq(Recordings)
      BY DEF SessionTypeOK
    <3> QED
      BY <1>1, <3>1
  <2> QED
    BY <1>1, <2>1, <2>2 DEF SessionTypeOK
<1>6. \A v \in Windows : recording'[v] # f /\ recording'[v] \in {recording[v], None}
  BY <1>1, <1>4 DEF RecordingInv, SessionTypeOK
<1>7. RecordingInv' /\ ClockInv' /\ DurationZeroWhenIdle'
  BY <1>1, <1>6 DEF RecordingInv, ClockInv, DurationZeroWhenIdle, SessionTypeOK
<1>8. RowInv'
  <2>1. f \notin Active' /\ Active' \subseteq Active
    BY <1>1, <1>6
  <2>2. \A g \in Recordings \ {f} :
          rowProcess'[g] = rowProcess[g] /\ (g \in unlisted' => g \in unlisted)
    BY <1>1, <1>2 DEF SessionTypeOK
  <2> QED
    BY <1>1, <2>1, <2>2 DEF RowInv
<1>9. NewestInv'
  BY <1>1, <1>6 DEF NewestInv, SessionTypeOK
<1>10. UndisturbedRowNamesItsFile'
  <2>1. f \notin disturbed => LastProcessFile = f
    BY <1>1, <1>4, LookupFindsNewest DEF NewestInv
  <2> QED
    BY <1>1, <1>2, <2>1 DEF UndisturbedRowNamesItsFile, SessionTypeOK
<1> QED
  BY <1>5, <1>7, <1>8, <1>9, <1>10

(* The settings: every recording in progress becomes a disturbed one.       *)
LEMMA ChangeDirectoryKept ==
  ASSUME SessionInv, NEW d \in Dirs, ChangeDirectory(d)
  PROVE  SessionInv'
<1> USE DEF SessionInv, HasRow, Active, ChangeDirectory, managerVars, rowVars
<1>1. SessionTypeOK'
  BY DEF SessionTypeOK
<1>2. RecordingInv' /\ RowInv' /\ ClockInv' /\ DurationZeroWhenIdle'
  BY DEF RecordingInv, RowInv, ClockInv, DurationZeroWhenIdle
<1>3. NewestInv'
  BY DEF NewestInv
<1>4. UndisturbedRowNamesItsFile'
  BY DEF UndisturbedRowNamesItsFile
<1> QED
  BY <1>1, <1>2, <1>3, <1>4

(* A window closes, and its recording ends without a row.                   *)
LEMMA CloseKept ==
  ASSUME SessionInv, NEW w \in Windows, CloseWindow(w)
  PROVE  SessionInv'
<1> USE DEF SessionInv, HasRow, Active, CloseWindow, ResetManager, rowVars
<1>1. SessionTypeOK'
  BY DEF SessionTypeOK
<1>2. RecordingInv' /\ RowInv' /\ ClockInv' /\ DurationZeroWhenIdle'
  BY DEF RecordingInv, RowInv, ClockInv, DurationZeroWhenIdle, SessionTypeOK
<1>3. NewestInv'
  BY DEF NewestInv, SessionTypeOK
<1>4. UndisturbedRowNamesItsFile'
  BY DEF UndisturbedRowNamesItsFile, SessionTypeOK
<1> QED
  BY <1>1, <1>2, <1>3, <1>4

(* A crash may take rows away, never add or change one.                     *)
LEMMA DieKept ==
  ASSUME SessionInv, NEW lost \in SUBSET Recordings, Die(lost)
  PROVE  SessionInv'
<1> USE DEF SessionInv, HasRow, Active, Die
<1>1. SessionTypeOK'
  <2>1. rowProcess' \in [Recordings -> Recordings \union {None, "norow"}]
        /\ rowMic' \in [Recordings -> Recordings \union {None}]
    BY DEF SessionTypeOK
  <2>2. finished' \in SUBSET Recordings
    BY DEF SessionTypeOK
  <2> QED
    BY <2>1, <2>2 DEF SessionTypeOK
<1>2. RecordingInv' /\ RowInv' /\ ClockInv' /\ DurationZeroWhenIdle'
  BY DEF RecordingInv, RowInv, ClockInv, DurationZeroWhenIdle
<1>3. NewestInv'
  BY DEF NewestInv
<1>4. \A f \in Recordings : HasRow(f)' => HasRow(f) /\ rowProcess'[f] = rowProcess[f]
  OBVIOUS
<1>5. Active' = {}
  OBVIOUS
<1>6. UndisturbedRowNamesItsFile'
  BY <1>4 DEF UndisturbedRowNamesItsFile
<1> QED
  BY <1>1, <1>2, <1>3, <1>6

-----------------------------------------------------------------------------
LEMMA SessionInvKept ==
  ASSUME SessionInv, [SessionNext]_sessionVars
  PROVE  SessionInv'
<1> USE DEF SessionInv, HasRow, Active
<1>1. ASSUME NEW w \in Windows, NEW f \in Recordings, StartRecording(w, f)
      PROVE  SessionInv'
  BY <1>1, StartKept
<1>2. ASSUME NEW w \in Windows, StopRecording(w)
      PROVE  SessionInv'
  BY <1>2, StopKept
<1>3. ASSUME NEW w \in Windows, CloseWindow(w)
      PROVE  SessionInv'
  BY <1>3, CloseKept
<1>4. ASSUME NEW w \in Windows, OpenWindow(w)
      PROVE  SessionInv'
  BY <1>4 DEF OpenWindow, managerVars, diskVars, rowVars, SessionTypeOK,
     RecordingInv, RowInv, ClockInv, NewestInv, DurationZeroWhenIdle,
     UndisturbedRowNamesItsFile
<1>5. ASSUME NEW w \in Windows, DurationTick(w)
      PROVE  SessionInv'
  BY <1>5 DEF DurationTick, diskVars, rowVars, SessionTypeOK,
     RecordingInv, RowInv, ClockInv, NewestInv, DurationZeroWhenIdle,
     UndisturbedRowNamesItsFile
<1>6. ASSUME NEW w \in Windows, UpdateDuration(w)
      PROVE  SessionInv'
  BY <1>6 DEF UpdateDuration, diskVars, rowVars, SessionTypeOK,
     RecordingInv, RowInv, ClockInv, NewestInv, DurationZeroWhenIdle,
     UndisturbedRowNamesItsFile
<1>7. ASSUME NEW d \in Dirs, ChangeDirectory(d)
      PROVE  SessionInv'
  BY <1>7, ChangeDirectoryKept
<1>8. ASSUME NEW lost \in SUBSET {f \in Recordings : HasRow(f)}, Die(lost)
      PROVE  SessionInv'
  BY <1>8, DieKept
<1>9. CASE UNCHANGED sessionVars
  BY <1>9 DEF sessionVars, managerVars, diskVars, rowVars, SessionTypeOK,
     RecordingInv, RowInv, ClockInv, NewestInv, DurationZeroWhenIdle,
     UndisturbedRowNamesItsFile
<1> QED
  BY <1>1, <1>2, <1>3, <1>4, <1>5, <1>6, <1>7, <1>8, <1>9 DEF SessionNext

(* Every reachable state satisfies the invariant.                           *)
THEOREM SessionInductive == SessionSpec => []SessionInv
<1>1. SessionInit => SessionInv
  BY SessionInitHolds
<1>2. SessionInv /\ [SessionNext]_sessionVars => SessionInv'
  BY SessionInvKept
<1> QED
  BY <1>1, <1>2, PTL DEF SessionSpec

(* The variables keep their types.                                          *)
THEOREM SessionTypeCorrect == SessionSpec => []SessionTypeOK
<1>1. SessionInv => SessionTypeOK
  BY DEF SessionInv
<1> QED
  BY <1>1, SessionInductive, PTL

(* A duration task that runs after the stop does not revive the clock.      *)
THEOREM ClockStops == SessionSpec => []DurationZeroWhenIdle
<1>1. SessionInv => DurationZeroWhenIdle
  BY DEF SessionInv
<1> QED
  BY <1>1, SessionInductive, PTL

(* The lookup of the newest file finds the file of the recording that is    *)
(* stopped, unless the directory changed, cannot be read, or another window *)
(* began to record.                                                         *)
THEOREM UndisturbedRows == SessionSpec => []UndisturbedRowNamesItsFile
<1>1. SessionInv => UndisturbedRowNamesItsFile
  BY DEF SessionInv
<1> QED
  BY <1>1, SessionInductive, PTL

(* The rows that a step adds are those of the recordings it stops.          *)
RowsOfStep ==
  {f \in Recordings : ~HasRow(f) /\ HasRow(f)'} =
    {recording[w] : w \in {v \in Windows : Stopped(v)}}

LEMMA NoRowsNoStops ==
  ASSUME \A f \in Recordings : HasRow(f)' => HasRow(f),
         \A w \in Windows : ~Stopped(w)
  PROVE  RowsOfStep
BY DEF RowsOfStep

LEMMA RowsOfEachStep ==
  ASSUME SessionInv, [SessionNext]_sessionVars
  PROVE  RowsOfStep \/ UNCHANGED sessionVars
<1> USE DEF HasRow, Stopped
<1>1. ASSUME NEW w \in Windows, NEW f \in Recordings, StartRecording(w, f)
      PROVE  RowsOfStep
  <2>1. f # None /\ recording \in [Windows -> Recordings \union {None}]
    BY RecordingNone DEF SessionInv, SessionTypeOK
  <2>2. recording' = recording \/ recording' = [recording EXCEPT ![w] = f]
    BY <1>1 DEF StartRecording
  <2>3. \A v \in Windows : ~Stopped(v)
    BY <2>1, <2>2
  <2>4. UNCHANGED rowProcess
    BY <1>1 DEF StartRecording, rowVars
  <2> QED
    BY <2>3, <2>4, NoRowsNoStops
<1>2. ASSUME NEW w \in Windows, StopRecording(w)
      PROVE  RowsOfStep
  <2>0. PICK f \in Recordings : f = recording[w]
    BY <1>2, StopFacts
  <2>1. /\ f # None /\ ~HasRow(f) /\ w \in open'
        /\ recording' = [recording EXCEPT ![w] = None]
        /\ recording \in [Windows -> Recordings \union {None}]
        /\ rowProcess \in [Recordings -> Recordings \union {None, "norow"}]
        /\ \/ rowProcess' = [rowProcess EXCEPT ![f] = LastProcessFile]
           \/ rowProcess' = [rowProcess EXCEPT ![f] = None]
    BY <1>2, <2>0, StopFacts DEF InsertRow, SessionInv, SessionTypeOK
  <2>2. LastProcessFile \in Recordings \union {None}
    BY LookupType DEF SessionInv
  <2>3. \A v \in Windows : Stopped(v) <=> v = w
    BY <2>0, <2>1
  <2>4. HasRow(f)' /\ \A g \in Recordings \ {f} : HasRow(g)' <=> HasRow(g)
    BY <2>1, <2>2, NoRow
  <2>5. {g \in Recordings : ~HasRow(g) /\ HasRow(g)'} = {f}
    BY <2>1, <2>4
  <2>6. {recording[v] : v \in {u \in Windows : Stopped(u)}} = {f}
    BY <2>0, <2>3
  <2> QED
    BY <2>5, <2>6 DEF RowsOfStep
<1>3. ASSUME NEW w \in Windows, CloseWindow(w)
      PROVE  RowsOfStep
  <2>1. \A v \in Windows : ~Stopped(v)
    BY <1>3 DEF CloseWindow, ResetManager, SessionInv, SessionTypeOK
  <2>2. UNCHANGED rowProcess
    BY <1>3 DEF CloseWindow, rowVars
  <2> QED
    BY <2>1, <2>2, NoRowsNoStops
<1>4. ASSUME NEW lost \in SUBSET {f \in Recordings : HasRow(f)}, Die(lost)
      PROVE  RowsOfStep
  <2>1. \A v \in Windows : ~Stopped(v)
    BY <1>4 DEF Die
  <2>2. \A f \in Recordings : HasRow(f)' => HasRow(f)
    BY <1>4 DEF Die
  <2> QED
    BY <2>1, <2>2, NoRowsNoStops
<1>5. ASSUME UNCHANGED <<recording, rowProcess>>
      PROVE  RowsOfStep
  BY <1>5, NoRowsNoStops
<1>6. ASSUME NEW w \in Windows, OpenWindow(w) \/ DurationTick(w) \/ UpdateDuration(w)
      PROVE  UNCHANGED <<recording, rowProcess>>
  BY <1>6 DEF OpenWindow, DurationTick, UpdateDuration, managerVars, rowVars
<1>7. ASSUME NEW d \in Dirs, ChangeDirectory(d)
      PROVE  UNCHANGED <<recording, rowProcess>>
  BY <1>7 DEF ChangeDirectory, managerVars, rowVars
<1> QED
  BY <1>1, <1>2, <1>3, <1>4, <1>5, <1>6, <1>7 DEF SessionNext

(* Every stop makes the row of the recording it stops, although a closure   *)
(* stored by a start inserts it, and nothing else makes a row.              *)
THEOREM RowsOfStopped == SessionSpec => RowsAreOfStoppedRecordings
<1>1. SessionInv /\ [SessionNext]_sessionVars => [RowsOfStep]_sessionVars
  BY RowsOfEachStep
<1> QED
  BY <1>1, SessionInductive, PTL DEF SessionSpec, RowsAreOfStoppedRecordings, RowsOfStep

-----------------------------------------------------------------------------
(* The composition.                                                         *)
Pcs == {"none", "next", "await", "heard", "threw", "saveTxt", "saveJson",
        "updateRow", "done"}
Batches == [pc : Pcs, todo : SUBSET Wavs, heard : Contents, segments : BOOLEAN]

(* Every wav belongs to a recording whose process wav was created; no row   *)
(* names a microphone file.                                                 *)
FilesInv ==
  /\ \A x \in wavs : \E i \in DOMAIN born : born[i] = x[1]
  /\ rowMic = [f \in Recordings |-> None]

(* A recording that has come to its stop has a task, then a timer, then a   *)
(* batch, each at most once.                                                *)
DistinctTasks ==
  \A i, j \in DOMAIN stopTasks : stopTasks[i] = stopTasks[j] => i = j

OnceInv ==
  /\ DistinctTasks
  /\ Waiting \intersect liveTimers = {}
  /\ \A f \in Recordings :
       /\ f \in Waiting \union liveTimers => batch[f].pc = "none"
       /\ f \in Waiting \union liveTimers \/ batch[f].pc # "none" =>
            place[f] # None /\ f \notin Active

(* Where a batch is with its file.  A batch that looks at the disk holds    *)
(* the main actor.                                                          *)
Stage(f) ==
  /\ batch[f].todo \subseteq wavs
  /\ batch[f].pc \notin {"none", "next", "done"} => batch[f].todo # {}
  /\ batch[f].pc \in {"next", "saveTxt", "saveJson", "updateRow"} => turn = f
  /\ batch[f].pc \in {"heard", "saveTxt", "saveJson", "updateRow"} =>
       batch[f].heard \in {"partial", "full"}
  /\ batch[f].pc \in {"saveJson", "updateRow"} => txt[File(f)] # "none"
  /\ batch[f].pc = "updateRow" =>
       json[File(f)] # "none" \/ File(f) \in excused[f]

(* The files that a batch found are still to do, excused, or complete.      *)
Account(f) ==
  /\ ~InProgress(f) => scanned[f] = {}
  /\ \A x \in scanned[f] :
       \/ x \in batch[f].todo \/ x \in excused[f]
       \/ txt[x] # "none" /\ json[x] # "none"

BatchInv == /\ BatchTypeOK /\ batch \in [Recordings -> Batches]
            /\ SessionInv /\ FilesInv /\ OnceInv
            /\ (\A f \in Recordings : Stage(f) /\ Account(f))
            /\ TranscriptPathExists

-----------------------------------------------------------------------------
(* The newest of some wavs is one of them.                                  *)
LEMMA AgeType ==
  ASSUME SessionTypeOK, FilesInv, NEW x \in wavs
  PROVE  Age(x) \in 1..2 * Len(born) + 1
<1>1. born \in Seq(Recordings) /\ \E i \in DOMAIN born : born[i] = x[1]
  BY DEF SessionTypeOK, FilesInv
<1> DEFINE i == CHOOSE i \in DOMAIN born : born[i] = x[1]
<1>2. i \in 1..Len(born)
  BY <1>1
<1>3. Len(born) \in Nat
  BY <1>1
<1>4. Age(x) = 2 * i + 1 \/ Age(x) = 2 * i + 0
  BY DEF Age
<1> HIDE DEF i
<1> QED
  BY <1>2, <1>3, <1>4

LEMMA NewestIsOne ==
  ASSUME SessionTypeOK, FilesInv, NEW X \in SUBSET wavs, X # {}
  PROVE  Newest(X) \in X
<1> DEFINE n == 2 * Len(born) + 1
           s == [k \in 1..n |-> k]
           ages == {Age(x) : x \in X}
<1>1. n \in Nat
  BY DEF SessionTypeOK
<1>2. s \in Seq(Nat) /\ DOMAIN s = 1..n
  BY <1>1
<1>3. ages \in SUBSET DOMAIN s /\ ages # {}
  BY <1>2, AgeType
<1> HIDE DEF s, n
<1>4. Latest(ages) \in ages /\ \A k \in ages : k <= Latest(ages)
  <2> HIDE DEF ages
  <2> QED
    BY <1>2, <1>3, LatestIsLast
<1>5. PICK x \in X : Latest(ages) = Age(x)
  BY <1>4
<1>6. \A y \in X : Age(y) <= Age(x)
  BY <1>4, <1>5
<1> QED
  BY <1>6 DEF Newest

LEMMA FileType ==
  ASSUME SessionTypeOK, FilesInv, NEW f \in Recordings, Stage(f),
         batch[f].todo # {}
  PROVE  File(f) \in batch[f].todo
BY NewestIsOne DEF Stage, File

LEMMA FileStays ==
  ASSUME NEW f \in Recordings, UNCHANGED born, batch'[f].todo = batch[f].todo
  PROVE  File(f)' = File(f)
BY DEF File, Newest, Age

-----------------------------------------------------------------------------
(* The queue of stop tasks: a stop adds one, the main queue takes the first.*)
LEMMA TaskAdded ==
  ASSUME stopTasks \in Seq(Recordings), DistinctTasks, NEW f \in Recordings,
         f \notin Waiting, stopTasks' = Append(stopTasks, f)
  PROVE  Waiting' = Waiting \union {f} /\ DistinctTasks'
<1>1. /\ Len(stopTasks) \in Nat /\ DOMAIN stopTasks = 1..Len(stopTasks)
      /\ DOMAIN stopTasks' = 1..(Len(stopTasks) + 1)
      /\ stopTasks'[Len(stopTasks) + 1] = f
      /\ \A i \in 1..Len(stopTasks) : stopTasks'[i] = stopTasks[i]
  OBVIOUS
<1>2. \A i \in 1..(Len(stopTasks) + 1) : i \in 1..Len(stopTasks) \/ i = Len(stopTasks) + 1
  BY <1>1
<1>3. \A i \in 1..Len(stopTasks) : i \in 1..(Len(stopTasks) + 1)
  BY <1>1
<1>4. Len(stopTasks) + 1 \in 1..(Len(stopTasks) + 1)
  BY <1>1
<1>5. Waiting' = Waiting \union {f}
  BY <1>1, <1>2, <1>3, <1>4 DEF Waiting
<1>6. DistinctTasks'
  BY <1>1, <1>2 DEF DistinctTasks, Waiting
<1> QED
  BY <1>5, <1>6

LEMMA TaskTaken ==
  ASSUME stopTasks \in Seq(Recordings), DistinctTasks, stopTasks # <<>>,
         stopTasks' = Tail(stopTasks)
  PROVE  /\ Head(stopTasks) \in Waiting
         /\ Waiting' = Waiting \ {Head(stopTasks)}
         /\ DistinctTasks' /\ stopTasks' \in Seq(Recordings)
<1>1. /\ Len(stopTasks) \in Nat \ {0} /\ DOMAIN stopTasks = 1..Len(stopTasks)
      /\ Head(stopTasks) = stopTasks[1]
      /\ DOMAIN stopTasks' = 1..(Len(stopTasks) - 1)
      /\ \A i \in 1..(Len(stopTasks) - 1) : stopTasks'[i] = stopTasks[i + 1]
      /\ stopTasks' \in Seq(Recordings)
  OBVIOUS
<1>2. /\ 1 \in 1..Len(stopTasks)
      /\ \A i \in 1..(Len(stopTasks) - 1) : i + 1 \in 1..Len(stopTasks) /\ i + 1 # 1
      /\ \A i \in 1..Len(stopTasks) :
           i # 1 => i - 1 \in 1..(Len(stopTasks) - 1) /\ (i - 1) + 1 = i
  BY <1>1
<1>3. Waiting = {stopTasks[i] : i \in 1..Len(stopTasks)}
      /\ Waiting' = {stopTasks[i + 1] : i \in 1..(Len(stopTasks) - 1)}
  BY <1>1 DEF Waiting
<1>4. \A i \in 1..Len(stopTasks) : i # 1 => stopTasks[i] # stopTasks[1]
  BY <1>1, <1>2 DEF DistinctTasks
<1>5. Waiting' = Waiting \ {stopTasks[1]}
  BY <1>2, <1>3, <1>4
<1>6. DistinctTasks'
  <2> SUFFICES ASSUME NEW i \in 1..(Len(stopTasks) - 1),
                      NEW j \in 1..(Len(stopTasks) - 1),
                      stopTasks[i + 1] = stopTasks[j + 1]
               PROVE  i = j
    BY <1>1 DEF DistinctTasks
  <2>1. i + 1 = j + 1
    BY <1>1, <1>2 DEF DistinctTasks
  <2> QED
    BY <2>1
<1> QED
  BY <1>1, <1>2, <1>3, <1>5, <1>6

-----------------------------------------------------------------------------
(* What the steps of a session leave in place.                              *)
LEMMA FilesKept ==
  ASSUME SessionInv, FilesInv, [SessionNext]_sessionVars
  PROVE  FilesInv'
<1> USE DEF SessionInv, FilesInv
<1>1. ASSUME NEW w \in Windows, NEW f \in Recordings, StartRecording(w, f)
      PROVE  FilesInv'
  <2>1. PICK made \in {{}, {"process"}, Kinds} :
          /\ wavs' = wavs \union ({f} \X made)
          /\ IF "process" \in made THEN born' = Append(born, f) ELSE born' = born
    BY <1>1 DEF StartRecording
  <2>2. rowMic' = rowMic /\ born \in Seq(Recordings) /\ "process" \in Kinds
    BY <1>1, ProcessKind DEF StartRecording, rowVars, SessionTypeOK
  <2>3. CASE "process" \in made
    <3>1. born' = Append(born, f)
      BY <2>1, <2>3
    <3>2. \A i \in DOMAIN born : i \in DOMAIN born' /\ born'[i] = born[i]
      BY <2>2, <3>1
    <3>3. Len(born) + 1 \in DOMAIN born' /\ born'[Len(born) + 1] = f
      BY <2>2, <3>1
    <3>4. ASSUME NEW x \in wavs'
          PROVE  \E i \in DOMAIN born' : born'[i] = x[1]
      BY <2>1, <3>2, <3>3
    <3> QED
      BY <2>2, <3>4
  <2>4. CASE "process" \notin made
    <3>1. made = {}
      BY <2>1, <2>2, <2>4
    <3>2. wavs' = wavs /\ born' = born
      BY <2>1, <2>4, <3>1
    <3> QED
      BY <2>2, <3>2
  <2> QED
    BY <2>3, <2>4
<1>2. ASSUME NEW w \in Windows, StopRecording(w)
      PROVE  FilesInv'
  BY <1>2, StopFacts DEF InsertRow
<1>3. ASSUME NEW lost \in SUBSET {f \in Recordings : HasRow(f)}, Die(lost)
      PROVE  FilesInv'
  BY <1>3 DEF Die
<1>4. CASE \E w \in Windows : \/ OpenWindow(w) \/ CloseWindow(w) \/ DurationTick(w)
                               \/ UpdateDuration(w)
  BY <1>4 DEF OpenWindow, CloseWindow, DurationTick, UpdateDuration, diskVars, rowVars
<1>5. CASE \E d \in Dirs : ChangeDirectory(d)
  BY <1>5 DEF ChangeDirectory, rowVars
<1>6. CASE UNCHANGED sessionVars
  BY <1>6 DEF sessionVars, diskVars, rowVars
<1> QED
  BY <1>1, <1>2, <1>3, <1>4, <1>5, <1>6 DEF SessionNext

LEMMA SessionKept ==
  ASSUME BatchInv, [SessionNext]_sessionVars
  PROVE  SessionInv' /\ SessionTypeOK' /\ FilesInv'
BY SessionInvKept, FilesKept DEF BatchInv, SessionInv

(* Between the turns of batches, files may come, rows may come.             *)
LEMMA StagesKept ==
  ASSUME BatchInv, MainFree, wavs \subseteq wavs',
         UNCHANGED <<batch, turn, txt, json, ghostVars>>
  PROVE  \A f \in Recordings : Stage(f)' /\ Account(f)'
<1> SUFFICES ASSUME NEW f \in Recordings
             PROVE  Stage(f)' /\ Account(f)'
  OBVIOUS
<1>1. turn # f /\ turn' # f
  BY RecordingNone DEF MainFree
<1>2. Stage(f) /\ Account(f)
  BY DEF BatchInv
<1> QED
  BY <1>1, <1>2 DEF Stage, Account, InProgress, ghostVars

LEMMA TranscriptsKept ==
  ASSUME BatchInv, UNCHANGED text,
         \A x \in Wavs : txt[x] # "none" => txt'[x] # "none",
         \A f \in Recordings : HasRow(f) =>
           rowProcess'[f] = rowProcess[f] /\ rowMic'[f] = rowMic[f]
  PROVE  TranscriptPathExists'
BY DEF BatchInv, TranscriptPathExists, HasRow, Names

-----------------------------------------------------------------------------
LEMMA BatchInitHolds == Init => BatchInv
<1> SUFFICES ASSUME Init PROVE BatchInv
  OBVIOUS
<1> USE DEF Init
<1>1. SessionInv
  BY SessionInitHolds
<1>2. BatchTypeOK /\ batch \in [Recordings -> Batches]
  <2>1. NoBatch \in Batches
    BY DEF NoBatch, Batches, Pcs, Contents
  <2>2. batch \in [Recordings -> Batches]
    BY <2>1
  <2>3. SessionTypeOK
    BY <1>1 DEF SessionInv
  <2>4. /\ txt \in [Wavs -> Contents \ {"torn"}] /\ json \in [Wavs -> Contents]
        /\ text \in [Recordings -> Contents]
    BY DEF Contents
  <2> QED
    BY <2>2, <2>3, <2>4 DEF BatchTypeOK, Batches, Pcs
<1>3. FilesInv /\ TranscriptPathExists
  BY DEF SessionInit, FilesInv, TranscriptPathExists
<1>4. OnceInv
  <2>1. DOMAIN stopTasks = {}
    OBVIOUS
  <2> QED
    BY <2>1 DEF OnceInv, DistinctTasks, Waiting, NoBatch
<1>5. \A f \in Recordings : Stage(f) /\ Account(f)
  BY DEF Stage, Account, InProgress, NoBatch
<1> QED
  BY <1>1, <1>2, <1>3, <1>4, <1>5 DEF BatchInv

LEMMA ClickStartKept ==
  ASSUME BatchInv, NEW w \in Windows, NEW f \in Recordings, ClickStart(w, f)
  PROVE  BatchInv'
<1> USE DEF ClickStart, batchVars, timerVars, artifactVars
<1>1. SessionInv' /\ SessionTypeOK' /\ FilesInv'
  BY SessionKept DEF SessionNext
<1>2. BatchTypeOK' /\ (batch \in [Recordings -> Batches])'
  BY <1>1 DEF BatchInv, BatchTypeOK, ghostVars, Wavs
<1>3. OnceInv'
  <2>1. place[f] = None /\ place' = [place EXCEPT ![f] = directory]
        /\ Active' \subseteq Active \union {f}
    BY DEF StartRecording, Active, BatchInv, BatchTypeOK, SessionTypeOK
  <2>2. place \in [Recordings -> Dirs \union {None}]
    BY DEF BatchInv, BatchTypeOK, SessionTypeOK
  <2> QED
    BY <2>1, <2>2 DEF OnceInv, DistinctTasks, Waiting, BatchInv
<1>4. \A g \in Recordings : Stage(g)' /\ Account(g)'
  BY StagesKept DEF StartRecording
<1>5. TranscriptPathExists'
  BY TranscriptsKept DEF StartRecording, rowVars
<1> QED
  BY <1>1, <1>2, <1>3, <1>4, <1>5 DEF BatchInv

(* The recording that is stopped had no row and no part in anything.        *)
LEMMA ClickStopKept ==
  ASSUME BatchInv, NEW w \in Windows, ClickStop(w)
  PROVE  BatchInv'
<1> DEFINE f == recording[w]
<1>1. SessionInv' /\ SessionTypeOK' /\ FilesInv'
  BY SessionKept DEF ClickStop, SessionNext
<1>2. f # None /\ f \in Recordings /\ f \in Active
  BY DEF ClickStop, StopRecording, BatchInv, BatchTypeOK, SessionTypeOK, Active
<1>3. /\ stopTasks' = Append(stopTasks, f)
      /\ owner' = [owner EXCEPT ![f] = w]
      /\ UNCHANGED <<isTranscribing, countdown, liveTimers, storedTimer, batch,
                     turn, txt, json, text, saved, scanned, excused, wavs, place>>
      /\ recording' = [recording EXCEPT ![w] = None]
      /\ ~HasRow(f)
      /\ \A g \in Recordings \ {f} :
           rowProcess'[g] = rowProcess[g] /\ rowMic'[g] = rowMic[g]
  <2>1. StopRecording(w) /\ SessionInv
    BY DEF ClickStop, BatchInv
  <2>2. InsertRow(f)
    BY <2>1, StopFacts
  <2>3. \A g \in Recordings \ {f} :
          rowProcess'[g] = rowProcess[g] /\ rowMic'[g] = rowMic[g]
    BY <2>2 DEF InsertRow, BatchInv, BatchTypeOK, SessionTypeOK
  <2> QED
    BY <2>1, <2>3, StopFacts DEF ClickStop, artifactVars, ghostVars
<1>4. f \notin Active' /\ Active' \subseteq Active /\ place[f] # None
  BY <1>2, <1>3 DEF BatchInv, SessionInv, RecordingInv, BatchTypeOK,
     SessionTypeOK, Active
<1> HIDE DEF f
<1>5. BatchTypeOK' /\ (batch \in [Recordings -> Batches])'
  BY <1>1, <1>2, <1>3 DEF BatchInv, BatchTypeOK, Wavs
<1>6. OnceInv'
  <2>1. f \notin Waiting
    BY <1>2 DEF OnceInv, BatchInv
  <2>2. Waiting' = Waiting \union {f} /\ DistinctTasks'
    BY <1>2, <1>3, <2>1, TaskAdded DEF OnceInv, BatchInv, BatchTypeOK
  <2> QED
    BY <1>2, <1>3, <1>4, <2>2 DEF OnceInv, BatchInv
<1>7. \A g \in Recordings : Stage(g)' /\ Account(g)'
  BY <1>3, StagesKept DEF ClickStop, ghostVars
<1>8. TranscriptPathExists'
  <2>1. \A g \in Recordings : HasRow(g) =>
          rowProcess'[g] = rowProcess[g] /\ rowMic'[g] = rowMic[g]
    BY <1>3
  <2> QED
    BY <1>3, <2>1, TranscriptsKept
<1> QED
  BY <1>1, <1>5, <1>6, <1>7, <1>8 DEF BatchInv

LEMMA RunStopTaskKept ==
  ASSUME BatchInv, NEW f \in Recordings, RunStopTask(f)
  PROVE  BatchInv'
<1> USE DEF RunStopTask, artifactVars
<1>1. SessionInv' /\ SessionTypeOK' /\ FilesInv'
  BY SessionKept
<1> DEFINE rest == Waiting \ {f}
<1>6. /\ f \in Waiting /\ Waiting' = rest /\ DistinctTasks'
      /\ stopTasks' \in Seq(Recordings)
  BY TaskTaken DEF OnceInv, BatchInv, BatchTypeOK
<1>2. BatchTypeOK' /\ (batch \in [Recordings -> Batches])'
  <2>1. Delay \in Int
    BY DelayPositive
  <2>2. /\ isTranscribing' \in SUBSET Windows
        /\ countdown' \in [Windows -> Int]
        /\ storedTimer' \in [Windows -> Recordings \union {None}]
    <3>1. CASE owner[f] = None
      BY <3>1 DEF BatchInv, BatchTypeOK
    <3>2. CASE owner[f] # None
      <4>1. /\ owner[f] \in Windows
            /\ isTranscribing \in SUBSET Windows
            /\ countdown \in [Windows -> Int]
            /\ storedTimer \in [Windows -> Recordings \union {None}]
        BY <3>2 DEF BatchInv, BatchTypeOK
      <4> QED
        BY <2>1, <3>2, <4>1
    <3> QED
      BY <3>1, <3>2
  <2> QED
    BY <1>1, <1>6, <2>2 DEF BatchInv, BatchTypeOK, ghostVars, Wavs
<1>3. OnceInv'
  BY <1>6 DEF OnceInv, BatchInv, sessionVars, managerVars, diskVars, Active
<1>4. \A g \in Recordings : Stage(g)' /\ Account(g)'
  BY StagesKept DEF sessionVars, diskVars
<1>5. TranscriptPathExists'
  BY TranscriptsKept DEF sessionVars, rowVars
<1> QED
  BY <1>1, <1>2, <1>3, <1>4, <1>5 DEF BatchInv

-----------------------------------------------------------------------------
(* What the steps of a batch leave in place.                                *)
LEMMA MoveFacts ==
  ASSUME batch \in [Recordings -> Batches], NEW f \in Recordings, NEW pc \in Pcs,
         Move(f, pc)
  PROVE  /\ batch' \in [Recordings -> Batches]
         /\ batch'[f].pc = pc
         /\ batch'[f].todo = batch[f].todo
         /\ batch'[f].heard = batch[f].heard
         /\ batch'[f].segments = batch[f].segments
         /\ \A g \in Recordings \ {f} : batch'[g] = batch[g]
BY DEF Move, Batches

LEMMA NextFacts ==
  ASSUME batch \in [Recordings -> Batches], NEW f \in Recordings, NextInTurn(f)
  PROVE  /\ batch' \in [Recordings -> Batches]
         /\ batch'[f].pc = "next"
         /\ batch'[f].todo = batch[f].todo \ {File(f)}
         /\ \A g \in Recordings \ {f} : batch'[g] = batch[g]
<1>1. batch'[f] = [NoBatch EXCEPT !.pc = "next", !.todo = batch[f].todo \ {File(f)}]
  BY DEF NextInTurn
<1>2. batch'[f] = [pc |-> "next", todo |-> batch[f].todo \ {File(f)},
                   heard |-> "none", segments |-> FALSE]
  BY <1>1 DEF NoBatch
<1>3. batch[f].todo \ {File(f)} \in SUBSET Wavs
  BY DEF Batches
<1>4. batch'[f] \in Batches
  BY <1>2, <1>3 DEF Batches, Pcs, Contents
<1> QED
  BY <1>2, <1>4 DEF NextInTurn

(* A step of one batch, in its turn or from its await, leaves the others    *)
(* where they are.                                                          *)
LEMMA OthersKept ==
  ASSUME BatchInv, NEW f \in Recordings, turn = f \/ turn = None, UNCHANGED wavs,
         \A x \in Wavs : /\ txt[x] # "none" => txt'[x] # "none"
                         /\ json[x] # "none" => json'[x] # "none",
         NEW g \in Recordings, g # f, batch'[g] = batch[g],
         scanned'[g] = scanned[g], excused'[g] = excused[g]
  PROVE  Stage(g)' /\ Account(g)'
<1>1. turn # g
  BY RecordingNone
<1>2. Stage(g) /\ Account(g) /\ scanned[g] \subseteq Wavs
  BY DEF BatchInv, BatchTypeOK
<1> QED
  BY <1>1, <1>2 DEF Stage, Account, InProgress

(* What is left to show of a step of batch f that leaves the session alone. *)
LEMMA StepKept ==
  ASSUME BatchInv, NEW f \in Recordings, turn = f \/ turn = None,
         UNCHANGED <<sessionVars, stopTasks>>,
         liveTimers' \subseteq liveTimers, f \notin liveTimers', f \notin Waiting,
         place[f] # None, f \notin Active,
         batch' \in [Recordings -> Batches],
         \A g \in Recordings \ {f} :
           batch'[g] = batch[g] /\ scanned'[g] = scanned[g] /\ excused'[g] = excused[g],
         \A x \in Wavs : /\ txt[x] # "none" => txt'[x] # "none"
                         /\ json[x] # "none" => json'[x] # "none",
         BatchTypeOK', Stage(f)', Account(f)',
         TranscriptPathExists'
  PROVE  BatchInv'
<1>1. SessionInv' /\ FilesInv'
  BY SessionKept
<1>2. OnceInv'
  BY DEF OnceInv, DistinctTasks, Waiting, BatchInv, sessionVars, managerVars,
     diskVars, Active
<1>3. \A g \in Recordings : Stage(g)' /\ Account(g)'
  BY OthersKept DEF sessionVars, diskVars
<1> QED
  BY <1>1, <1>2, <1>3 DEF BatchInv

(* A batch goes on to its next file when it can account for this one.       *)
LEMMA NextKept ==
  ASSUME BatchInv, NEW f \in Recordings, InProgress(f), NextInTurn(f), turn' = f,
         UNCHANGED <<wavs, scanned>>, excused[f] \subseteq excused'[f],
         \A x \in Wavs : /\ txt[x] # "none" => txt'[x] # "none"
                         /\ json[x] # "none" => json'[x] # "none",
         \/ File(f) \in excused'[f]
         \/ txt'[File(f)] # "none" /\ json'[File(f)] # "none"
  PROVE  Stage(f)' /\ Account(f)'
<1>1. /\ batch'[f].pc = "next"
      /\ batch'[f].todo = batch[f].todo \ {File(f)}
  BY NextFacts DEF BatchInv
<1>2. Stage(f) /\ Account(f) /\ scanned[f] \subseteq Wavs
  BY DEF BatchInv, BatchTypeOK
<1>3. Stage(f)'
  BY <1>1, <1>2 DEF Stage
<1>4. Account(f)'
  <2>1. InProgress(f)'
    BY <1>1 DEF InProgress
  <2>2. ASSUME NEW x \in scanned[f]
        PROVE  \/ x \in batch'[f].todo \/ x \in excused'[f]
               \/ txt'[x] # "none" /\ json'[x] # "none"
    <3>1. \/ x \in batch[f].todo \/ x \in excused[f]
          \/ txt[x] # "none" /\ json[x] # "none"
      BY <1>2 DEF Account
    <3>2. x \in Wavs
      BY <1>2
    <3> QED
      BY <1>1, <3>1, <3>2
  <2> QED
    BY <2>1, <2>2 DEF Account
<1> QED
  BY <1>3, <1>4

(* A batch that has begun has had its stop.                                 *)
LEMMA BegunFacts ==
  ASSUME BatchInv, NEW f \in Recordings, batch[f].pc # "none"
  PROVE  /\ f \notin liveTimers /\ f \notin Waiting
         /\ place[f] # None /\ f \notin Active
         /\ Stage(f) /\ Account(f)
         /\ batch \in [Recordings -> Batches]
         /\ f # None
BY RecordingNone DEF BatchInv, OnceInv

LEMMA SkipFileKept ==
  ASSUME BatchInv, NEW f \in Recordings, SkipFile(f)
  PROVE  BatchInv'
<1> USE DEF SkipFile, timerVars, artifactVars, ghostVars
<1>1. UNCHANGED wavs /\ InProgress(f) /\ batch[f].pc # "none"
  BY DEF InProgress, sessionVars, diskVars
<1>2. Stage(f)' /\ Account(f)'
  BY <1>1, NextKept DEF NeedsTranscription
<1>3. BatchTypeOK'
  BY NextFacts, SessionKept DEF BatchInv, BatchTypeOK, Batches, Pcs
<1>4. TranscriptPathExists'
  BY TranscriptsKept DEF sessionVars, rowVars
<1> QED
  BY <1>1, <1>2, <1>3, <1>4, BegunFacts, NextFacts, StepKept

LEMMA SubmitFileKept ==
  ASSUME BatchInv, NEW f \in Recordings, SubmitFile(f)
  PROVE  BatchInv'
<1> USE DEF SubmitFile, timerVars, artifactVars, ghostVars
<1>1. UNCHANGED wavs /\ batch[f].pc = "next" /\ "await" \in Pcs
  BY DEF sessionVars, diskVars, Pcs
<1>2. Stage(f)' /\ Account(f)'
  BY <1>1, MoveFacts, BegunFacts DEF Stage, Account, InProgress
<1>3. BatchTypeOK'
  BY <1>1, MoveFacts, SessionKept DEF BatchInv, BatchTypeOK, Batches, Pcs
<1>4. TranscriptPathExists'
  BY TranscriptsKept DEF sessionVars, rowVars
<1> QED
  BY <1>1, <1>2, <1>3, <1>4, BegunFacts, MoveFacts, StepKept

LEMMA EndBatchKept ==
  ASSUME BatchInv, NEW f \in Recordings, EndBatch(f)
  PROVE  BatchInv'
<1> USE DEF EndBatch, artifactVars, ResetTranscription
<1>1. UNCHANGED wavs /\ batch[f].pc = "next" /\ "done" \in Pcs
  BY DEF sessionVars, diskVars, Pcs
<1>2. /\ isTranscribing' \subseteq isTranscribing
      /\ liveTimers' \subseteq liveTimers
      /\ countdown' \in [Windows -> Int]
      /\ storedTimer' \in [Windows -> Recordings \union {None}]
  <2>1. CASE owner[f] = None
    BY <2>1 DEF BatchInv, BatchTypeOK
  <2>2. CASE owner[f] # None
    <3>1. /\ owner[f] \in Windows
          /\ countdown \in [Windows -> Int]
          /\ storedTimer \in [Windows -> Recordings \union {None}]
      BY <2>2 DEF BatchInv, BatchTypeOK
    <3> QED
      BY <2>2, <3>1
  <2> QED
    BY <2>1, <2>2
<1>3. scanned'[f] = {} /\ excused'[f] = {}
  BY DEF BatchInv, BatchTypeOK
<1>4. Stage(f)' /\ Account(f)'
  BY <1>1, <1>3, MoveFacts, BegunFacts DEF Stage, Account, InProgress
<1>5. BatchTypeOK'
  <2>1. /\ scanned' \in [Recordings -> SUBSET Wavs]
        /\ excused' \in [Recordings -> SUBSET Wavs]
        /\ owner' \in [Recordings -> Windows \union {None}]
    BY DEF BatchInv, BatchTypeOK, Wavs
  <2> QED
    BY <1>1, <1>2, <2>1, MoveFacts, SessionKept DEF BatchInv, BatchTypeOK, Batches, Pcs
<1>6. TranscriptPathExists'
  BY TranscriptsKept DEF sessionVars, rowVars
<1>7. \A g \in Recordings \ {f} : scanned'[g] = scanned[g] /\ excused'[g] = excused[g]
  BY DEF BatchInv, BatchTypeOK
<1> QED
  BY <1>1, <1>2, <1>4, <1>5, <1>6, <1>7, BegunFacts, MoveFacts, StepKept

(* Whisper runs outside any turn: it changes what its batch has heard.      *)
LEMMA WhisperKept ==
  ASSUME BatchInv, NEW f \in Recordings, Whisper(f)
  PROVE  BatchInv'
<1>1. /\ batch[f].pc = "await" /\ batch[f].pc # "none"
      /\ UNCHANGED <<sessionVars, timerVars, turn, artifactVars, ghostVars>>
      /\ UNCHANGED <<wavs, born, txt, json, scanned, excused>>
  BY DEF Whisper, sessionVars, diskVars, artifactVars, ghostVars
<1>2. /\ batch' \in [Recordings -> Batches]
      /\ batch'[f].todo = batch[f].todo
      /\ \A g \in Recordings \ {f} : batch'[g] = batch[g]
      /\ batch'[f].pc \in {"threw", "heard"}
      /\ batch'[f].pc = "heard" => batch'[f].heard \in {"partial", "full"}
  <2>1. CASE Move(f, "threw")
    BY <2>1, MoveFacts DEF BatchInv, Pcs
  <2>2. ASSUME NEW segments \in BOOLEAN,
               batch' = [batch EXCEPT
                 ![f].pc = "heard", ![f].segments = segments,
                 ![f].heard = IF File(f)[1] \in finished THEN "full" ELSE "partial"]
        PROVE  <1>2!1 /\ <1>2!2 /\ <1>2!3 /\ <1>2!4 /\ <1>2!5
    <3> DEFINE heard == IF File(f)[1] \in finished THEN "full" ELSE "partial"
    <3>1. heard \in {"partial", "full"}
      OBVIOUS
    <3> HIDE DEF heard
    <3>2. batch[f] \in Batches /\ batch \in [Recordings -> Batches]
      BY DEF BatchInv
    <3>3. batch' = [batch EXCEPT ![f] = [batch[f] EXCEPT
                      !.pc = "heard", !.segments = segments, !.heard = heard]]
      BY <2>2, <3>2 DEF heard
    <3> DEFINE r == [batch[f] EXCEPT !.pc = "heard", !.segments = segments,
                                     !.heard = heard]
    <3>4. /\ r \in Batches
          /\ r.pc = "heard" /\ r.todo = batch[f].todo /\ r.heard = heard
      BY <3>1, <3>2 DEF Batches, Pcs, Contents
    <3> HIDE DEF r
    <3>5. batch' = [batch EXCEPT ![f] = r]
      BY <3>3 DEF r
    <3> QED
      BY <3>1, <3>2, <3>4, <3>5
  <2> QED
    BY <2>1, <2>2 DEF Whisper
<1>3. Stage(f) /\ Account(f)
  BY DEF BatchInv
<1>4. Stage(f)' /\ Account(f)'
  BY <1>1, <1>2, <1>3 DEF Stage, Account, InProgress
<1>5. ASSUME NEW g \in Recordings, g # f
      PROVE  Stage(g)' /\ Account(g)'
  <2>1. Stage(g) /\ Account(g) /\ batch'[g] = batch[g]
    BY <1>2, <1>5 DEF BatchInv
  <2>2. File(g)' = File(g)
    BY <1>1, <2>1, FileStays
  <2> QED
    BY <1>1, <2>1, <2>2 DEF Stage, Account, InProgress
<1>6. SessionInv' /\ SessionTypeOK' /\ FilesInv'
  BY <1>1, SessionKept
<1>7. BatchTypeOK'
  BY <1>1, <1>2, <1>6 DEF BatchInv, BatchTypeOK, Batches, Pcs, timerVars,
     artifactVars, ghostVars, Wavs
<1>8. OnceInv'
  <2>1. UNCHANGED <<stopTasks, liveTimers, place, recording>>
    BY <1>1 DEF timerVars, sessionVars, managerVars, diskVars
  <2> QED
    BY <1>1, <1>2, <2>1 DEF OnceInv, DistinctTasks, Waiting, BatchInv, Active
<1>9. TranscriptPathExists'
  BY <1>1, TranscriptsKept DEF sessionVars, rowVars, artifactVars
<1> QED
  BY <1>2, <1>4, <1>5, <1>6, <1>7, <1>8, <1>9 DEF BatchInv

LEMMA ResumeKept ==
  ASSUME BatchInv, NEW f \in Recordings, Resume(f)
  PROVE  BatchInv'
<1> USE DEF Resume, MainFree, timerVars, artifactVars
<1>1. /\ UNCHANGED <<wavs, scanned>> /\ InProgress(f) /\ batch[f].pc # "none"
      /\ batch[f].pc \in {"heard", "threw"} /\ "saveTxt" \in Pcs
  BY DEF InProgress, sessionVars, diskVars, Pcs
<1>2. File(f) \in Wavs
  BY <1>1, FileType, BegunFacts DEF BatchInv, BatchTypeOK, Stage, SessionTypeOK
<1>3. /\ batch' \in [Recordings -> Batches]
      /\ \A g \in Recordings \ {f} : batch'[g] = batch[g] /\ excused'[g] = excused[g]
      /\ excused' \in [Recordings -> SUBSET Wavs]
  <2> USE DEF BatchInv
  <2>1. excused \in [Recordings -> SUBSET Wavs]
    BY DEF BatchTypeOK
  <2>2. CASE batch[f].pc = "heard" /\ Move(f, "saveTxt") /\ UNCHANGED excused
    BY <1>1, <2>1, <2>2, MoveFacts
  <2>3. CASE batch[f].pc = "threw" /\ NextInTurn(f) /\ Excuse(f)
    <3>1. /\ excused' \in [Recordings -> SUBSET Wavs]
          /\ \A g \in Recordings \ {f} : excused'[g] = excused[g]
      BY <1>2, <2>1, <2>3 DEF Excuse
    <3> QED
      BY <2>3, <3>1, NextFacts
  <2> QED
    BY <2>2, <2>3
<1>4. Stage(f)' /\ Account(f)'
  <2>1. CASE batch[f].pc = "heard" /\ Move(f, "saveTxt") /\ UNCHANGED excused
    BY <1>1, <2>1, MoveFacts, BegunFacts DEF Stage, Account, InProgress
  <2>2. CASE batch[f].pc = "threw" /\ NextInTurn(f) /\ Excuse(f)
    <3>1. excused[f] \subseteq excused'[f] /\ File(f) \in excused'[f]
      BY <2>2 DEF Excuse, BatchInv, BatchTypeOK
    <3> QED
      BY <1>1, <2>2, <3>1, NextKept
  <2> QED
    BY <2>1, <2>2
<1>5. BatchTypeOK'
  BY <1>1, <1>3, SessionKept DEF BatchInv, BatchTypeOK, Batches, Pcs, Wavs
<1>6. TranscriptPathExists'
  BY TranscriptsKept DEF sessionVars, rowVars
<1> QED
  BY <1>1, <1>3, <1>4, <1>5, <1>6, BegunFacts, StepKept

(* A write that fails leaves the file, excused, to a later batch.           *)
LEMMA WriteFailsKept ==
  ASSUME BatchInv, NEW f \in Recordings, WriteFails(f), InProgress(f), turn = f,
         UNCHANGED <<wavs, scanned, turn>>, File(f) \in Wavs,
         \A x \in Wavs : json[x] # "none" => json'[x] # "none"
  PROVE  /\ Stage(f)' /\ Account(f)' /\ batch' \in [Recordings -> Batches]
         /\ \A g \in Recordings \ {f} : batch'[g] = batch[g] /\ excused'[g] = excused[g]
         /\ excused' \in [Recordings -> SUBSET Wavs]
         /\ txt' = txt
<1> USE DEF WriteFails, Excuse
<1>1. /\ excused' \in [Recordings -> SUBSET Wavs]
      /\ excused[f] \subseteq excused'[f] /\ File(f) \in excused'[f]
      /\ \A g \in Recordings \ {f} : excused'[g] = excused[g]
  BY DEF BatchInv, BatchTypeOK
<1>2. Stage(f)' /\ Account(f)'
  BY <1>1, NextKept
<1> QED
  BY <1>1, <1>2, NextFacts DEF BatchInv

(* A json that is cut off did not exist before.                             *)
LEMMA CutOffKept ==
  ASSUME BatchInv, NEW f \in Recordings, json[File(f)] = "none", CutOff(f)
  PROVE  /\ json' \in [Wavs -> Contents]
         /\ \A x \in Wavs : json[x] # "none" => json'[x] = json[x]
BY DEF CutOff, BatchInv, BatchTypeOK, Contents

(* The artifacts: a file that exists is left alone.                         *)
LEMMA SaveTxtKept ==
  ASSUME BatchInv, NEW f \in Recordings, SaveTxt(f)
  PROVE  /\ BatchInv'
         /\ UNCHANGED json
         /\ \A x \in Wavs : txt[x] # "none" => txt'[x] = txt[x]
<1> USE DEF SaveTxt, timerVars
<1>1. /\ UNCHANGED <<wavs, scanned, text, json>> /\ InProgress(f)
      /\ batch[f].pc = "saveTxt" /\ "saveJson" \in Pcs /\ turn = f
  BY DEF InProgress, sessionVars, diskVars, WriteFails, Pcs
<1>2. File(f) \in Wavs
  BY <1>1, FileType, BegunFacts DEF BatchInv, BatchTypeOK, Stage, SessionTypeOK
<1>3. batch[f].heard \in {"partial", "full"}
  BY <1>1, BegunFacts DEF Stage
<1>4. ASSUME Move(f, "saveJson"), UNCHANGED excused,
             txt' = [txt EXCEPT ![File(f)] = IF @ = "none" THEN batch[f].heard ELSE @]
      PROVE  /\ Stage(f)' /\ Account(f)' /\ batch' \in [Recordings -> Batches]
             /\ \A g \in Recordings \ {f} : batch'[g] = batch[g]
             /\ txt' \in [Wavs -> Contents \ {"torn"}]
             /\ \A x \in Wavs : txt[x] # "none" => txt'[x] = txt[x]
  <2>1. /\ txt' \in [Wavs -> Contents \ {"torn"}]
        /\ \A x \in Wavs : txt[x] # "none" => txt'[x] = txt[x]
        /\ txt'[File(f)] # "none"
    BY <1>2, <1>3, <1>4 DEF BatchInv, BatchTypeOK, Contents
  <2>2. File(f)' = File(f)
    BY <1>1, <1>4, MoveFacts, FileStays DEF sessionVars, diskVars, BatchInv
  <2>3. Stage(f)'
    BY <1>1, <1>3, <1>4, <2>1, <2>2, MoveFacts, BegunFacts DEF Stage
  <2>4. Account(f)'
    BY <1>1, <1>4, <2>1, MoveFacts, BegunFacts DEF Account, InProgress, BatchInv,
       BatchTypeOK
  <2> QED
    BY <1>1, <1>4, <2>1, <2>3, <2>4, MoveFacts DEF BatchInv
<1>5. ASSUME WriteFails(f)
      PROVE  /\ Stage(f)' /\ Account(f)' /\ batch' \in [Recordings -> Batches]
             /\ \A g \in Recordings \ {f} : batch'[g] = batch[g] /\ excused'[g] = excused[g]
             /\ excused' \in [Recordings -> SUBSET Wavs]
             /\ txt' = txt
  BY <1>1, <1>2, <1>5, WriteFailsKept
<1>6. BatchTypeOK'
  <2>1. SessionTypeOK'
    BY SessionKept
  <2> QED
    BY <1>1, <1>4, <1>5, <2>1 DEF BatchInv, BatchTypeOK, Batches, Pcs, Wavs
<1>7. \A x \in Wavs : txt[x] # "none" => txt'[x] = txt[x]
  BY <1>4, <1>5
<1>8. TranscriptPathExists'
  BY <1>1, <1>7, TranscriptsKept DEF sessionVars, rowVars
<1>9. BatchInv'
  BY <1>1, <1>4, <1>5, <1>6, <1>7, <1>8, BegunFacts, StepKept
<1> QED
  BY <1>1, <1>7, <1>9

LEMMA SaveJsonKept ==
  ASSUME BatchInv, NEW f \in Recordings, SaveJson(f)
  PROVE  /\ BatchInv'
         /\ UNCHANGED txt
         /\ \A x \in Wavs : json[x] # "none" => json'[x] = json[x]
<1> USE DEF SaveJson, timerVars
<1>1. /\ UNCHANGED <<wavs, scanned, text, txt>> /\ InProgress(f)
      /\ batch[f].pc = "saveJson" /\ "updateRow" \in Pcs /\ turn = f
  BY DEF InProgress, sessionVars, diskVars, WriteFails, Pcs
<1>2. File(f) \in Wavs
  BY <1>1, FileType, BegunFacts DEF BatchInv, BatchTypeOK, Stage, SessionTypeOK
<1>3. batch[f].heard \in {"partial", "full"} /\ txt[File(f)] # "none"
  BY <1>1, BegunFacts DEF Stage
<1>4. ASSUME Move(f, "updateRow"),
             json' = [json EXCEPT ![File(f)] = IF WritesJson(f) THEN batch[f].heard ELSE @],
             IF batch[f].segments THEN UNCHANGED excused ELSE Excuse(f)
      PROVE  /\ Stage(f)' /\ Account(f)' /\ batch' \in [Recordings -> Batches]
             /\ \A g \in Recordings \ {f} : batch'[g] = batch[g] /\ excused'[g] = excused[g]
             /\ excused' \in [Recordings -> SUBSET Wavs]
             /\ json' \in [Wavs -> Contents]
             /\ \A x \in Wavs : json[x] # "none" => json'[x] = json[x]
  <2>1. /\ json' \in [Wavs -> Contents]
        /\ \A x \in Wavs : json[x] # "none" => json'[x] = json[x]
        /\ batch[f].segments => json'[File(f)] # "none"
    BY <1>1, <1>2, <1>3, <1>4 DEF BatchInv, BatchTypeOK, Contents, WritesJson
  <2>2. /\ excused' \in [Recordings -> SUBSET Wavs]
        /\ excused[f] \subseteq excused'[f]
        /\ ~batch[f].segments => File(f) \in excused'[f]
        /\ \A g \in Recordings \ {f} : excused'[g] = excused[g]
    <3>1. CASE batch[f].segments
      BY <1>4, <3>1 DEF BatchInv, BatchTypeOK
    <3>2. CASE ~batch[f].segments
      <4>1. excused \in [Recordings -> SUBSET Wavs]
        BY DEF BatchInv, BatchTypeOK
      <4> QED
        BY <1>2, <1>4, <3>2, <4>1 DEF Excuse
    <3> QED
      BY <3>1, <3>2
  <2>3. File(f)' = File(f)
    BY <1>1, <1>4, MoveFacts, FileStays DEF sessionVars, diskVars, BatchInv
  <2>4. Stage(f)'
    BY <1>1, <1>3, <1>4, <2>1, <2>2, <2>3, MoveFacts, BegunFacts DEF Stage
  <2>5. Account(f)'
    BY <1>1, <1>4, <2>1, <2>2, MoveFacts, BegunFacts DEF Account, InProgress,
       BatchInv, BatchTypeOK
  <2> QED
    BY <1>1, <1>4, <2>1, <2>2, <2>4, <2>5, MoveFacts DEF BatchInv
<1>5. ASSUME WritesJson(f), WriteFails(f), CutOff(f)
      PROVE  /\ Stage(f)' /\ Account(f)' /\ batch' \in [Recordings -> Batches]
             /\ \A g \in Recordings \ {f} : batch'[g] = batch[g] /\ excused'[g] = excused[g]
             /\ excused' \in [Recordings -> SUBSET Wavs]
             /\ json' \in [Wavs -> Contents]
             /\ \A x \in Wavs : json[x] # "none" => json'[x] = json[x]
  <2>1. /\ json' \in [Wavs -> Contents]
        /\ \A x \in Wavs : json[x] # "none" => json'[x] = json[x]
    BY <1>5, CutOffKept DEF WritesJson
  <2> QED
    BY <1>1, <1>2, <1>5, <2>1, WriteFailsKept
<1>6. BatchTypeOK'
  <2>1. SessionTypeOK'
    BY SessionKept
  <2> QED
    BY <1>1, <1>4, <1>5, <2>1 DEF BatchInv, BatchTypeOK, Batches, Pcs, Wavs
<1>7. \A x \in Wavs : json[x] # "none" => json'[x] = json[x]
  BY <1>4, <1>5
<1>8. TranscriptPathExists'
  BY <1>1, TranscriptsKept DEF sessionVars, rowVars
<1>9. BatchInv'
  BY <1>1, <1>4, <1>5, <1>6, <1>7, <1>8, BegunFacts, StepKept
<1> QED
  BY <1>1, <1>7, <1>9

(* The row that is updated names the wav whose txt has just been saved.     *)
LEMMA UpdateRowKept ==
  ASSUME BatchInv, NEW f \in Recordings, UpdateRow(f)
  PROVE  BatchInv'
<1> USE DEF UpdateRow, timerVars, ghostVars
<1>1. /\ UNCHANGED <<wavs, scanned, excused, txt, json>> /\ InProgress(f)
      /\ batch[f].pc = "updateRow" /\ turn = f /\ turn' = f
  BY DEF InProgress, sessionVars, diskVars
<1>2. File(f) \in Wavs
  BY <1>1, FileType, BegunFacts DEF BatchInv, BatchTypeOK, Stage, SessionTypeOK
<1>3. txt[File(f)] # "none" /\ (json[File(f)] # "none" \/ File(f) \in excused[f])
  BY <1>1, BegunFacts DEF Stage
<1>4. Stage(f)' /\ Account(f)'
  BY <1>1, <1>3, NextKept
<1> DEFINE rows == {i \in DOMAIN rowOrder : Names(rowOrder[i], File(f))}
           g == rowOrder[Latest(rows)]
<1>5. CASE rows = {}
  <2>1. UNCHANGED <<text, saved>>
    BY <1>5
  <2>2. BatchTypeOK'
    BY <1>1, <2>1, NextFacts, SessionKept DEF BatchInv, BatchTypeOK, Batches, Pcs, Wavs
  <2>3. TranscriptPathExists'
    BY <1>1, <2>1, TranscriptsKept DEF sessionVars, rowVars
  <2> QED
    BY <1>1, <1>4, <2>2, <2>3, BegunFacts, NextFacts, StepKept
<1>6. CASE rows # {}
  <2>1. text' = [text EXCEPT ![g] = batch[f].heard]
        /\ saved' = {h \in Recordings : HasRow(h)}
    BY <1>6
  <2>2. g \in Recordings /\ Names(g, File(f))
    <3>1. rowOrder \in Seq(Recordings) /\ rows \in SUBSET DOMAIN rowOrder
      BY DEF BatchInv, BatchTypeOK, SessionTypeOK
    <3>2. Latest(rows) \in rows
      <4> HIDE DEF rows
      <4> QED
        BY <1>6, <3>1, LatestIsLast
    <3> QED
      BY <3>1, <3>2
  <2> HIDE DEF g, rows
  <2>3. HasRow(g)
    BY <1>2, <2>2, NoRow, RecordingNone DEF Names, HasRow, BatchInv, FilesInv, Wavs
  <2>4. BatchTypeOK'
    BY <1>1, <2>1, <2>2, NextFacts, SessionKept, BegunFacts
       DEF BatchInv, BatchTypeOK, Batches, Pcs, Wavs
  <2>5. TranscriptPathExists'
    <3> SUFFICES ASSUME NEW h \in Recordings, text'[h] # "none"
                 PROVE  /\ HasRow(h)
                        /\ \E x \in Wavs : Names(h, x) /\ txt[x] # "none"
      BY <1>1 DEF TranscriptPathExists, sessionVars, rowVars, HasRow, Names, Wavs
    <3>1. CASE h = g
      BY <1>2, <1>3, <2>2, <2>3, <3>1
    <3>2. CASE h # g
      <4>1. text[h] # "none"
        BY <2>1, <2>2, <3>2 DEF BatchInv, BatchTypeOK
      <4> QED
        BY <4>1 DEF BatchInv, TranscriptPathExists
    <3> QED
      BY <3>1, <3>2
  <2> QED
    BY <1>1, <1>4, <2>4, <2>5, BegunFacts, NextFacts, StepKept
<1> QED
  BY <1>5, <1>6

(* A timer that runs out starts the one batch that bears its name.          *)
LEMMA TickKept ==
  ASSUME BatchInv, NEW f \in Recordings, Tick(f)
  PROVE  BatchInv'
<1> USE DEF Tick, artifactVars
<1> DEFINE w == owner[f]
           left == IF w = None THEN 0 ELSE countdown[w] - 1
<1>1. /\ turn = None /\ f \in liveTimers /\ batch[f].pc = "none"
      /\ f \notin Waiting /\ place[f] # None /\ f \notin Active
      /\ scanned[f] = {} /\ w \in Windows \union {None}
      /\ UNCHANGED <<wavs, excused, stopTasks, txt, json, text>>
  BY DEF MainFree, BatchInv, OnceInv, Account, InProgress, BatchTypeOK,
     sessionVars, diskVars
<1>2. countdown' \in [Windows -> Int]
  <2>1. CASE w = None
    BY <2>1 DEF BatchInv, BatchTypeOK
  <2>2. CASE w # None
    BY <1>1, <2>2 DEF BatchInv, BatchTypeOK
  <2> QED
    BY <2>1, <2>2
<1>3. TranscriptPathExists'
  BY <1>1, TranscriptsKept DEF sessionVars, rowVars
<1>4. SessionInv' /\ SessionTypeOK' /\ FilesInv'
  BY SessionKept
<1>5. CASE left <= 0
  <2>1. liveTimers' = liveTimers \ {f} /\ StartBatch(f)
    BY <1>5
  <2>2. /\ batch' \in [Recordings -> Batches]
        /\ batch'[f].pc = "next" /\ batch'[f].todo \subseteq wavs
        /\ \A g \in Recordings \ {f} : batch'[g] = batch[g] /\ scanned'[g] = scanned[g]
        /\ scanned' \in [Recordings -> SUBSET Wavs]
        /\ \A x \in scanned'[f] :
             x \in batch'[f].todo \/ (txt[x] # "none" /\ json[x] # "none")
    <3>1. wavs \in SUBSET Wavs /\ Here \subseteq wavs
      BY DEF BatchInv, BatchTypeOK, SessionTypeOK, Here
    <3>2. ASSUME NEW r \in Batches, batch' = [batch EXCEPT ![f] = r]
          PROVE  /\ batch' \in [Recordings -> Batches] /\ batch'[f] = r
                 /\ \A g \in Recordings \ {f} : batch'[g] = batch[g]
      BY <3>2 DEF BatchInv
    <3>3. CASE /\ scanned' = [scanned EXCEPT ![f] = Here]
               /\ batch' = [batch EXCEPT ![f] = [NoBatch EXCEPT !.pc = "next",
                             !.todo = {x \in Here : NeedsTranscription(x)}]]
      <4> DEFINE X == {x \in Here : NeedsTranscription(x)}
                 r == [NoBatch EXCEPT !.pc = "next", !.todo = X]
      <4>1. X \in SUBSET wavs /\ X \in SUBSET Wavs
        BY <3>1
      <4>2. /\ scanned' \in [Recordings -> SUBSET Wavs] /\ scanned'[f] = Here
            /\ \A g \in Recordings \ {f} : scanned'[g] = scanned[g]
        BY <3>1, <3>3 DEF BatchInv, BatchTypeOK
      <4>3. \A x \in Here : x \in X \/ (txt[x] # "none" /\ json[x] # "none")
        BY DEF NeedsTranscription
      <4>4. r \in Batches /\ r.pc = "next" /\ r.todo = X
        <5> HIDE DEF X
        <5> QED
          BY <4>1 DEF Batches, Pcs, Contents, NoBatch
      <4>5. batch' = [batch EXCEPT ![f] = r]
        BY <3>3
      <4> HIDE DEF X, r
      <4>6. /\ batch' \in [Recordings -> Batches] /\ batch'[f] = r
            /\ \A g \in Recordings \ {f} : batch'[g] = batch[g]
        BY <3>2, <4>4, <4>5
      <4> QED
        BY <1>1, <4>1, <4>2, <4>3, <4>4, <4>6
    <3>4. CASE /\ batch' = [batch EXCEPT ![f] = [NoBatch EXCEPT !.pc = "next"]]
               /\ UNCHANGED scanned
      <4> DEFINE r == [NoBatch EXCEPT !.pc = "next"]
      <4>1. scanned' \in [Recordings -> SUBSET Wavs] /\ scanned'[f] = {}
        BY <1>1, <3>4 DEF BatchInv, BatchTypeOK
      <4>2. r \in Batches /\ r.pc = "next" /\ r.todo = {}
        BY DEF Batches, Pcs, Contents, NoBatch
      <4>3. batch' = [batch EXCEPT ![f] = r]
        BY <3>4
      <4> HIDE DEF r
      <4>4. /\ batch' \in [Recordings -> Batches] /\ batch'[f] = r
            /\ \A g \in Recordings \ {f} : batch'[g] = batch[g]
        BY <3>2, <4>2, <4>3
      <4> QED
        BY <3>4, <4>1, <4>2, <4>4
    <3> QED
      BY <2>1, <3>3, <3>4 DEF StartBatch
  <2>3. turn' = f
    BY <2>1 DEF StartBatch
  <2>4. Stage(f)' /\ Account(f)'
    BY <1>1, <2>2, <2>3 DEF Stage, Account, InProgress
  <2>5. BatchTypeOK'
    BY <1>1, <1>2, <1>4, <2>1, <2>2, <2>3 DEF BatchInv, BatchTypeOK, Batches, Pcs, Wavs
  <2> QED
    BY <1>1, <1>3, <2>1, <2>2, <2>4, <2>5, StepKept
<1>6. CASE ~(left <= 0)
  <2>1. UNCHANGED <<liveTimers, batch, turn, scanned>>
    BY <1>6
  <2>2. BatchTypeOK' /\ (batch \in [Recordings -> Batches])'
    BY <1>1, <1>2, <1>4, <2>1 DEF BatchInv, BatchTypeOK, Wavs
  <2>3. OnceInv'
    BY <1>1, <2>1 DEF OnceInv, DistinctTasks, Waiting, BatchInv, sessionVars,
       managerVars, diskVars, Active
  <2>4. \A g \in Recordings : Stage(g)' /\ Account(g)'
    BY <1>1, <2>1, StagesKept DEF MainFree, ghostVars
  <2> QED
    BY <1>3, <1>4, <2>2, <2>3, <2>4 DEF BatchInv
<1> QED
  BY <1>5, <1>6

-----------------------------------------------------------------------------
(* Windows come and go, the clock goes on, the directory changes.           *)
LEMMA OpenOrChangeKept ==
  ASSUME BatchInv,
         \/ \E w \in Windows : OpenContentView(w)
         \/ \E w \in Windows : ShowDuration(w)
         \/ \E d \in Dirs : ChangeRecordingsDirectory(d)
  PROVE  BatchInv'
<1> USE DEF OpenContentView, ShowDuration, ChangeRecordingsDirectory, OpenWindow,
            ChangeDirectory, batchVars, timerVars, artifactVars
<1>1. /\ MainFree /\ UNCHANGED batchVars /\ [SessionNext]_sessionVars
      /\ UNCHANGED <<recording, place, wavs, rowProcess, rowMic>>
  BY DEF SessionNext, DurationTick, UpdateDuration, managerVars, diskVars, rowVars
<1>2. SessionInv' /\ SessionTypeOK' /\ FilesInv'
  BY <1>1, SessionKept
<1>3. BatchTypeOK' /\ (batch \in [Recordings -> Batches])'
  BY <1>1, <1>2 DEF BatchInv, BatchTypeOK, ghostVars, Wavs
<1>4. OnceInv'
  BY <1>1 DEF OnceInv, DistinctTasks, Waiting, BatchInv, Active
<1>5. \A g \in Recordings : Stage(g)' /\ Account(g)'
  BY <1>1, StagesKept
<1>6. TranscriptPathExists'
  BY <1>1, TranscriptsKept
<1> QED
  BY <1>2, <1>3, <1>4, <1>5, <1>6 DEF BatchInv

LEMMA CloseContentViewKept ==
  ASSUME BatchInv, NEW w \in Windows, CloseContentView(w)
  PROVE  BatchInv'
<1> USE DEF CloseContentView, artifactVars
<1>1. SessionInv' /\ SessionTypeOK' /\ FilesInv'
  BY SessionKept DEF SessionNext
<1>2. BatchTypeOK' /\ (batch \in [Recordings -> Batches])'
  <2>1. liveTimers' \subseteq Recordings /\ isTranscribing' \subseteq Windows
    BY DEF BatchInv, BatchTypeOK
  <2>2. owner' \in [Recordings -> Windows \union {None}]
    BY DEF BatchInv, BatchTypeOK
  <2>3. countdown' \in [Windows -> Int]
        /\ storedTimer' \in [Windows -> Recordings \union {None}]
    BY DEF BatchInv, BatchTypeOK
  <2> QED
    BY <1>1, <2>1, <2>2, <2>3 DEF BatchInv, BatchTypeOK, ghostVars, Wavs
<1>3. OnceInv'
  <2>1. Active' \subseteq Active /\ UNCHANGED place /\ liveTimers' \subseteq liveTimers
    BY DEF CloseWindow, ResetManager, Active, BatchInv, BatchTypeOK, SessionTypeOK
  <2> QED
    BY <2>1 DEF OnceInv, DistinctTasks, Waiting, BatchInv
<1>4. \A g \in Recordings : Stage(g)' /\ Account(g)'
  BY StagesKept DEF CloseWindow
<1>5. TranscriptPathExists'
  BY TranscriptsKept DEF CloseWindow, rowVars
<1> QED
  BY <1>1, <1>2, <1>3, <1>4, <1>5 DEF BatchInv

(* A crash loses rows together with their texts; no artifact goes.          *)
LEMMA CrashKept ==
  ASSUME BatchInv, Crash
  PROVE  /\ BatchInv'
         /\ UNCHANGED txt
         /\ \A x \in Wavs : json[x] # "none" => json'[x] = json[x]
<1>1. PICK lost \in SUBSET ({f \in Recordings : HasRow(f)} \ saved) :
        /\ Die(lost)
        /\ text' = [f \in Recordings |-> IF f \in lost THEN "none" ELSE text[f]]
  BY DEF Crash
<1>2. /\ stopTasks' = <<>> /\ isTranscribing' = {} /\ liveTimers' = {}
      /\ owner' = [f \in Recordings |-> None]
      /\ countdown' = [w \in Windows |-> 0]
      /\ storedTimer' = [w \in Windows |-> None]
      /\ batch' = [f \in Recordings |-> NoBatch]
      /\ turn' = None
      /\ scanned' = [f \in Recordings |-> {}]
      /\ excused' = [f \in Recordings |-> {}]
      /\ UNCHANGED <<txt, saved>>
  BY DEF Crash
<1>3. lost \in SUBSET {f \in Recordings : HasRow(f)}
  OBVIOUS
<1>4. SessionInv' /\ SessionTypeOK' /\ FilesInv'
  BY <1>1, <1>3, SessionKept DEF SessionNext
<1>5. /\ json' \in [Wavs -> Contents]
      /\ \A x \in Wavs : json[x] # "none" => json'[x] = json[x]
  <2>1. json \in [Wavs -> Contents]
    BY DEF BatchInv, BatchTypeOK
  <2>2. CASE json' = json
    BY <2>1, <2>2
  <2>3. CASE turn # None /\ WritesJson(turn) /\ CutOff(turn)
    <3>1. turn \in Recordings
      BY <2>3 DEF BatchInv, BatchTypeOK
    <3> QED
      BY <2>3, <3>1, CutOffKept DEF WritesJson
  <2> QED
    BY <2>2, <2>3 DEF Crash
<1>6. NoBatch \in Batches
  BY DEF NoBatch, Batches, Pcs, Contents
<1>7. BatchTypeOK' /\ (batch \in [Recordings -> Batches])'
  <2>1. batch' \in [Recordings -> Batches]
    BY <1>2, <1>6
  <2>2. text' \in [Recordings -> Contents]
    BY <1>1 DEF BatchInv, BatchTypeOK, Contents
  <2> QED
    BY <1>2, <1>4, <1>5, <2>1, <2>2 DEF BatchInv, BatchTypeOK, Batches, Pcs, Wavs
<1>8. OnceInv'
  <2>1. DOMAIN stopTasks' = {}
    BY <1>2
  <2> QED
    BY <1>2, <2>1 DEF OnceInv, DistinctTasks, Waiting, NoBatch
<1>9. \A g \in Recordings : Stage(g)' /\ Account(g)'
  BY <1>2 DEF Stage, Account, InProgress, NoBatch
<1>10. TranscriptPathExists'
  <2> SUFFICES ASSUME NEW h \in Recordings, text'[h] # "none"
               PROVE  /\ HasRow(h)'
                      /\ \E x \in Wavs : Names(h, x)' /\ txt[x] # "none"
    BY <1>2 DEF TranscriptPathExists, Wavs
  <2>1. h \notin lost /\ text[h] # "none"
    BY <1>1
  <2>2. rowProcess'[h] = rowProcess[h] /\ rowMic'[h] = rowMic[h]
    BY <1>1, <2>1 DEF Die
  <2> QED
    BY <2>1, <2>2 DEF BatchInv, TranscriptPathExists, HasRow, Names
<1> QED
  BY <1>2, <1>4, <1>5, <1>7, <1>8, <1>9, <1>10 DEF BatchInv

-----------------------------------------------------------------------------
(* Every step preserves the invariant, and no artifact is replaced.         *)
Kept(artifact, artifactNext) ==
  \A x \in Wavs : artifact[x] # "none" => artifactNext[x] = artifact[x]

LEMMA BatchStepKept ==
  ASSUME BatchInv, NEW f \in Recordings, BatchStep(f)
  PROVE  BatchInv' /\ Kept(txt, txt') /\ Kept(json, json')
<1> USE DEF Kept
<1>1. CASE SkipFile(f)
  BY <1>1, SkipFileKept DEF SkipFile, artifactVars
<1>2. CASE SubmitFile(f)
  BY <1>2, SubmitFileKept DEF SubmitFile, artifactVars
<1>3. CASE EndBatch(f)
  BY <1>3, EndBatchKept DEF EndBatch, artifactVars
<1>4. CASE Whisper(f)
  BY <1>4, WhisperKept DEF Whisper, artifactVars
<1>5. CASE Resume(f)
  BY <1>5, ResumeKept DEF Resume, artifactVars
<1>6. CASE SaveTxt(f)
  BY <1>6, SaveTxtKept
<1>7. CASE SaveJson(f)
  BY <1>7, SaveJsonKept
<1>8. CASE UpdateRow(f)
  BY <1>8, UpdateRowKept DEF UpdateRow
<1> QED
  BY <1>1, <1>2, <1>3, <1>4, <1>5, <1>6, <1>7, <1>8 DEF BatchStep

LEMMA BatchInvKept ==
  ASSUME BatchInv, [Next]_vars
  PROVE  BatchInv' /\ Kept(txt, txt') /\ Kept(json, json')
<1>1. ASSUME NEW w \in Windows, NEW f \in Recordings, ClickStart(w, f)
      PROVE  BatchInv' /\ UNCHANGED <<txt, json>>
  BY <1>1, ClickStartKept DEF ClickStart, batchVars, artifactVars
<1>2. ASSUME NEW w \in Windows, ClickStop(w)
      PROVE  BatchInv' /\ UNCHANGED <<txt, json>>
  BY <1>2, ClickStopKept DEF ClickStop, artifactVars
<1>3. ASSUME NEW w \in Windows, OpenContentView(w)
      PROVE  BatchInv' /\ UNCHANGED <<txt, json>>
  BY <1>3, OpenOrChangeKept DEF OpenContentView, batchVars, artifactVars
<1>4. ASSUME NEW w \in Windows, CloseContentView(w)
      PROVE  BatchInv' /\ UNCHANGED <<txt, json>>
  BY <1>4, CloseContentViewKept DEF CloseContentView, artifactVars
<1>5. ASSUME NEW d \in Dirs, ChangeRecordingsDirectory(d)
      PROVE  BatchInv' /\ UNCHANGED <<txt, json>>
  BY <1>5, OpenOrChangeKept DEF ChangeRecordingsDirectory, batchVars, artifactVars
<1>6. ASSUME NEW f \in Recordings, RunStopTask(f)
      PROVE  BatchInv' /\ UNCHANGED <<txt, json>>
  BY <1>6, RunStopTaskKept DEF RunStopTask, artifactVars
<1>7. ASSUME NEW f \in Recordings, Tick(f)
      PROVE  BatchInv' /\ UNCHANGED <<txt, json>>
  BY <1>7, TickKept DEF Tick, artifactVars
<1>8. ASSUME NEW f \in Recordings, BatchStep(f)
      PROVE  BatchInv' /\ Kept(txt, txt') /\ Kept(json, json')
  BY <1>8, BatchStepKept
<1>9. CASE Crash
  BY <1>9, CrashKept DEF Kept
<1>10. ASSUME NEW w \in Windows, ShowDuration(w)
      PROVE  BatchInv' /\ UNCHANGED <<txt, json>>
  BY <1>10, OpenOrChangeKept DEF ShowDuration, batchVars, artifactVars
<1>11. CASE UNCHANGED vars
  <2>1. UNCHANGED sessionVars /\ UNCHANGED batchVars
    BY <1>11 DEF vars
  <2>2. SessionInv' /\ SessionTypeOK' /\ FilesInv'
    BY <2>1, SessionKept
  <2>3. /\ UNCHANGED <<timerVars, batch, turn, artifactVars, ghostVars>>
        /\ UNCHANGED <<txt, json, text, saved, scanned, excused, stopTasks, owner,
                       isTranscribing, countdown, liveTimers, storedTimer>>
        /\ UNCHANGED <<recording, place, wavs, born, rowProcess, rowMic>>
    BY <2>1 DEF batchVars, timerVars, artifactVars, ghostVars, sessionVars,
       managerVars, diskVars, rowVars
  <2>4. BatchTypeOK' /\ (batch \in [Recordings -> Batches])'
    BY <2>2, <2>3 DEF BatchInv, BatchTypeOK, Wavs
  <2>5. OnceInv'
    BY <2>3 DEF OnceInv, DistinctTasks, Waiting, BatchInv, Active
  <2>6. \A g \in Recordings : Stage(g)' /\ Account(g)'
    <3> SUFFICES ASSUME NEW g \in Recordings
                 PROVE  Stage(g)' /\ Account(g)'
      OBVIOUS
    <3>1. File(g)' = File(g)
      BY <2>3, FileStays
    <3>2. Stage(g) /\ Account(g)
      BY DEF BatchInv
    <3> QED
      BY <2>3, <3>1, <3>2 DEF Stage, Account, InProgress
  <2>7. TranscriptPathExists'
    BY <2>3, TranscriptsKept
  <2> QED
    BY <2>2, <2>3, <2>4, <2>5, <2>6, <2>7 DEF BatchInv, Kept
<1> QED
  BY <1>1, <1>2, <1>3, <1>4, <1>5, <1>6, <1>7, <1>8, <1>9, <1>10, <1>11,
     ClocksOfWindows DEF Next, Kept

(* A step that ends a batch is its EndBatch: every file that was found is   *)
(* excused or complete.                                                     *)
LEMMA DoneComplete ==
  ASSUME BatchInv, [Next]_vars, NEW f \in Recordings, InProgress(f),
         batch'[f].pc = "done", NEW x \in scanned[f] \ excused[f]
  PROVE  txt'[x] # "none" /\ json'[x] # "none"
<1>1. batch \in [Recordings -> Batches] /\ batch[f].pc \notin {"none", "done"}
  BY DEF BatchInv, InProgress
<1>2. Account(f)
  BY DEF BatchInv
<1>3. Kept(txt, txt') /\ Kept(json, json') /\ scanned[f] \subseteq Wavs
  BY BatchInvKept DEF BatchInv, BatchTypeOK
<1>4. ASSUME NEW g \in Recordings, BatchStep(g)
      PROVE  batch[f].todo = {}
  <2>1. ASSUME NEW pc \in Pcs \ {"done"}, Move(g, pc)
        PROVE  FALSE
    BY <1>1, <2>1, MoveFacts
  <2>2. ASSUME NextInTurn(g)
        PROVE  FALSE
    BY <1>1, <2>2, NextFacts
  <2>3. ~SkipFile(g) /\ ~UpdateRow(g)
    BY <2>2 DEF SkipFile, UpdateRow
  <2>4. ~SubmitFile(g) /\ ~Resume(g)
    BY <2>1, <2>2 DEF SubmitFile, Resume, Pcs
  <2>5. ~SaveTxt(g) /\ ~SaveJson(g)
    BY <2>1, <2>2 DEF SaveTxt, SaveJson, WriteFails, Pcs
  <2>6. ~Whisper(g)
    <3>1. ASSUME NEW segments \in BOOLEAN,
                 batch' = [batch EXCEPT
                   ![g].pc = "heard", ![g].segments = segments,
                   ![g].heard = IF File(g)[1] \in finished THEN "full" ELSE "partial"]
          PROVE  FALSE
      <4>1. CASE g = f
        BY <1>1, <3>1, <4>1 DEF Batches
      <4>2. CASE g # f
        BY <1>1, <3>1, <4>2
      <4> QED
        BY <4>1, <4>2
    <3> QED
      BY <2>1, <3>1 DEF Whisper, Pcs
  <2>7. CASE EndBatch(g)
    BY <1>1, <2>7, MoveFacts DEF EndBatch, Pcs
  <2> QED
    BY <1>4, <2>3, <2>4, <2>5, <2>6, <2>7 DEF BatchStep
<1>5. ASSUME NEW g \in Recordings, Tick(g)
      PROVE  FALSE
  <2>1. CASE UNCHANGED batch
    BY <1>1, <2>1
  <2>2. CASE StartBatch(g)
    <3> DEFINE X == {y \in Here : NeedsTranscription(y)}
               r == [NoBatch EXCEPT !.pc = "next", !.todo = X]
               s == [NoBatch EXCEPT !.pc = "next"]
    <3>1. batch' = [batch EXCEPT ![g] = r] \/ batch' = [batch EXCEPT ![g] = s]
      BY <2>2 DEF StartBatch
    <3>2. r.pc = "next" /\ s.pc = "next"
      <4> HIDE DEF X
      <4> QED
        BY DEF NoBatch
    <3> HIDE DEF X, r, s
    <3> QED
      BY <1>1, <3>1, <3>2
  <2> QED
    BY <1>5, <2>1, <2>2 DEF Tick
<1>6. ~Crash
  BY DEF Crash, NoBatch
<1>7. ~UNCHANGED batch
  BY <1>1
<1>8. ASSUME NEW w \in Windows
      PROVE  /\ ~OpenContentView(w) /\ ~CloseContentView(w) /\ ~ClickStop(w)
             /\ ~ShowDuration(w)
             /\ \A g \in Recordings : ~ClickStart(w, g)
  BY <1>7 DEF OpenContentView, CloseContentView, ClickStop, ShowDuration, ClickStart,
     batchVars
<1>9. /\ \A d \in Dirs : ~ChangeRecordingsDirectory(d)
      /\ \A g \in Recordings : ~RunStopTask(g)
      /\ ~UNCHANGED vars
  BY <1>7 DEF ChangeRecordingsDirectory, RunStopTask, vars, batchVars
<1>10. batch[f].todo = {}
  BY <1>4, <1>5, <1>6, <1>8, <1>9, ClocksOfWindows DEF Next
<1> QED
  BY <1>2, <1>3, <1>10 DEF Account, Kept

-----------------------------------------------------------------------------
(* Every reachable state satisfies the invariant.                           *)
THEOREM BatchInductive == Spec => []BatchInv
<1>1. Init => BatchInv
  BY BatchInitHolds
<1>2. BatchInv /\ [Next]_vars => BatchInv'
  BY BatchInvKept
<1> QED
  BY <1>1, <1>2, PTL DEF Spec

(* The variables of the batch and of the session below it keep their types. *)
THEOREM BatchTypeCorrect == Spec => []BatchTypeOK
<1>1. BatchInv => BatchTypeOK
  BY DEF BatchInv
<1> QED
  BY <1>1, BatchInductive, PTL

(* A row with a transcript points to a transcript file, after a crash too.  *)
THEOREM TranscriptsExist == Spec => []TranscriptPathExists
<1>1. BatchInv => TranscriptPathExists
  BY DEF BatchInv
<1> QED
  BY <1>1, BatchInductive, PTL

(* No artifact is ever replaced, however many batches overlap.              *)
THEOREM ArtifactsOnce == Spec => ArtifactsWrittenOnce
<1>1. BatchInv /\ [Next]_vars =>
        [\A x \in Wavs : /\ txt[x] # "none" => txt'[x] = txt[x]
                         /\ json[x] # "none" => json'[x] = json[x]]_vars
  BY BatchInvKept DEF Kept
<1> QED
  BY <1>1, BatchInductive, PTL DEF Spec, ArtifactsWrittenOnce

(* A batch that ends has seen to every file it found.                       *)
THEOREM NothingUndone == Spec => BatchLeavesNothingUndone
<1>1. BatchInv /\ [Next]_vars =>
        [\A f \in Recordings : InProgress(f) /\ batch'[f].pc = "done" =>
           \A x \in scanned[f] \ excused[f] :
             txt'[x] # "none" /\ json'[x] # "none"]_vars
  BY DoneComplete
<1> QED
  BY <1>1, BatchInductive, PTL DEF Spec, BatchLeavesNothingUndone

-----------------------------------------------------------------------------
(* A call is resumed exactly when it has an outcome, and twice only when    *)
(* that has stopped the program.                                            *)
OutcomeInv ==
  \A c \in Calls : /\ resumes[c] = 0 <=> outcome[c] = "none"
                   /\ alive => resumes[c] <= 1

(* A timer exists only for a call that has come to its recognition; only   *)
(* such a call can be resumed twice.                                        *)
TimerInv ==
  \A c \in Calls :
    /\ timer[c] = "none" => timerStep[c] = "idle" /\ answerStep[c] = "idle"
                            /\ stage[c] # "recognizing" /\ resumes[c] <= 1
    /\ timer[c] # "none" => stage[c] \in {"recognizing", "ended"}

(* While the handler of the timer has not run, the callbacks have the call  *)
(* to themselves: the one that is on its way is the first to resume it, and *)
(* it has cancelled the timer before.                                       *)
AnswerInv ==
  \A c \in Calls :
    timer[c] # "none" /\ timerStep[c] = "idle" =>
      /\ answerStep[c] # "idle" => resumes[c] = 0
      /\ c \notin hasResumed => resumes[c] = 0 /\ answerStep[c] \in {"idle", "set"}
      /\ c \in hasResumed => answerStep[c] # "set"
      /\ timer[c] = "armed" => resumes[c] = 0 /\ answerStep[c] # "resume"
      /\ resumes[c] <= 1

EngineInv == EngineTypeOK /\ OutcomeInv /\ TimerInv /\ AnswerInv

Early == Stages \ {"recognizing", "ended"}

(* A call that goes on, or that ends before it has come to its recognition, *)
(* keeps the invariant.                                                     *)
LEMMA GoOnKept ==
  ASSUME EngineInv, NEW c \in Calls, NEW from \in Early, NEW next \in Early,
         GoOn(c, from, next)
  PROVE  EngineInv'
BY DEF EngineInv, EngineTypeOK, OutcomeInv, TimerInv, AnswerInv, Early, Stages, GoOn, Goto,
       Stay, requestVars, raceVars

LEMMA ResumeCallKept ==
  ASSUME EngineInv, NEW c \in Calls, NEW result \in {"error", "text"},
         stage[c] \in Early, ResumeCall(c, result),
         UNCHANGED <<requestVars, raceVars>>, audio' \in SUBSET Files
  PROVE  EngineInv'
<1>1. resumes[c] = 0 /\ timer[c] = "none"
  BY DEF EngineInv, EngineTypeOK, OutcomeInv, TimerInv, Early, Stages
<1> QED
  BY <1>1 DEF EngineInv, EngineTypeOK, OutcomeInv, TimerInv, AnswerInv, Early, Stages,
              ResumeCall, Goto, requestVars, raceVars

LEMMA ThrowsKept ==
  ASSUME EngineInv, NEW c \in Calls, NEW from \in Early,
         Throws(c, from) \/ Returns(c, from)
  PROVE  EngineInv'
<1>1. audio' \in SUBSET Files
  BY DEF Throws, Returns, EngineInv, EngineTypeOK
<1> QED
  BY <1>1, ResumeCallKept DEF Throws, Returns

(* Each action keeps the invariant.                                         *)
LEMMA EngineInvKept ==
  ASSUME EngineInv, [EngineNext]_engineVars
  PROVE  EngineInv'
<1> USE DEF Early, Stages
<1>1. ASSUME NEW c \in Calls, Submit(c) \/ AskPermission(c) \/ Upload(c)
      PROVE  EngineInv'
  BY <1>1, GoOnKept, ThrowsKept DEF Submit, AskPermission, Upload
<1>2. ASSUME NEW c \in Calls, CheckFile(c) \/ ReadFile(c)
      PROVE  EngineInv'
  BY <1>2, GoOnKept, ThrowsKept DEF CheckFile, ReadFile
<1>3. ASSUME NEW c \in Calls, ReadSize(c)
      PROVE  EngineInv'
  <2>1. CASE GoOn(c, "size", "permission")
    BY <2>1, GoOnKept
  <2>2. CASE ~GoOn(c, "size", "permission")
    <3>1. ~alive' /\ alive' \in BOOLEAN
      BY <1>3, <2>2, Zenon DEF ReadSize
    <3>2. UNCHANGED <<audio, file, service, stage, hasResumed, timer, timerStep,
                      answerStep, answer, resumes, outcome>>
      BY <1>3, <2>2 DEF ReadSize, requestVars, raceVars
    <3> QED
      BY <3>1, <3>2 DEF EngineInv, EngineTypeOK, OutcomeInv, TimerInv, AnswerInv
  <2> QED BY <2>1, <2>2
<1>4. ASSUME NEW c \in Calls, StartRecognition(c)
      PROVE  EngineInv'
  <2>1. CASE Throws(c, "recognizer")
    BY <2>1, ThrowsKept
  <2>2. CASE Recognize(c)
    <3>1. EngineTypeOK'
      BY <2>2 DEF Recognize, Goto, Stay, EngineInv, EngineTypeOK, requestVars
    <3>2. OutcomeInv'
      BY <2>2 DEF Recognize, Stay, EngineInv, OutcomeInv
    <3>3. TimerInv'
      BY <2>2 DEF Recognize, Goto, Stay, EngineInv, EngineTypeOK, TimerInv
    <3>4. resumes[c] = 0 /\ answerStep[c] = "idle"
      BY <2>2 DEF Recognize, EngineInv, EngineTypeOK, OutcomeInv, TimerInv
    <3>5. AnswerInv'
      BY <2>2, <3>4 DEF Recognize, Stay, EngineInv, EngineTypeOK, AnswerInv
    <3> QED BY <3>1, <3>2, <3>3, <3>5 DEF EngineInv
  <2> QED BY <1>4, <2>1, <2>2 DEF StartRecognition
<1>5. ASSUME NEW c \in Calls, FinishUpload(c)
      PROVE  EngineInv'
  <2>1. audio' \in SUBSET Files
    BY <1>5 DEF FinishUpload, RemoveConverted, EngineInv, EngineTypeOK
  <2> QED BY <1>5, <2>1, ResumeCallKept DEF FinishUpload
<1>6. ASSUME NEW c \in Calls, FindModel(c) \/ LoadModel(c) \/ RunWhisper(c)
      PROVE  EngineInv'
  BY <1>6, GoOnKept, ThrowsKept DEF FindModel, LoadModel, RunWhisper
<1>7. ASSUME NEW c \in Calls, TimerFires(c) \/ TimerSets(c) \/ TimerCancels(c)
      PROVE  EngineInv'
  BY <1>7 DEF TimerFires, TimerSets, TimerCancels, Stay, EngineInv, EngineTypeOK,
              OutcomeInv, TimerInv, AnswerInv, requestVars
<1>8. ASSUME NEW c \in Calls, TimerResumes(c), alive
      PROVE  EngineInv'
  <2>1. timer[c] # "none" /\ resumes[c] \in 0..1
    BY <1>8 DEF TimerResumes, EngineInv, EngineTypeOK, OutcomeInv, TimerInv
  <2>2. ASSUME resumes[c] = 0
        PROVE  EngineTypeOK' /\ OutcomeInv'
    BY <1>8, <2>1, <2>2 DEF TimerResumes, ResumeCall, Goto, EngineInv, EngineTypeOK, OutcomeInv,
                            Stages, requestVars
  <2>3. ASSUME resumes[c] # 0
        PROVE  EngineTypeOK' /\ OutcomeInv'
    <3>1. ~alive' /\ alive' \in BOOLEAN /\ UNCHANGED <<outcome, stage>>
      BY <1>8, <2>3, Zenon DEF TimerResumes, ResumeCall
    <3>2. resumes' = [resumes EXCEPT ![c] = @ + 1] /\ resumes[c] = 1
      BY <1>8, <2>1, <2>3 DEF TimerResumes, ResumeCall
    <3>3. EngineTypeOK'
      BY <1>8, <3>1, <3>2 DEF TimerResumes, EngineInv, EngineTypeOK, requestVars
    <3>4. OutcomeInv'
      BY <2>3, <3>1, <3>2 DEF EngineInv, EngineTypeOK, OutcomeInv
    <3> QED BY <3>3, <3>4
  <2>4. TimerInv'
    BY <1>8, <2>1, ZenonT(60) DEF TimerResumes, ResumeCall, Goto, EngineInv, EngineTypeOK, TimerInv
  <2>5. AnswerInv'
    BY <1>8, <2>1 DEF TimerResumes, ResumeCall, EngineInv, EngineTypeOK, AnswerInv
  <2> QED BY <2>1, <2>2, <2>3, <2>4, <2>5 DEF EngineInv
<1>9. ASSUME NEW c \in Calls, AnswerArrives(c) \/ AnswerSets(c) \/ AnswerCancels(c)
      PROVE  EngineInv'
  BY <1>9 DEF AnswerArrives, AnswerSets, AnswerCancels, Stay, EngineInv, EngineTypeOK,
              OutcomeInv, TimerInv, AnswerInv, requestVars
<1>10. ASSUME NEW c \in Calls, AnswerResumes(c), alive
       PROVE  EngineInv'
  <2>1. timer[c] # "none" /\ resumes[c] \in 0..1
    BY <1>10 DEF AnswerResumes, EngineInv, EngineTypeOK, OutcomeInv, TimerInv
  <2>2. ASSUME resumes[c] = 0
        PROVE  EngineTypeOK' /\ OutcomeInv'
    BY <1>10, <2>1, <2>2 DEF AnswerResumes, ResumeCall, Goto, EngineInv, EngineTypeOK, OutcomeInv,
                            Stages, requestVars
  <2>3. ASSUME resumes[c] # 0
        PROVE  EngineTypeOK' /\ OutcomeInv'
    <3>1. ~alive' /\ alive' \in BOOLEAN /\ UNCHANGED <<outcome, stage>>
      BY <1>10, <2>3, Zenon DEF AnswerResumes, ResumeCall
    <3>2. resumes' = [resumes EXCEPT ![c] = @ + 1] /\ resumes[c] = 1
      BY <1>10, <2>1, <2>3 DEF AnswerResumes, ResumeCall
    <3>3. EngineTypeOK'
      BY <1>10, <3>1, <3>2 DEF AnswerResumes, EngineInv, EngineTypeOK, requestVars
    <3>4. OutcomeInv'
      BY <2>3, <3>1, <3>2 DEF EngineInv, EngineTypeOK, OutcomeInv
    <3> QED BY <3>3, <3>4
  <2>4. TimerInv'
    BY <1>10, <2>1, ZenonT(60) DEF AnswerResumes, ResumeCall, Goto, EngineInv, EngineTypeOK, TimerInv
  <2>5. AnswerInv'
    BY <1>10, <2>1 DEF AnswerResumes, ResumeCall, EngineInv, EngineTypeOK, AnswerInv
  <2> QED BY <2>1, <2>2, <2>3, <2>4, <2>5 DEF EngineInv
<1>11. CASE UNCHANGED engineVars
  BY <1>11 DEF engineVars, EngineInv, EngineTypeOK, OutcomeInv, TimerInv, AnswerInv,
               requestVars, raceVars
<1> QED
  BY <1>1, <1>2, <1>3, <1>4, <1>5, <1>6, <1>7, <1>8, <1>9, <1>10, <1>11
  DEF EngineNext, Step, TimerHandler, AnswerHandler

(* What each call, its timer and its callbacks know of one another.         *)
THEOREM EngineInductive == EngineSpec => []EngineInv
<1>1. EngineInit => EngineInv
  BY DEF EngineInit, EngineInv, EngineTypeOK, OutcomeInv, TimerInv, AnswerInv, Stages, Services
<1>2. EngineInv /\ [EngineNext]_engineVars => EngineInv'
  BY EngineInvKept
<1> QED
  BY <1>1, <1>2, PTL DEF EngineSpec

(* The variables keep their types, and a call ends exactly when its caller  *)
(* gets an outcome.                                                         *)
THEOREM EngineTypeCorrect == EngineSpec => []EngineTypeOK
<1>1. EngineInv => EngineTypeOK
  BY DEF EngineInv
<1> QED
  BY <1>1, EngineInductive, PTL

(* The callbacks of the recognizer alone never resume a call twice.         *)
THEOREM AnswersAlone == EngineSpec => []AnswersAloneResumeOnce
<1>1. EngineInv => AnswersAloneResumeOnce
  <2> SUFFICES ASSUME EngineInv, NEW c \in Calls, timerStep[c] = "idle"
               PROVE  resumes[c] <= 1
    BY DEF AnswersAloneResumeOnce
  <2> QED
    BY DEF EngineInv, EngineTypeOK, TimerInv, AnswerInv
<1> QED
  BY <1>1, EngineInductive, PTL

(* An answer that ends a call has cancelled its timer.                      *)
THEOREM TimersReleased == EngineSpec => []TimerReleased
<1>1. EngineInv => TimerReleased
  BY DEF EngineInv, EngineTypeOK, AnswerInv, TimerReleased
<1> QED
  BY <1>1, EngineInductive, PTL

=============================================================================

------------------------ MODULE SegmentedStoreProofs ------------------------
(* What is on the disk of one session of the segmented store: no           *)
(* acknowledged batch leaves it, what is read is in order, and the store   *)
(* implements SessionLog, for any number of batches, any segment size and  *)
(* whatever fails or stops.                                                *)
EXTENDS SegmentedStore, SequenceTheorems, WellFoundedInduction, TLAPS

-----------------------------------------------------------------------------
(* The inductive invariant *)

Pieces == [batch : Batches, form : Form, first : BOOLEAN]
Saving == {"write", "replace", "syncDir"}
Steps == {"idle", "check", "remove", "attach", "syncMedium", "choose", "append", "syncFile"}
            \cup Saving

FilesTyped ==
    /\ manifest \in {Absent} \cup Segments /\ durable \in {Absent} \cup Segments
    /\ tmp \in {Absent, Torn} \cup Segments
    /\ segment \in [Segments -> Seq(Pieces)]
    /\ synced \in [Segments -> Nat]
    /\ \A i \in Segments : synced[i] <= Len(segment[i])
    /\ media \in [Batches -> {"none", "torn", "written", "synced"}]

HistoryTyped ==
    /\ appended \in 0..MaxBatches /\ acked \subseteq 1..appended
    /\ broken \in BOOLEAN /\ adrift \in BOOLEAN
    /\ left \in Environment /\ appended + left.appends <= MaxBatches

(* Which call is in which step, and what it knows there *)
Control ==
    /\ call \in {"none", "create", "append", "clear"} /\ step \in Steps
    /\ step = "idle" <=> call = "none"
    /\ step = "check" => call \in {"create", "append"}
    /\ step = "remove" => call = "clear"
    /\ step \in {"attach", "syncMedium", "choose", "append", "syncFile"} => call = "append"
    /\ call = "append" => batch = appended /\ appended > 0
    /\ into \in {0} \cup Segments /\ saving \in {0} \cup Segments
    /\ step \in {"append", "syncFile"} => into # 0
    /\ step \in {"check", "attach", "syncMedium", "choose"} \/ call # "append" => into = 0
    /\ step \in Saving => saving # 0 /\ (into # 0 => saving = into)
    /\ step = "replace" => tmp = saving
    /\ step = "syncDir" => manifest = saving

(* One append opens at most one segment. *)
Reached == IF call = "append" /\ into = 0 THEN appended ELSE appended + 1
InReach ==
    /\ manifest <= Reached /\ tmp <= Reached /\ durable <= Reached
    /\ saving <= Reached /\ into <= Reached

(* The batch being appended is newer than all there is, and pieces are     *)
(* left by newer and newer batches.                                        *)
Fresh == IF call = "append" /\ step # "syncFile" THEN appended ELSE appended + 1
InFile ==
    /\ \A i \in Segments : \A j \in DOMAIN segment[i] : segment[i][j].batch < Fresh
    /\ \A i \in Segments : \A j, n \in DOMAIN segment[i] :
          j < n => segment[i][j].batch < segment[i][n].batch

Whole ==
    ~left.torn => \A i \in Segments : \A j \in DOMAIN segment[i] :
        segment[i][j].form = "line" /\ segment[i][j].first

LineIsLast ==
    step = "syncFile" =>
        /\ segment[into] # <<>>
        /\ segment[into][Len(segment[into])].batch = batch
        /\ segment[into][Len(segment[into])].form = "line"

OnDisk(b) ==
    \E i \in Segments : \E j \in 1..synced[i] :
        segment[i][j].batch = b /\ segment[i][j].form = "line"
Acknowledged == Sound => \A b \in acked : OnDisk(b)

(* A clear that comes as far as saving a manifest has removed everything.  *)
Emptied == call = "clear" /\ step \in Saving => \A i \in Segments : segment[i] = <<>>

(* Behind the segments that a manifest names there is nothing yet, whether *)
(* it is the one a read finds, the one a power failure leaves or the one   *)
(* being saved.                                                            *)
EmptyAfter(n) == \A i \in Segments : i > n => segment[i] = <<>>
Frontier ==
    Steady =>
        /\ EmptyAfter(Named(manifest)) /\ EmptyAfter(Named(durable))
        /\ step \in Saving => EmptyAfter(saving)
        /\ step \in {"append", "syncFile"} => Named(manifest) = into /\ Named(durable) = into

Across ==
    Steady =>
        \A i, m \in Segments : \A j \in DOMAIN segment[i] : \A n \in DOMAIN segment[m] :
            i < m => segment[i][j].batch < segment[m][n].batch

(* The medium of a batch is written once, before its line. *)
WithMedium == step \in {"choose", "append", "syncFile"} \/ into # 0
Attached ==
    left.media = "own" =>
        /\ \A b \in Batches : b > appended => media[b] = "none"
        /\ call = "append" /\ WithMedium => media[batch] = "synced"
        /\ call = "append" /\ ~WithMedium /\ step # "syncMedium" => media[batch] = "none"
        /\ Sound => \A b \in acked : media[b] = "synced"

IInv ==
    /\ FilesTyped /\ HistoryTyped /\ Control /\ InReach
    /\ InFile /\ Whole /\ LineIsLast /\ Acknowledged /\ Emptied
    /\ Frontier /\ Across /\ Attached

-----------------------------------------------------------------------------
(* What is in a file *)
LEMMA PiecesTyped ==
    ASSUME FilesTyped
    PROVE  \A i \in Segments :
              /\ segment[i] \in Seq(Pieces)
              /\ Len(segment[i]) \in Nat /\ DOMAIN segment[i] = 1..Len(segment[i])
              /\ synced[i] \in 0..Len(segment[i])
              /\ \A j \in DOMAIN segment[i] :
                    /\ segment[i][j] \in Pieces
                    /\ segment[i][j].batch \in Int
<1> SUFFICES ASSUME NEW i \in Segments
             PROVE  /\ segment[i] \in Seq(Pieces)
                    /\ Len(segment[i]) \in Nat /\ DOMAIN segment[i] = 1..Len(segment[i])
                    /\ synced[i] \in 0..Len(segment[i])
                    /\ \A j \in DOMAIN segment[i] :
                          /\ segment[i][j] \in Pieces
                          /\ segment[i][j].batch \in Int
    OBVIOUS
<1>1. segment[i] \in Seq(Pieces) /\ synced[i] \in Nat /\ synced[i] <= Len(segment[i])
  BY DEF FilesTyped
<1>2. \A p \in Pieces : p.batch \in Int
  BY Assumption DEF Pieces, Batches
<1> QED BY <1>1, <1>2

-----------------------------------------------------------------------------
(* Frames: what a step keeps because it leaves the files alone *)

Same ==
    /\ left' \in Environment /\ left'.appends = left.appends
    /\ left'.torn = left.torn /\ left'.unread = left.unread /\ left'.media = left.media

(* What happens once less often changes nothing else of the environment.   *)
LEMMA HappensKeeps ==
    ASSUME HistoryTyped, Happens("faults") \/ Happens("stops") \/ Happens("outages")
    PROVE  Same
<1>1. CASE Happens("faults")   BY <1>1 DEF HistoryTyped, Environment, Happens, Same
<1>2. CASE Happens("stops")    BY <1>2 DEF HistoryTyped, Environment, Happens, Same
<1>3. CASE Happens("outages")  BY <1>3 DEF HistoryTyped, Environment, Happens, Same
<1> QED BY <1>1, <1>2, <1>3

LEMMA LeftKept == ASSUME HistoryTyped, UNCHANGED left PROVE Same
    BY DEF HistoryTyped, Same

(* Whoever does not end a clear keeps a session unpromised. *)
Promises == (Sound' => Sound) /\ (Steady' => Steady)

(* The place of an append relative to its medium and its line *)
SamePhase ==
    /\ Fresh <= Fresh'
    /\ left.media = "own" /\ call' = "append" =>
          /\ call = "append" /\ batch' = batch
          /\ WithMedium' <=> WithMedium
          /\ step = "syncMedium" => step' = "syncMedium"

LEMMA FileFrame ==
    ASSUME IInv, HistoryTyped', UNCHANGED <<segment, synced, acked>>,
           Same, Promises, Fresh <= Fresh'
    PROVE  InFile' /\ Whole' /\ Acknowledged' /\ Across'
<1>a. Fresh \in Int /\ Fresh' \in Int
  BY Assumption DEF IInv, HistoryTyped, Fresh
<1>b. \A i \in Segments : \A j \in DOMAIN segment[i] : segment[i][j].batch \in Int
  BY PiecesTyped DEF IInv
<1>1. InFile'        BY <1>a, <1>b DEF IInv, InFile
<1>2. Whole'         BY DEF IInv, Whole, Same
<1>3. Acknowledged'  BY DEF IInv, Acknowledged, Promises, OnDisk
<1>4. Across'        BY DEF IInv, Across, Promises
<1> QED BY <1>1, <1>2, <1>3, <1>4

LEMMA MediaFrame ==
    ASSUME IInv, UNCHANGED <<media, acked, appended>>, Same, Promises, SamePhase
    PROVE  Attached'
    BY DEF IInv, Attached, Same, Promises, SamePhase, Control

(* A step that leaves what is stored alone *)
LEMMA QuietStep ==
    ASSUME IInv, UNCHANGED <<segment, synced, media, acked, appended>>, Same,
           FilesTyped', HistoryTyped', Control', InReach',
           Promises, SamePhase, Emptied', Frontier', step' # "syncFile"
    PROVE  IInv'
<1>1. InFile' /\ Whole' /\ Acknowledged' /\ Across'
  BY FileFrame DEF SamePhase
<1>2. Attached'    BY MediaFrame
<1>3. LineIsLast'  BY DEF LineIsLast
<1> QED BY <1>1, <1>2, <1>3 DEF IInv

(* A call ends without success. *)
BreaksOff ==
    /\ broken' = (broken \/ call = "clear")
    /\ Return
    /\ UNCHANGED <<appended, acked, adrift>>

LEMMA FailsBreaksOff == ASSUME HistoryTyped, Fails PROVE BreaksOff /\ Same
    BY HappensKeeps DEF Fails, BreaksOff

LEMMA BreakingOff ==
    ASSUME IInv, FilesTyped', BreaksOff, Same,
           manifest' <= Reached, tmp' <= Reached, durable' <= Reached
    PROVE  /\ HistoryTyped' /\ Control' /\ LineIsLast' /\ Emptied'
           /\ Promises /\ SamePhase /\ InReach'
<1>1. HistoryTyped'
  BY DEF IInv, HistoryTyped, BreaksOff, Same
<1>2. Control'
  BY DEF Control, BreaksOff, Return, Steps, Saving
<1>3. LineIsLast' /\ Emptied'
  BY DEF LineIsLast, Emptied, BreaksOff, Return, Saving
<1>4. Promises
  BY DEF IInv, HistoryTyped, Promises, Steady, Sound, BreaksOff, Same
<1>5. Fresh <= Fresh' /\ Reached <= Reached' /\ Reached' = appended + 1 /\ Reached \in Int
  BY DEF IInv, HistoryTyped, Fresh, Reached, BreaksOff, Return
<1>6. SamePhase
  BY <1>5 DEF SamePhase, BreaksOff, Return
<1>7. manifest' \in Int /\ tmp' \in Int /\ durable' \in Int
  BY Assumption DEF FilesTyped, Segments, Absent, Torn
<1>8. InReach'
  BY <1>5, <1>7 DEF InReach, BreaksOff, Return, IInv, HistoryTyped
<1> QED BY <1>1, <1>2, <1>3, <1>4, <1>6, <1>8

-----------------------------------------------------------------------------
(* Calls begin, a manifest is recovered. *)

LEMMA NamedIsSegment ==
    \A m \in {Absent, Torn} \cup Segments : Named(m) \in Segments /\ (m \in Segments => Named(m) = m)
    BY Assumption DEF Named, Segments, Absent, Torn

LEMMA FallbackTyped == ASSUME FilesTyped PROVE Fallback \in {Absent, tmp} /\ Fallback \in {Absent} \cup Segments
    BY Assumption DEF FilesTyped, Fallback, Segments, Absent, Torn

LEMMA CreateStep == ASSUME IInv, Create PROVE IInv'
<1> USE DEF Create, Begin, files, history
<1>1. FilesTyped'    BY DEF IInv, FilesTyped
<1>2. HistoryTyped'  BY DEF IInv, HistoryTyped
<1>3. Control'       BY DEF IInv, Control, Steps, Saving
<1>4. InReach' /\ SamePhase /\ Emptied'
  BY DEF IInv, Control, InReach, Reached, HistoryTyped, SamePhase, Fresh, Emptied, Saving
<1>5. Promises       BY DEF Promises, Steady, Sound, IInv, Control
<1>6. Frontier'
  BY <1>5 DEF Frontier, EmptyAfter, Promises, IInv, Saving
<1> QED BY <1>1, <1>2, <1>3, <1>4, <1>5, <1>6, LeftKept, QuietStep DEF IInv

LEMMA ClearSessionStep == ASSUME IInv, ClearSession PROVE IInv'
<1> USE DEF ClearSession, Begin, files, history
<1>1. FilesTyped'    BY DEF IInv, FilesTyped
<1>2. HistoryTyped'  BY DEF IInv, HistoryTyped
<1>3. Control'       BY DEF IInv, Control, Steps, Saving
<1>4. InReach' /\ SamePhase /\ Emptied'
  BY DEF IInv, Control, InReach, Reached, HistoryTyped, SamePhase, Fresh, Emptied, Saving
<1>5. Promises /\ Frontier'  BY DEF Promises, Frontier, Steady, Sound
<1> QED BY <1>1, <1>2, <1>3, <1>4, <1>5, LeftKept, QuietStep DEF IInv

(* A new batch is newer than all that is stored, and has no medium yet. *)
LEMMA AppendRecordsStep == ASSUME IInv, AppendRecords PROVE IInv'
<1> USE DEF AppendRecords, Begin, files
<1>0. call = "none" /\ into = 0 /\ appended \in Int  BY DEF IInv, Control, HistoryTyped
<1>1. FilesTyped'    BY DEF IInv, FilesTyped
<1>2. HistoryTyped' /\ left'.torn = left.torn /\ left'.unread = left.unread
      /\ left'.media = left.media
  BY Assumption DEF IInv, HistoryTyped, Happens, Environment
<1>3. Control'       BY <1>0 DEF IInv, Control, Steps, Saving, HistoryTyped
<1>4. Reached' = Reached /\ Fresh' = Fresh
  BY <1>0 DEF Reached, Fresh, IInv, Control
<1>5. InReach'       BY <1>4 DEF IInv, InReach
<1>6. Promises       BY <1>0, <1>2 DEF Promises, Steady, Sound
<1>7. InFile'        BY <1>4 DEF IInv, InFile
<1>8. Whole' /\ LineIsLast' /\ Emptied'
  BY <1>2 DEF IInv, Whole, LineIsLast, Emptied
<1>9. Acknowledged' /\ Across'
  BY <1>6 DEF IInv, Acknowledged, Across, OnDisk, Promises
<1>10. Frontier'     BY <1>6 DEF IInv, Frontier, EmptyAfter, Promises, Saving
<1>11. Attached'
  BY <1>0, <1>2, <1>6 DEF IInv, Attached, WithMedium, Promises, HistoryTyped, Batches
<1> QED BY <1>1, <1>2, <1>3, <1>5, <1>7, <1>8, <1>9, <1>10, <1>11 DEF IInv

(* Recovery puts a temporary manifest where none could be read.  Then      *)
(* either nothing is promised of which segments are read, or there was     *)
(* none, and only the first segment has been written.                      *)
LEMMA RecoverStep == ASSUME IInv, Recover PROVE IInv'
<1> USE DEF Recover, control, history
<1>1. FilesTyped' /\ tmp \in Segments
  BY Assumption DEF IInv, FilesTyped, Segments, Absent, Torn
<1>2. HistoryTyped'  BY DEF IInv, HistoryTyped
<1>3. Control'       BY DEF IInv, Control, Saving
<1>4. InReach' /\ SamePhase /\ Emptied'
  <2>1. Reached \in Int /\ Reached >= 0 /\ Reached' = Reached
    BY DEF Reached, IInv, HistoryTyped
  <2> QED BY <2>1 DEF IInv, InReach, SamePhase, Fresh, Emptied, HistoryTyped, Absent, WithMedium
<1>5. Promises       BY DEF Promises, Steady, Sound
<1>6. Frontier'
  <2> SUFFICES ASSUME Steady' PROVE Frontier'  BY DEF Frontier
  <2>1. Steady /\ manifest = Absent  BY <1>5 DEF Promises, Unreadable, Steady
  <2>2. \A i \in Segments : i > 1 => segment[i] = <<>>
    BY <2>1 DEF IInv, Frontier, EmptyAfter, Named, Absent
  <2>3. \A m : m \in Segments => Named(m) \in Segments /\ Named(m) >= 1
    BY Assumption DEF Named, Segments
  <2>4. EmptyAfter(Named(manifest))' /\ EmptyAfter(Named(durable))'
    BY <1>1, <2>1, <2>2, <2>3, Assumption DEF EmptyAfter, IInv, Frontier, Segments, Named
  <2> QED BY <2>4 DEF Frontier, Saving
<1> QED BY <1>1, <1>2, <1>3, <1>4, <1>5, <1>6, LeftKept, QuietStep DEF IInv

-----------------------------------------------------------------------------
(* Saving a manifest *)

(* An operation fails that changed no stored line. *)
LEMMA FailStep ==
    ASSUME IInv, Fails, FilesTyped', UNCHANGED <<segment, synced, media>>,
           manifest' <= Reached, tmp' <= Reached, durable' <= Reached,
           Steady => EmptyAfter(Named(manifest)') /\ EmptyAfter(Named(durable)')
    PROVE  IInv'
<1>1. BreaksOff /\ Same  BY FailsBreaksOff DEF IInv
<1>2. /\ HistoryTyped' /\ Control' /\ Emptied' /\ Promises /\ SamePhase /\ InReach'
  BY <1>1, BreakingOff
<1>3. step' = "idle" /\ acked' = acked /\ appended' = appended
  BY <1>1 DEF BreaksOff, Return
<1>4. Frontier'
  BY <1>2, <1>3 DEF Frontier, EmptyAfter, Promises, Saving
<1> QED BY <1>1, <1>2, <1>3, <1>4, QuietStep

(* The same when it changed no file *)
LEMMA IdleFail == ASSUME IInv, Fails, UNCHANGED files PROVE IInv'
<1>1. FilesTyped' /\ UNCHANGED <<manifest, tmp, durable, segment, synced, media>>
  BY DEF IInv, FilesTyped, files
<1>2. Steady => EmptyAfter(Named(manifest)') /\ EmptyAfter(Named(durable)')
  BY <1>1 DEF IInv, Frontier, Named
<1>3. manifest' <= Reached /\ tmp' <= Reached /\ durable' <= Reached
  BY <1>1 DEF IInv, InReach
<1> QED BY <1>1, <1>2, <1>3, FailStep

LEMMA ReachedTyped == ASSUME IInv PROVE Reached \in Int /\ Reached >= 1
    BY DEF IInv, HistoryTyped, Control, Reached

(* With the manifest there nothing has to be written; a first one names    *)
(* the first segment.                                                      *)
LEMMA CheckManifestStep == ASSUME IInv, CheckManifest PROVE IInv'
<1> USE DEF CheckManifest, files, history, Works
<1>0. step = "check" /\ call \in {"create", "append"} /\ into = 0 /\ into' = 0
      /\ batch' \in {0, batch}
  BY DEF IInv, Control, Save, Go, Return
<1>1. FilesTyped'    BY DEF IInv, FilesTyped
<1>2. HistoryTyped'  BY DEF IInv, HistoryTyped
<1>3. CASE manifest = Absent
  <2>1. step' = "write" /\ saving' = 1 /\ UNCHANGED <<call, batch>>
    BY <1>3 DEF Save
  <2>2. Control'
    BY <1>0, <2>1, Assumption DEF IInv, Control, Steps, Saving, Segments
  <2>3. Reached' = Reached /\ Reached >= 1
    BY <1>0, <2>1, ReachedTyped DEF Reached
  <2>4. InReach'
    BY <1>0, <2>1, <2>3 DEF IInv, InReach
  <2>5. SamePhase /\ Emptied' /\ Promises
    BY <1>0, <2>1 DEF SamePhase, Fresh, IInv, HistoryTyped, WithMedium, Emptied, Promises,
                     Steady, Sound
  <2>6. Frontier'
    BY <1>3, <2>1, <2>5 DEF Frontier, EmptyAfter, IInv, Promises, Named, Absent, Saving
  <2> QED BY <1>1, <1>2, <2>1, <2>2, <2>4, <2>5, <2>6, LeftKept, QuietStep DEF IInv
<1>4. CASE manifest # Absent /\ call = "append"
  <2>1. step' = Ready /\ UNCHANGED <<call, batch, saving>>  BY <1>4 DEF Go
  <2>2. step' \in {"choose", "attach"} /\ (left.media = "own" => step' = "attach")
    BY <2>1 DEF Ready
  <2>3. Control'
    BY <1>0, <1>4, <2>1, <2>2 DEF IInv, Control, Steps, Saving
  <2>4. InReach' /\ Emptied' /\ Promises
    BY <1>0, <1>4, <2>1, <2>2
       DEF IInv, InReach, Reached, Emptied, Promises, Steady, Sound
  <2>5. SamePhase
    BY <1>0, <2>1, <2>2 DEF SamePhase, Fresh, IInv, HistoryTyped, WithMedium
  <2>6. Frontier'
    BY <2>2, <2>4 DEF Frontier, EmptyAfter, IInv, Promises, Saving
  <2> QED BY <1>1, <1>2, <2>2, <2>3, <2>4, <2>5, <2>6, LeftKept, QuietStep DEF IInv
<1>5. CASE manifest # Absent /\ call # "append"
  <2>1. Return  BY <1>5
  <2>2. Control' /\ Emptied'
    BY <2>1 DEF Return, IInv, Control, Steps, Saving, Emptied
  <2>3. Promises
    BY <1>0, <2>1 DEF Promises, Steady, Sound, Return
  <2>4. InReach'
    BY <1>0, <1>5, <2>1 DEF InReach, Reached, Return, IInv, HistoryTyped
  <2>5. SamePhase
    BY <1>0, <1>5, <2>1 DEF SamePhase, Fresh, Return, IInv, HistoryTyped
  <2>6. Frontier'
    BY <2>1, <2>3 DEF Frontier, EmptyAfter, IInv, Promises, Return, Saving
  <2> QED BY <1>1, <1>2, <2>1, <2>2, <2>3, <2>4, <2>5, <2>6, LeftKept, QuietStep DEF IInv, Return
<1> QED BY <1>0, <1>3, <1>4, <1>5

LEMMA CheckManifestUnreadStep == ASSUME IInv, CheckManifestUnread PROVE IInv'
<1> USE DEF CheckManifestUnread, files, history
<1>0. /\ step = "check" /\ call \in {"create", "append"} /\ into = 0 /\ into' = 0
      /\ step' = "write" /\ saving' = 1 /\ UNCHANGED <<call, batch>>
  BY DEF IInv, Control, Save
<1>1. FilesTyped'    BY DEF IInv, FilesTyped
<1>2. Same           BY HappensKeeps DEF IInv
<1>3. HistoryTyped'  BY <1>2 DEF IInv, HistoryTyped, Same
<1>4. Control'
  BY <1>0, Assumption DEF IInv, Control, Steps, Saving, Segments
<1>5. InReach'
  BY <1>0, ReachedTyped DEF IInv, InReach, Reached
<1>6. SamePhase /\ Emptied' /\ Promises
  BY <1>0, <1>2 DEF SamePhase, Fresh, IInv, HistoryTyped, WithMedium, Emptied, Promises,
                    Steady, Sound, Same
<1>7. Frontier'  BY <1>2 DEF Frontier, Steady, Same
<1> QED BY <1>0, <1>1, <1>2, <1>3, <1>4, <1>5, <1>6, <1>7, QuietStep

(* Writing the temporary file may bring an old one back first. *)
LEMMA RestoredTyped ==
    ASSUME IInv, step \in Saving, manifest' \in Restored
    PROVE  /\ manifest' \in {Absent} \cup Segments /\ manifest' <= Reached
           /\ Steady => EmptyAfter(Named(manifest'))
<1>1. Fallback \in {Absent, tmp} /\ Fallback \in {Absent} \cup Segments
  BY FallbackTyped DEF IInv
<1>2. CASE manifest' = manifest
  BY <1>2 DEF IInv, FilesTyped, InReach, Frontier
<1>3. CASE manifest' = Fallback /\ Unreadable /\ Fallback # Absent
  <2>1. manifest' \in Segments /\ manifest' <= Reached
    BY <1>1, <1>3 DEF IInv, InReach
  <2>2. ASSUME Steady PROVE EmptyAfter(Named(manifest'))
    <3>1. manifest = Absent  BY <1>3, <2>2 DEF Unreadable, Steady
    <3>2. EmptyAfter(1)  BY <2>2, <3>1 DEF IInv, Frontier, Named, Absent
    <3>3. Named(manifest') >= 1 /\ Named(manifest') \in Int
      BY <2>1, Assumption DEF Named, Segments
    <3> QED BY <3>2, <3>3, Assumption DEF EmptyAfter, Segments
  <2> QED BY <2>1, <2>2
<1> QED BY <1>2, <1>3 DEF Restored

LEMMA WriteManifestStep == ASSUME IInv, WriteManifest PROVE IInv'
<1> USE DEF WriteManifest, Works, Go, history
<1>0. step = "write" /\ step \in Saving /\ saving \in Segments
  BY DEF Saving, IInv, Control
<1>1. /\ manifest' \in {Absent} \cup Segments /\ manifest' <= Reached
      /\ Steady => EmptyAfter(Named(manifest'))
  BY <1>0, RestoredTyped
<1>2. FilesTyped'    BY <1>0, <1>1 DEF IInv, FilesTyped
<1>3. HistoryTyped'  BY DEF IInv, HistoryTyped
<1>4. Control'       BY <1>0 DEF IInv, Control, Steps, Saving
<1>5. Reached' = Reached  BY DEF Reached
<1>6. InReach'       BY <1>1, <1>5 DEF IInv, InReach
<1>7. SamePhase /\ Emptied' /\ Promises
  BY <1>0 DEF SamePhase, Fresh, IInv, HistoryTyped, WithMedium, Emptied, Promises, Steady,
              Sound, Saving
<1>8. Frontier'
  BY <1>0, <1>1, <1>7 DEF IInv, Frontier, EmptyAfter, Promises, Saving
<1> QED BY <1>2, <1>3, <1>4, <1>6, <1>7, <1>8, LeftKept, QuietStep DEF IInv

LEMMA WriteManifestFailsStep == ASSUME IInv, WriteManifestFails PROVE IInv'
<1> USE DEF WriteManifestFails
<1>0. step = "write" /\ step \in Saving /\ saving \in Segments
  BY DEF Saving, IInv, Control
<1>1. /\ manifest' \in {Absent} \cup Segments /\ manifest' <= Reached
      /\ Steady => EmptyAfter(Named(manifest'))
  BY <1>0, RestoredTyped
<1>2. FilesTyped'  BY <1>0, <1>1 DEF IInv, FilesTyped, Leftover
<1>3. tmp' <= Reached /\ durable' <= Reached
  BY <1>0, ReachedTyped DEF IInv, InReach, Leftover, Absent, Torn
<1>4. Steady => EmptyAfter(Named(manifest)') /\ EmptyAfter(Named(durable)')
  BY <1>1 DEF IInv, Frontier, EmptyAfter, Named
<1> QED BY <1>1, <1>2, <1>3, <1>4, FailStep

LEMMA ReplaceManifestStep == ASSUME IInv, ReplaceManifest PROVE IInv'
<1> USE DEF ReplaceManifest, Works, Go, history
<1>0. step = "replace" /\ step \in Saving /\ saving \in Segments /\ manifest' = saving
  BY DEF Saving, IInv, Control
<1>1. FilesTyped'    BY <1>0 DEF IInv, FilesTyped
<1>2. HistoryTyped'  BY DEF IInv, HistoryTyped
<1>3. Control'       BY <1>0 DEF IInv, Control, Steps, Saving
<1>4. Reached' = Reached  BY DEF Reached
<1>5. InReach'       BY <1>0, <1>4, ReachedTyped DEF IInv, InReach, Absent
<1>6. SamePhase /\ Emptied' /\ Promises
  BY <1>0 DEF SamePhase, Fresh, IInv, HistoryTyped, WithMedium, Emptied, Promises, Steady,
              Sound, Saving
<1>7. Frontier'
  BY <1>0, <1>6, NamedIsSegment DEF IInv, Frontier, EmptyAfter, Promises, Saving
<1> QED BY <1>1, <1>2, <1>3, <1>5, <1>6, <1>7, LeftKept, QuietStep DEF IInv

LEMMA ReplaceManifestFailsStep == ASSUME IInv, ReplaceManifestFails PROVE IInv'
<1> USE DEF ReplaceManifestFails
<1>1. FilesTyped'  BY DEF IInv, FilesTyped
<1>2. manifest' <= Reached /\ tmp' <= Reached /\ durable' <= Reached
  BY ReachedTyped DEF IInv, InReach, Absent
<1>3. Steady => EmptyAfter(Named(manifest)') /\ EmptyAfter(Named(durable)')
  BY DEF IInv, Frontier, EmptyAfter, Named
<1> QED BY <1>1, <1>2, <1>3, FailStep

(* Only now is the manifest safe from a power failure; for a clear that is *)
(* its end, with no segment left.                                          *)
LEMMA SyncDirectoryStep == ASSUME IInv, SyncDirectory PROVE IInv'
<1> USE DEF SyncDirectory
<1>0. step = "syncDir" /\ step \in Saving /\ saving \in Segments /\ manifest = saving
      /\ durable' = saving /\ manifest' = saving
  BY DEF Saving, IInv, Control
<1>1. FilesTyped'    BY <1>0 DEF IInv, FilesTyped
<1>2. Same           BY LeftKept DEF IInv
<1>3. CASE call = "append"
  <2>0. UNCHANGED history /\ UNCHANGED <<call, batch, saving, into>>
        /\ step' = IF into = 0 THEN Ready ELSE "append"
    BY <1>3 DEF Go
  <2>1. HistoryTyped'  BY <2>0 DEF IInv, HistoryTyped, history
  <2>2. step' \in {"choose", "attach", "append"} /\ (left.media = "own" /\ into = 0 => step' = "attach")
        /\ (into # 0 => step' = "append") /\ (into = 0 => step' # "append")
    BY <2>0 DEF Ready
  <2>3. Control'
    BY <1>0, <1>3, <2>0, <2>2 DEF IInv, Control, Steps, Saving, history
  <2>4. InReach' /\ Emptied'
    BY <1>0, <1>3, <2>0 DEF IInv, InReach, Reached, Emptied, history
  <2>5. SamePhase
    BY <1>0, <2>0, <2>2 DEF SamePhase, Fresh, IInv, HistoryTyped, WithMedium, history
  <2>6. Promises
    BY <2>0 DEF Promises, Steady, Sound, history
  <2>7. Frontier'
    <3>1. into # 0 => into = saving  BY <1>0 DEF IInv, Control
    <3> QED BY <1>0, <2>0, <2>2, <2>6, <3>1, NamedIsSegment
           DEF IInv, Frontier, EmptyAfter, Promises, Saving
  <2> QED BY <1>1, <1>2, <2>0, <2>1, <2>2, <2>3, <2>4, <2>5, <2>6, <2>7, QuietStep DEF history
<1>4. CASE call = "create"
  <2>0. UNCHANGED history /\ Return  BY <1>4
  <2>1. HistoryTyped'  BY <2>0 DEF IInv, HistoryTyped, history
  <2>2. Control' /\ Emptied'
    BY <2>0 DEF IInv, Control, Steps, Saving, Emptied, Return
  <2>3. InReach'
    BY <1>0, <1>4, <2>0, ReachedTyped DEF IInv, InReach, Reached, Return, history
  <2>4. SamePhase
    BY <1>4, <2>0 DEF SamePhase, Fresh, IInv, HistoryTyped, Return, history
  <2>5. Promises
    BY <1>4, <2>0 DEF Promises, Steady, Sound, history
  <2>6. Frontier'
    BY <1>0, <2>0, <2>5, NamedIsSegment DEF IInv, Frontier, EmptyAfter, Promises, Return, Saving
  <2> QED BY <1>1, <1>2, <2>0, <2>1, <2>2, <2>3, <2>4, <2>5, <2>6, QuietStep DEF Return, history
<1>5. CASE call = "clear"
  <2>0. Return /\ acked' = {} /\ broken' = FALSE /\ adrift' = FALSE /\ appended' = appended
        /\ UNCHANGED <<segment, synced, media>> /\ \A i \in Segments : segment[i] = <<>>
    BY <1>0, <1>5 DEF IInv, Emptied
  <2>1. HistoryTyped'  BY <2>0, <1>2 DEF IInv, HistoryTyped, Same
  <2>2. Control' /\ Emptied'
    BY <2>0 DEF IInv, Control, Steps, Saving, Emptied, Return
  <2>3. InReach'
    BY <1>0, <1>5, <2>0, ReachedTyped DEF IInv, InReach, Reached, Return
  <2>4. InFile' /\ Whole' /\ Across' /\ Frontier'
    BY <2>0 DEF InFile, Whole, Across, Frontier, EmptyAfter, Return, Saving
  <2>5. LineIsLast' /\ Acknowledged'
    BY <2>0 DEF LineIsLast, Acknowledged, Return
  <2>6. Attached'
    BY <1>2, <2>0 DEF Attached, Return, IInv, Same
  <2> QED BY <1>1, <2>1, <2>2, <2>3, <2>4, <2>5, <2>6 DEF IInv
<1> QED BY <1>3, <1>4, <1>5

-----------------------------------------------------------------------------
(* Media *)

(* A step that touches the medium of the batch being appended, which has   *)
(* not been acknowledged                                                   *)
LEMMA MediumStep ==
    ASSUME IInv, UNCHANGED <<segment, synced, acked, appended>>, Same,
           step \in {"attach", "syncMedium"},
           media' \in [Batches -> {"none", "torn", "written", "synced"}],
           \A b \in Batches : b # Medium => media'[b] = media[b],
           media'[Medium] = "synced" \/ (step = "attach" /\ media[Medium] = "none"),
           HistoryTyped', Control', InReach', Emptied', LineIsLast', Frontier',
           UNCHANGED <<manifest, tmp, durable>>, Promises, Fresh <= Fresh',
           left.media = "own" /\ call' = "append" =>
              batch' = batch /\ (step' = "syncMedium" \/ (WithMedium' /\ media'[Medium] = "synced"))
    PROVE  IInv'
<1>1. FilesTyped'  BY DEF IInv, FilesTyped
<1>2. InFile' /\ Whole' /\ Acknowledged' /\ Across'
  BY FileFrame
<1>3. Attached'
  <2> SUFFICES ASSUME left.media = "own" PROVE Attached'  BY DEF Attached, Same
  <2>1. Medium = batch /\ batch = appended /\ batch \in Batches /\ call = "append"
    BY DEF Medium, IInv, Control, HistoryTyped, Batches
  <2>2. \A b \in Batches : b > appended => media'[b] = "none"
    BY <2>1, Assumption DEF IInv, Attached, HistoryTyped, Batches
  <2>3. Sound' => \A b \in acked : media'[b] = "synced"
    <3> SUFFICES ASSUME Sound, NEW b \in acked PROVE media'[b] = "synced"  BY DEF Promises
    <3>1. b \in Batches /\ media[b] = "synced"
      BY Assumption DEF IInv, Attached, HistoryTyped, Batches
    <3> QED BY <3>1
  <2>4. call' = "append" =>
           batch' = batch /\ (step' = "syncMedium" \/ (WithMedium' /\ media'[batch] = "synced"))
    BY <2>1
  <2>5. step' = "syncMedium" => ~WithMedium'
    BY DEF Control, WithMedium
  <2> QED BY <2>2, <2>3, <2>4, <2>5 DEF Attached
<1> QED BY <1>1, <1>2, <1>3 DEF IInv

LEMMA MediumTyped ==
    ASSUME IInv, step \in {"attach", "syncMedium"}
    PROVE  Medium \in Batches /\ call = "append" /\ into = 0
    BY Assumption DEF IInv, Control, HistoryTyped, Medium, Batches

(* A medium already there is not looked into; of a batch that brings its   *)
(* own there is none yet.                                                  *)
LEMMA MediumThereStep == ASSUME IInv, MediumThere PROVE IInv'
<1> USE DEF MediumThere, Works, Go, history, files
<1>0. Medium \in Batches /\ call = "append" /\ into = 0  BY MediumTyped
<1>1. left.media # "own"
  BY <1>0 DEF IInv, Attached, Medium, WithMedium
<1>2. FilesTyped' /\ HistoryTyped'  BY DEF IInv, FilesTyped, HistoryTyped
<1>3. Control'  BY <1>0 DEF IInv, Control, Steps, Saving
<1>4. InReach' /\ Emptied' /\ Promises
  BY DEF IInv, InReach, Reached, Emptied, Saving, Promises, Steady, Sound
<1>5. SamePhase  BY <1>1 DEF SamePhase, Fresh, IInv, HistoryTyped
<1>6. Frontier'  BY <1>4 DEF Frontier, EmptyAfter, IInv, Promises, Saving
<1> QED BY <1>2, <1>3, <1>4, <1>5, <1>6, LeftKept, QuietStep DEF IInv

LEMMA WriteMediumStep == ASSUME IInv, WriteMedium PROVE IInv'
<1> USE DEF WriteMedium, Go, history
<1>0. Medium \in Batches /\ call = "append" /\ into = 0  BY MediumTyped
<1>1. Same  BY HappensKeeps, LeftKept DEF IInv
<1>2. HistoryTyped'  BY <1>1 DEF IInv, HistoryTyped, Same
<1>3. Control'  BY <1>0 DEF IInv, Control, Steps, Saving
<1>4. InReach' /\ Emptied' /\ Promises
  BY <1>1 DEF IInv, InReach, Reached, Emptied, Saving, Promises, Steady, Sound, Same
<1>5. Fresh <= Fresh'  BY DEF Fresh, IInv, HistoryTyped
<1>6. Frontier' /\ LineIsLast'
  BY <1>4 DEF Frontier, EmptyAfter, IInv, Promises, Saving, LineIsLast
<1>7. /\ media' \in [Batches -> {"none", "torn", "written", "synced"}]
      /\ \A b \in Batches : b # Medium => media'[b] = media[b]
  BY <1>0 DEF IInv, FilesTyped, Holds
<1>8. CASE media[Medium] = "none"
  BY <1>1, <1>2, <1>3, <1>4, <1>5, <1>6, <1>7, <1>8, MediumStep
<1>9. CASE media[Medium] # "none"
  <2>1. left.media # "own"
    BY <1>0, <1>9 DEF IInv, Attached, Medium, WithMedium
  <2>2. FilesTyped'  BY <1>7 DEF IInv, FilesTyped
  <2>3. Attached'  BY <2>1, <1>1 DEF Attached, Same
  <2>4. InFile' /\ Whole' /\ Acknowledged' /\ Across'
    BY <1>1, <1>2, <1>4, <1>5, FileFrame
  <2> QED BY <1>2, <1>3, <1>4, <1>6, <2>2, <2>3, <2>4 DEF IInv
<1> QED BY <1>8, <1>9

LEMMA PartlyWrittenTyped ==
    ASSUME IInv, NEW cut \in PartlyWritten, Medium \in Batches
    PROVE  /\ cut \in [Batches -> {"none", "torn", "written", "synced"}]
           /\ \A b \in Batches : b # Medium => cut[b] = media[b]
    BY DEF PartlyWritten, IInv, FilesTyped

LEMMA WriteMediumFailsStep == ASSUME IInv, WriteMediumFails PROVE IInv'
<1> USE DEF WriteMediumFails
<1>0. Medium \in Batches /\ call = "append" /\ into = 0  BY MediumTyped
<1>1. BreaksOff /\ Same  BY FailsBreaksOff DEF IInv
<1>2. /\ media' \in [Batches -> {"none", "torn", "written", "synced"}]
      /\ \A b \in Batches : b # Medium => media'[b] = media[b]
  BY <1>0, PartlyWrittenTyped
<1>3. FilesTyped'  BY <1>2 DEF IInv, FilesTyped
<1>4. /\ HistoryTyped' /\ Control' /\ LineIsLast' /\ Emptied'
      /\ Promises /\ SamePhase /\ InReach'
  BY <1>1, <1>3, BreakingOff DEF IInv, InReach
<1>5. call' = "none" /\ step' = "idle" /\ UNCHANGED <<acked, appended>>
  BY <1>1 DEF BreaksOff, Return
<1>6. Frontier'  BY <1>4, <1>5 DEF Frontier, EmptyAfter, IInv, Promises, Saving
<1>7. Fresh <= Fresh'  BY <1>4 DEF SamePhase
<1> QED BY <1>1, <1>2, <1>4, <1>5, <1>6, <1>7, MediumStep

LEMMA SyncMediumStep == ASSUME IInv, SyncMedium PROVE IInv'
<1> USE DEF SyncMedium, Works, Go, history
<1>0. Medium \in Batches /\ call = "append" /\ into = 0  BY MediumTyped
<1>1. Same  BY LeftKept DEF IInv
<1>2. HistoryTyped'  BY DEF IInv, HistoryTyped
<1>3. Control'  BY <1>0 DEF IInv, Control, Steps, Saving
<1>4. InReach' /\ Emptied' /\ Promises
  BY <1>1 DEF IInv, InReach, Reached, Emptied, Saving, Promises, Steady, Sound, Same
<1>5. Fresh <= Fresh'  BY DEF Fresh, IInv, HistoryTyped
<1>6. Frontier' /\ LineIsLast'
  BY <1>4 DEF Frontier, EmptyAfter, IInv, Promises, Saving, LineIsLast
<1>7. /\ media' \in [Batches -> {"none", "torn", "written", "synced"}]
      /\ \A b \in Batches : b # Medium => media'[b] = media[b]
      /\ media'[Medium] = "synced"
  BY <1>0 DEF IInv, FilesTyped, Holds
<1>8. WithMedium'  BY DEF WithMedium
<1> QED BY <1>1, <1>2, <1>3, <1>4, <1>5, <1>6, <1>7, <1>8, MediumStep

-----------------------------------------------------------------------------
(* Appending a line *)

(* A batch opens the next segment, or goes to one that is durably named or *)
(* else is adrift from then on.                                            *)
LEMMA TargetStep ==
    ASSUME IInv, step = "choose", NEW i \in Segments, i <= Reached, Target(i),
           UNCHANGED <<segment, synced, media, durable>>, Same, FilesTyped',
           manifest' \in {manifest, tmp}, tmp' \in {tmp, Absent},
           Steady' => i = Named(manifest) /\ manifest' = manifest
    PROVE  IInv'
<1>0. /\ call = "append" /\ into = 0 /\ batch = appended /\ appended \in Int /\ Reached = appended
      /\ appended <= MaxBatches /\ i + 1 \in Segments /\ appended > 0
  BY Assumption DEF IInv, Control, HistoryTyped, Reached, Segments
<1>1. UNCHANGED <<call, batch, appended, acked, broken>>
  BY DEF Target, Save
<1>2. \/ step' = "write" /\ saving' = i + 1 /\ into' = i + 1 /\ adrift' = adrift
      \/ step' = "append" /\ into' = i /\ saving' = saving /\ adrift' = (adrift \/ Named(durable) # i)
  BY DEF Target, Save
<1>3. HistoryTyped'  BY <1>1, <1>2 DEF IInv, HistoryTyped, Same
<1>4. Control'
  BY <1>0, <1>1, <1>2, Assumption DEF IInv, Control, Steps, Saving, Segments
<1>5. InReach'
  <2>1. Reached' = appended + 1
    BY <1>0, <1>1, <1>2, Assumption DEF Reached, Segments
  <2>2. saving \in Int /\ manifest \in Int /\ tmp \in Int /\ durable \in Int /\ i \in Int
    BY Assumption DEF IInv, Control, FilesTyped, Segments, Absent, Torn
  <2> QED BY <1>0, <1>2, <2>1, <2>2 DEF IInv, InReach, Absent
<1>6. Promises
  BY <1>1, <1>2 DEF Promises, Steady, Sound, Same, IInv, HistoryTyped
<1>7. SamePhase
  BY <1>0, <1>1, <1>2, Assumption DEF SamePhase, Fresh, WithMedium, Segments
<1>8. Emptied' /\ step' # "syncFile"
  BY <1>0, <1>1, <1>2 DEF Emptied
<1>9. Frontier'
  <2> SUFFICES ASSUME Steady' PROVE Frontier'  BY DEF Frontier
  <2>1. Steady /\ i = Named(manifest) /\ manifest' = manifest /\ durable' = durable
        /\ segment' = segment
    BY <1>6 DEF Promises
  <2>2. EmptyAfter(Named(manifest))' /\ EmptyAfter(Named(durable))'
    BY <2>1 DEF IInv, Frontier, EmptyAfter, Named
  <2>3. step' = "write" => EmptyAfter(saving)'
    BY <1>2, <2>1, <2>2, Assumption DEF EmptyAfter, Segments, Named
  <2>4. step' = "append" => Named(manifest') = into' /\ Named(durable') = into'
    BY <1>2, <2>1 DEF Steady
  <2> QED BY <1>2, <2>2, <2>3, <2>4 DEF Frontier, Saving, Named
<1> QED BY <1>1, <1>3, <1>4, <1>5, <1>6, <1>7, <1>8, <1>9, QuietStep

LEMMA NamedReached ==
    ASSUME IInv, NEW m \in {Absent, Torn} \cup Segments, m <= Reached
    PROVE  Named(m) \in Segments /\ Named(m) <= Reached
    BY NamedIsSegment, ReachedTyped DEF Named

LEMMA ChooseSegmentStep == ASSUME IInv, ChooseSegment PROVE IInv'
<1> USE DEF ChooseSegment, files
<1>1. Named(manifest) \in Segments /\ Named(manifest) <= Reached
  BY NamedReached DEF IInv, FilesTyped, InReach
<1>2. Same /\ FilesTyped'  BY LeftKept DEF IInv, FilesTyped
<1> QED BY <1>1, <1>2, TargetStep

LEMMA ChooseSegmentUnreadStep == ASSUME IInv, ChooseSegmentUnread PROVE IInv'
<1> USE DEF ChooseSegmentUnread
<1>1. Fallback \in {Absent, tmp} /\ Fallback \in {Absent} \cup Segments
  BY FallbackTyped DEF IInv
<1>2. Fallback <= Reached  BY <1>1, ReachedTyped DEF IInv, InReach, Absent
<1>3. Named(Fallback) \in Segments /\ Named(Fallback) <= Reached
  BY <1>1, <1>2, NamedReached
<1>4. Same  BY HappensKeeps DEF IInv
<1>5. FilesTyped' /\ manifest' \in {manifest, tmp} /\ tmp' \in {tmp, Absent}
  BY Assumption, SMTT(30) DEF IInv, FilesTyped, Segments, Absent, Torn
<1>6. ~Steady'  BY <1>4 DEF Steady, Same
<1> QED BY <1>3, <1>4, <1>5, <1>6, TargetStep

(* Segments as an append, a crash in it or a power failure leaves them:    *)
(* nothing synchronised is gone, and only the batch under way is new.      *)
NewPiece(p) == p.batch = batch /\ (~left.torn => p.form = "line" /\ p.first)
Within(t) ==
    /\ t \in [Segments -> Seq(Pieces)]
    /\ \A i \in Segments :
          /\ synced[i] <= Len(t[i])
          /\ \A j \in 1..Len(t[i]) :
                \/ j <= Len(segment[i]) /\ t[i][j] = segment[i][j]
                \/ step = "append" /\ i = into /\ j = Len(segment[i]) + 1 /\ NewPiece(t[i][j])

LEMMA WithinKeeps ==
    ASSUME IInv, NEW t, segment' = t, Within(t),
           synced' \in [Segments -> Nat],
           \A i \in Segments : synced[i] <= synced'[i] /\ synced'[i] <= Len(t[i]),
           acked' = acked, appended' = appended, Same, Promises,
           Fresh <= Fresh', Fresh' <= appended + 1, step = "append" => Fresh' = appended + 1
    PROVE  /\ InFile' /\ Whole' /\ Acknowledged' /\ Across'
           /\ \A n \in Int : EmptyAfter(n) /\ (step = "append" => into <= n) => EmptyAfter(n)'
<1>1. \A i \in Segments :
         /\ t[i] \in Seq(Pieces) /\ Len(t[i]) \in Nat /\ DOMAIN t[i] = 1..Len(t[i])
         /\ synced[i] \in Nat /\ synced'[i] \in Nat
         /\ \A j \in 1..Len(t[i]) : t[i][j] \in Pieces /\ t[i][j].batch \in Int
  <2> TAKE i \in Segments
  <2>1. t[i] \in Seq(Pieces)  BY DEF Within
  <2>2. \A p \in Pieces : p.batch \in Int  BY Assumption DEF Pieces, Batches
  <2> QED BY <2>1, <2>2, PiecesTyped DEF IInv
<1>2. step = "append" => batch = appended /\ call = "append" /\ Fresh = appended
  BY DEF IInv, Control, Fresh
<1>3. appended \in Int /\ Fresh \in Int /\ Fresh' \in Int
  BY <1>2 DEF IInv, HistoryTyped, Fresh
<1>4. \A i \in Segments : \A j \in 1..Len(t[i]) :
         \/ /\ j \in DOMAIN segment[i] /\ t[i][j] = segment[i][j]
            /\ t[i][j].batch < Fresh
         \/ step = "append" /\ i = into /\ j = Len(segment[i]) + 1 /\ t[i][j].batch = Fresh
  <2> TAKE i \in Segments
  <2> TAKE j \in 1..Len(t[i])
  <2>1. CASE j <= Len(segment[i]) /\ t[i][j] = segment[i][j]
    BY <2>1, <1>1, PiecesTyped DEF IInv, InFile
  <2>2. CASE step = "append" /\ i = into /\ j = Len(segment[i]) + 1 /\ NewPiece(t[i][j])
    BY <2>2, <1>2 DEF NewPiece
  <2> QED BY <2>1, <2>2 DEF Within
<1>5. InFile'
  <2>1. \A i \in Segments : \A j \in DOMAIN t[i] : t[i][j].batch < Fresh'
    <3> TAKE i \in Segments
    <3> TAKE j \in DOMAIN t[i]
    <3>1. t[i][j].batch \in Int /\ j \in 1..Len(t[i])  BY <1>1
    <3>2. t[i][j].batch < Fresh \/ (step = "append" /\ t[i][j].batch = Fresh)  BY <1>4, <3>1
    <3> QED BY <3>1, <3>2, <1>2, <1>3
  <2>2. \A i \in Segments : \A j, n \in DOMAIN t[i] : j < n => t[i][j].batch < t[i][n].batch
    <3> SUFFICES ASSUME NEW i \in Segments, NEW j \in DOMAIN t[i], NEW n \in DOMAIN t[i], j < n
                 PROVE  t[i][j].batch < t[i][n].batch
      OBVIOUS
    <3>1. j \in 1..Len(t[i]) /\ n \in 1..Len(t[i]) /\ Len(segment[i]) \in Nat
          /\ DOMAIN segment[i] = 1..Len(segment[i]) /\ Len(t[i]) \in Nat
      BY <1>1, PiecesTyped DEF IInv
    <3>2. n \in DOMAIN segment[i] \/ n = Len(segment[i]) + 1
      BY <3>1, <1>4
    <3>3. j <= Len(segment[i])  BY <3>1, <3>2
    <3>4. j \in DOMAIN segment[i] /\ t[i][j] = segment[i][j] /\ t[i][j].batch < Fresh
      BY <3>1, <3>3, <1>4
    <3>5. CASE n \in DOMAIN segment[i] /\ t[i][n] = segment[i][n]
      BY <3>4, <3>5 DEF IInv, InFile
    <3>6. CASE t[i][n].batch = Fresh
      BY <3>4, <3>6
    <3> QED BY <3>1, <1>4, <3>5, <3>6
  <2> QED BY <2>1, <2>2 DEF InFile
<1>6. Whole'
  <2> SUFFICES ASSUME ~left.torn, NEW i \in Segments, NEW j \in DOMAIN t[i]
               PROVE  t[i][j].form = "line" /\ t[i][j].first
    BY DEF Whole, Same
  <2>1. j \in 1..Len(t[i])  BY <1>1
  <2>2. CASE j <= Len(segment[i]) /\ t[i][j] = segment[i][j]
    BY <2>1, <2>2, <1>1, PiecesTyped DEF IInv, Whole
  <2> QED BY <2>1, <2>2 DEF Within, NewPiece
<1>7. Acknowledged'
  <2> SUFFICES ASSUME Sound, NEW b \in acked PROVE OnDisk(b)'
    BY DEF Acknowledged, Promises
  <2>0. PICK i \in Segments : \E j \in 1..synced[i] :
           segment[i][j].batch = b /\ segment[i][j].form = "line"
    BY DEF IInv, Acknowledged, OnDisk
  <2>1. PICK j \in 1..synced[i] : segment[i][j].batch = b /\ segment[i][j].form = "line"
    BY <2>0
  <2>2. j \in 1..Len(segment[i]) /\ j \in 1..Len(t[i]) /\ j \in 1..synced'[i]
    BY <1>1, PiecesTyped DEF IInv
  <2>3. t[i][j] = segment[i][j]
    BY <2>2, PiecesTyped, <1>1 DEF Within, IInv
  <2> QED BY <2>1, <2>2, <2>3 DEF OnDisk
<1>8. \A n \in Int : EmptyAfter(n) /\ (step = "append" => into <= n) => EmptyAfter(n)'
  <2> SUFFICES ASSUME NEW n \in Int, EmptyAfter(n), step = "append" => into <= n,
                      NEW i \in Segments, i > n
               PROVE  t[i] = <<>>
    BY DEF EmptyAfter
  <2>1. segment[i] = <<>> /\ i \in Int  BY Assumption DEF EmptyAfter, Segments
  <2>2. step = "append" => into # i
    BY <2>1, Assumption DEF IInv, Control, Segments
  <2>3. \A j \in 1..Len(t[i]) : FALSE
    BY <2>1, <2>2, <1>4
  <2>4. Len(t[i]) = 0  BY <2>3, <1>1
  <2> QED BY <2>4, <1>1
<1>9. Across'
  <2> SUFFICES ASSUME Steady', NEW i \in Segments, NEW m \in Segments,
                      NEW j \in DOMAIN t[i], NEW n \in DOMAIN t[m], i < m
               PROVE  t[i][j].batch < t[m][n].batch
    BY DEF Across
  <2>0. Steady /\ j \in 1..Len(t[i]) /\ n \in 1..Len(t[m])
    BY <1>1 DEF Promises
  <2>1. CASE n \in DOMAIN segment[m] /\ t[m][n] = segment[m][n]
    <3>1. step = "append" => into # i
      <4> SUFFICES ASSUME step = "append", into = i PROVE FALSE  OBVIOUS
      <4>1. EmptyAfter(into)  BY <2>0 DEF IInv, Frontier
      <4>2. segment[m] = <<>>  BY <4>1 DEF EmptyAfter
      <4> QED BY <2>1, <4>2
    <3>2. j \in DOMAIN segment[i] /\ t[i][j] = segment[i][j]
      BY <2>0, <3>1, <1>4
    <3> QED BY <2>0, <2>1, <3>2 DEF IInv, Across
  <2>2. CASE step = "append" /\ m = into /\ t[m][n].batch = Fresh
    BY <2>0, <2>2, <1>4, Assumption DEF Segments
  <2> QED BY <2>0, <2>1, <2>2, <1>4
<1> QED BY <1>5, <1>6, <1>7, <1>8, <1>9

(* What a piece more looks like *)
LEMMA PieceAdded ==
    ASSUME IInv, step = "append", NEW f \in Form, ~left.torn => f = "line",
           NEW t, t = WithPiece(f)
    PROVE  /\ Within(t)
           /\ Len(t[into]) = Len(segment[into]) + 1
           /\ t[into][Len(t[into])].batch = batch /\ t[into][Len(t[into])].form = f
<1> DEFINE p == [batch |-> batch, form |-> f, first |-> AtLineStart(into)]
<1>1. into \in Segments /\ batch \in Batches
  BY Assumption DEF IInv, Control, HistoryTyped, Batches
<1>2. AtLineStart(into) \in BOOLEAN  BY DEF AtLineStart
<1>3. p \in Pieces  BY <1>1, <1>2 DEF Pieces
<1>4. ~left.torn => AtLineStart(into)
  <2> SUFFICES ASSUME ~left.torn, segment[into] # <<>> PROVE AtLineStart(into)  BY DEF AtLineStart
  <2>1. Len(segment[into]) \in DOMAIN segment[into]
    BY <1>1, PiecesTyped DEF IInv
  <2>2. segment[into][Len(segment[into])].form = "line"
    BY <1>1, <2>1 DEF IInv, Whole
  <2> QED BY <2>2 DEF AtLineStart, Last
<1> DEFINE q == Append(segment[into], p)
<1>5. /\ q \in Seq(Pieces) /\ Len(q) = Len(segment[into]) + 1
      /\ \A j \in 1..Len(segment[into]) : q[j] = segment[into][j]
      /\ q[Len(segment[into]) + 1] = p
  <2>1. segment[into] \in Seq(Pieces)  BY <1>1, PiecesTyped DEF IInv
  <2> QED BY <1>3, <2>1
<1>6. t = [segment EXCEPT ![into] = q]
  BY DEF WithPiece
<1>7. segment \in [Segments -> Seq(Pieces)]  BY DEF IInv, FilesTyped
<1> HIDE DEF q
<1>8. t \in [Segments -> Seq(Pieces)] /\ t[into] = q
      /\ \A i \in Segments : i # into => t[i] = segment[i]
  BY <1>1, <1>5, <1>6, <1>7
<1>9. \A i \in Segments : Len(segment[i]) \in Nat /\ synced[i] \in 0..Len(segment[i])
  BY PiecesTyped DEF IInv
<1>10. NewPiece(p)
  BY <1>4 DEF NewPiece
<1> HIDE DEF p
<1>11. Within(t)
  <2>1. ASSUME NEW i \in Segments, i # into
        PROVE  /\ synced[i] <= Len(t[i])
               /\ \A j \in 1..Len(t[i]) : j <= Len(segment[i]) /\ t[i][j] = segment[i][j]
    BY <2>1, <1>8, <1>9
  <2>2. synced[into] <= Len(t[into])
    BY <1>1, <1>5, <1>8, <1>9
  <2>3. \A j \in 1..Len(t[into]) :
           \/ j <= Len(segment[into]) /\ t[into][j] = segment[into][j]
           \/ j = Len(segment[into]) + 1 /\ NewPiece(t[into][j])
    BY <1>1, <1>5, <1>8, <1>9, <1>10
  <2> QED BY <1>8, <2>1, <2>2, <2>3 DEF Within
<1>12. Len(t[into]) = Len(segment[into]) + 1 /\ t[into][Len(t[into])] = p
  BY <1>1, <1>5, <1>8
<1> QED BY <1>11, <1>12 DEF p

LEMMA CutOffWithin ==
    ASSUME IInv, NEW t \in CutOffSegment
    PROVE  Within(t)
<1>1. Within(segment)
  BY PiecesTyped DEF IInv, FilesTyped, Within
<1>2. CASE t = segment  BY <1>1, <1>2
<1>3. CASE t # segment
  <2>1. step = "append" /\ t \in PartlyAppended  BY <1>3 DEF CutOffSegment
  <2>2. PICK f \in IF left.torn THEN Form ELSE {"line"} : t = WithPiece(f)
    BY <1>3, <2>1 DEF PartlyAppended
  <2>3. f \in Form /\ (~left.torn => f = "line")  BY DEF Form
  <2> QED BY <2>1, <2>2, <2>3, PieceAdded
<1> QED BY <1>2, <1>3

LEMMA IntoReached ==
    ASSUME IInv, step \in {"append", "syncFile"}
    PROVE  into \in Segments /\ into \in Int /\ (Steady => Named(manifest) = into /\ Named(durable) = into)
    BY Assumption DEF IInv, Control, Frontier, Segments

LEMMA AppendLineStep == ASSUME IInv, AppendLine PROVE IInv'
<1> USE DEF AppendLine, Works, Go, history
<1>1. PICK t : t = WithPiece("line") /\ segment' = t
  OBVIOUS
<1>2. /\ Within(t) /\ Len(t[into]) = Len(segment[into]) + 1
      /\ t[into][Len(t[into])].batch = batch /\ t[into][Len(t[into])].form = "line"
  BY <1>1, PieceAdded DEF Form
<1>3. Same /\ HistoryTyped'  BY LeftKept DEF IInv, HistoryTyped
<1>4. call = "append" /\ into \in Segments /\ appended \in Int
  BY IntoReached DEF IInv, Control, HistoryTyped
<1>5. FilesTyped'
  BY <1>1, <1>2 DEF IInv, FilesTyped, Within
<1>6. Control'  BY <1>4 DEF IInv, Control, Steps, Saving
<1>7. InReach' /\ Emptied'
  BY <1>4 DEF IInv, InReach, Reached, Emptied, Saving
<1>8. Promises  BY DEF Promises, Steady, Sound
<1>9. Fresh = appended /\ Fresh' = appended + 1
  BY <1>4 DEF Fresh
<1>10. synced' \in [Segments -> Nat] /\ \A i \in Segments : synced[i] <= synced'[i] /\ synced'[i] <= Len(t[i])
  BY <1>2, <1>1 DEF IInv, FilesTyped, Within
<1>11. /\ InFile' /\ Whole' /\ Acknowledged' /\ Across'
       /\ \A n \in Int : EmptyAfter(n) /\ (step = "append" => into <= n) => EmptyAfter(n)'
  BY <1>1, <1>2, <1>3, <1>4, <1>8, <1>9, <1>10, WithinKeeps
<1>12. LineIsLast'
  <2>1. t[into] # <<>>
    BY <1>2, <1>4, PiecesTyped DEF IInv
  <2> QED BY <1>1, <1>2, <2>1 DEF LineIsLast
<1>13. Frontier'
  <2> SUFFICES ASSUME Steady' PROVE Frontier'  BY DEF Frontier
  <2>1. Steady /\ Named(manifest) = into /\ Named(durable) = into /\ into \in Int
    BY <1>8, IntoReached DEF Promises
  <2>2. EmptyAfter(into)'
    BY <1>11, <2>1 DEF IInv, Frontier
  <2>3. UNCHANGED <<manifest, durable, into>> /\ step' = "syncFile"  OBVIOUS
  <2> QED BY <2>1, <2>2, <2>3 DEF Frontier, EmptyAfter, Named, Saving
<1>14. Attached'
  <2>1. SamePhase  BY <1>4, <1>9 DEF SamePhase, WithMedium
  <2> QED BY <1>3, <1>8, <2>1, MediaFrame
<1> QED BY <1>3, <1>5, <1>6, <1>7, <1>11, <1>12, <1>13, <1>14 DEF IInv

(* A medium that a step leaves halfway is that of the batch being          *)
(* appended, and a power failure takes nothing that was synchronised.      *)
MediaWithin(c) ==
    /\ c \in [Batches -> {"none", "torn", "written", "synced"}]
    /\ \A b \in Batches :
          \/ media[b] \in {"none", "synced"} /\ c[b] = media[b]
          \/ media[b] \in {"torn", "written"}
          \/ step = "attach" /\ b = Medium /\ media[b] = "none"

LEMMA CutOffMediaWithin == ASSUME IInv, NEW c \in CutOffMedia PROVE MediaWithin(c)
<1>1. MediaWithin(media)  BY DEF IInv, FilesTyped, MediaWithin
<1>2. CASE c = media  BY <1>1, <1>2
<1>3. CASE c # media
  <2>1. step = "attach" /\ media[Medium] = "none" /\ c \in PartlyWritten
    BY <1>3 DEF CutOffMedia
  <2>2. Medium \in Batches  BY <2>1, MediumTyped
  <2> QED BY <2>1, <2>2, PartlyWrittenTyped DEF MediaWithin, IInv, FilesTyped
<1> QED BY <1>2, <1>3

(* The files of media after a break off *)
LEMMA MediaBreakOff ==
    ASSUME IInv, BreaksOff, Same, Promises, NEW c, media' = c, MediaWithin(c)
    PROVE  Attached'
<1> SUFFICES ASSUME left.media = "own" PROVE Attached'  BY DEF Attached, Same
<1>1. call' = "none" /\ acked' = acked /\ appended' = appended
  BY DEF BreaksOff, Return
<1>2. ASSUME NEW b \in Batches, b > appended PROVE c[b] = "none"
  <2>1. media[b] = "none"  BY <1>2 DEF IInv, Attached
  <2>2. step = "attach" => Medium = appended
    BY DEF Medium, IInv, Control
  <2>3. ~(step = "attach" /\ b = Medium)
    BY <1>2, <2>2, Assumption DEF IInv, HistoryTyped, Batches
  <2> QED BY <2>1, <2>3 DEF MediaWithin
<1>3. ASSUME Sound, NEW b \in acked PROVE c[b] = "synced"
  <2>1. b \in Batches /\ media[b] = "synced"
    BY <1>3, Assumption DEF IInv, Attached, HistoryTyped, Batches
  <2> QED BY <2>1 DEF MediaWithin
<1> QED BY <1>1, <1>2, <1>3 DEF Attached, Promises

(* A call breaks off, with the file it appended to in any state.           *)
LEMMA CutOffStep ==
    ASSUME IInv, BreaksOff, Same, NEW t, segment' = t, Within(t),
           NEW c, media' = c, MediaWithin(c), FilesTyped', \A i \in Segments : synced[i] <= synced'[i],
           manifest' \in {manifest, durable}, durable' \in {manifest, durable}, tmp' <= Reached
    PROVE  IInv'
<1>1. manifest' <= Reached /\ durable' <= Reached
  BY DEF IInv, InReach
<1>2. /\ HistoryTyped' /\ Control' /\ LineIsLast' /\ Emptied'
      /\ Promises /\ SamePhase /\ InReach'
  BY <1>1, BreakingOff
<1>3. call' = "none" /\ step' = "idle" /\ UNCHANGED <<acked, appended>> /\ Fresh <= Fresh'
  BY <1>2 DEF BreaksOff, Return, SamePhase
<1>4. Fresh' = appended + 1
  BY <1>3 DEF Fresh
<1>5. appended \in Int  BY DEF IInv, HistoryTyped
<1>6. synced' \in [Segments -> Nat] /\ \A i \in Segments : synced[i] <= synced'[i] /\ synced'[i] <= Len(t[i])
  BY DEF FilesTyped
<1>7. /\ InFile' /\ Whole' /\ Acknowledged' /\ Across'
      /\ \A n \in Int : EmptyAfter(n) /\ (step = "append" => into <= n) => EmptyAfter(n)'
  BY <1>2, <1>3, <1>4, <1>5, <1>6, WithinKeeps
<1>8. Frontier'
  <2> SUFFICES ASSUME Steady' PROVE Frontier'  BY DEF Frontier
  <2>1. Steady  BY <1>2 DEF Promises
  <2>2. \A m \in {manifest, durable} : Named(m) \in Int
    BY NamedIsSegment, Assumption DEF IInv, FilesTyped, Segments
  <2>3. \A m \in {manifest, durable} : EmptyAfter(Named(m))'
    <3> TAKE m \in {manifest, durable}
    <3>1. EmptyAfter(Named(m))  BY <2>1 DEF IInv, Frontier
    <3>2. step = "append" => into <= Named(m)
      BY <2>1, IntoReached
    <3>3. PICK n \in Int : n = Named(m)  BY <2>2
    <3>4. EmptyAfter(n)'  BY <1>7, <3>1, <3>2, <3>3
    <3> QED BY <3>3, <3>4 DEF EmptyAfter, Named
  <2> QED BY <1>3, <2>3 DEF Frontier, EmptyAfter, Named, Saving
<1>9. Attached'
  BY <1>2, MediaBreakOff
<1> QED BY <1>2, <1>7, <1>8, <1>9 DEF IInv

LEMMA AppendFailsStep == ASSUME IInv, AppendFails PROVE IInv'
<1> USE DEF AppendFails
<1>1. PICK t : segment' = t  OBVIOUS
<1>2. Within(t)  BY <1>1, CutOffWithin DEF CutOffSegment
<1>3. BreaksOff /\ Same  BY FailsBreaksOff DEF IInv
<1>4. FilesTyped'  BY <1>1, <1>2 DEF IInv, FilesTyped, Within
<1>5. \A i \in Segments : synced[i] <= synced'[i]
  BY DEF IInv, FilesTyped
<1>6. PICK c : media' = c /\ MediaWithin(c)
  BY DEF IInv, FilesTyped, MediaWithin
<1> QED BY <1>1, <1>2, <1>3, <1>4, <1>5, <1>6, CutOffStep DEF IInv, InReach

(* The line is synchronised before its batch is acknowledged. *)
LEMMA SyncFileStep == ASSUME IInv, SyncFile PROVE IInv'
<1> USE DEF SyncFile
<1>0. /\ into \in Segments /\ call = "append" /\ batch = appended /\ appended \in Int /\ batch \in 1..appended
  BY IntoReached DEF IInv, Control, HistoryTyped
<1>1. Same  BY LeftKept DEF IInv
<1>2. \A i \in Segments : synced'[i] \in Nat /\ synced[i] <= synced'[i] /\ synced'[i] <= Len(segment[i])
  BY <1>0, PiecesTyped DEF IInv, FilesTyped
<1>3. FilesTyped'
  BY <1>0, <1>2 DEF IInv, FilesTyped
<1>4. HistoryTyped'  BY <1>0 DEF IInv, HistoryTyped
<1>5. Control' /\ LineIsLast' /\ Emptied'
  BY DEF Control, Return, Steps, Saving, LineIsLast, Emptied
<1>6. Promises  BY <1>0 DEF Promises, Steady, Sound
<1>7. InReach'
  <2>1. Reached \in Int /\ Reached <= Reached' /\ Reached' = appended + 1
    BY <1>0 DEF Reached, Return
  <2>2. manifest \in Int /\ tmp \in Int /\ durable \in Int
    BY Assumption DEF IInv, FilesTyped, Segments, Absent, Torn
  <2> QED BY <1>0, <2>1, <2>2 DEF IInv, InReach, Return
<1>8. Fresh' = Fresh
  BY <1>0 DEF Fresh, Return
<1>9. InFile' /\ Whole' /\ Across'
  BY <1>6, <1>8 DEF IInv, InFile, Whole, Across, Promises
<1>10. Acknowledged'
  <2> SUFFICES ASSUME Sound', NEW b \in acked' PROVE OnDisk(b)'  BY DEF Acknowledged
  <2>1. CASE b \in acked
    <3>0. PICK i \in Segments : \E j \in 1..synced[i] :
             segment[i][j].batch = b /\ segment[i][j].form = "line"
      BY <1>6, <2>1 DEF IInv, Acknowledged, OnDisk, Promises
    <3>1. PICK j \in 1..synced[i] : segment[i][j].batch = b /\ segment[i][j].form = "line"
      BY <3>0
    <3>2. j \in 1..synced'[i]
      BY <1>2, PiecesTyped DEF IInv
    <3> QED BY <3>1, <3>2 DEF OnDisk
  <2>2. CASE b = batch
    <3>1. /\ segment[into][Len(segment[into])].batch = b /\ segment[into][Len(segment[into])].form = "line"
          /\ segment[into] # <<>>
      BY <2>2 DEF IInv, LineIsLast
    <3>2. synced'[into] = Len(segment[into]) /\ Len(segment[into]) \in 1..synced'[into]
      BY <1>0, <3>1, PiecesTyped DEF IInv, FilesTyped
    <3> QED BY <1>0, <3>1, <3>2 DEF OnDisk
  <2> QED BY <2>1, <2>2
<1>11. Frontier'
  BY <1>6 DEF IInv, Frontier, EmptyAfter, Promises, Return, Saving
<1>12. Attached'
  <2>1. left.media = "own" => media[batch] = "synced"
    BY <1>0 DEF IInv, Attached, WithMedium
  <2> QED BY <1>6, <2>1 DEF IInv, Attached, Return, Promises
<1> QED BY <1>3, <1>4, <1>5, <1>7, <1>9, <1>10, <1>11, <1>12 DEF IInv

-----------------------------------------------------------------------------
(* Clearing *)

LEMMA NotPromised == ASSUME IInv, step = "remove" PROVE call = "clear" /\ ~Sound /\ ~Steady
    BY DEF IInv, Control, Sound, Steady

(* A file goes; what it held was not promised. *)
LEMMA RemoveStep ==
    ASSUME IInv, step = "remove", UNCHANGED <<durable, control, history, left>>,
           manifest' \in {manifest, Absent}, tmp' \in {tmp, Absent},
           segment' \in [Segments -> Seq(Pieces)], synced' \in [Segments -> Nat],
           \A i \in Segments :
              (segment'[i] = segment[i] /\ synced'[i] = synced[i]) \/ (segment'[i] = <<>> /\ synced'[i] = 0),
           media' \in [Batches -> {"none", "torn", "written", "synced"}],
           \A b \in Batches : media'[b] \in {media[b], "none"}
    PROVE  IInv'
<1> USE DEF control, history
<1>0. call = "clear" /\ ~Sound' /\ ~Steady'
  BY NotPromised DEF Sound, Steady
<1>1. FilesTyped'
  <2>1. \A i \in Segments : synced'[i] <= Len(segment'[i])
    <3> TAKE i \in Segments
    <3>1. CASE segment'[i] = segment[i] /\ synced'[i] = synced[i]
      BY <3>1 DEF IInv, FilesTyped
    <3>2. CASE segment'[i] = <<>> /\ synced'[i] = 0
      BY <3>2
    <3> QED BY <3>1, <3>2
  <2> QED BY <2>1 DEF IInv, FilesTyped
<1>2. HistoryTyped'  BY DEF IInv, HistoryTyped
<1>3. Control'  BY DEF IInv, Control, Saving
<1>4. InReach'
  BY ReachedTyped DEF IInv, InReach, Reached, Absent
<1>5. InFile' /\ Whole'
  <2>1. \A i \in Segments : segment'[i] = segment[i] \/ DOMAIN segment'[i] = {}
    OBVIOUS
  <2>2. Fresh' = Fresh  BY DEF Fresh
  <2>3. InFile'  BY <2>1, <2>2 DEF IInv, InFile
  <2>4. Whole'   BY <2>1 DEF IInv, Whole
  <2> QED BY <2>3, <2>4
<1>6. LineIsLast' /\ Emptied'
  BY DEF LineIsLast, Emptied, Saving
<1>7. Acknowledged' /\ Frontier' /\ Across'
  BY <1>0 DEF Acknowledged, Frontier, Across
<1>8. Attached'
  BY <1>0 DEF IInv, Attached
<1> QED BY <1>1, <1>2, <1>3, <1>4, <1>5, <1>6, <1>7, <1>8 DEF IInv

LEMMA RemoveManifestStep == ASSUME IInv, RemoveManifest PROVE IInv'
    BY RemoveStep DEF RemoveManifest, Works, IInv, FilesTyped

LEMMA RemoveTemporaryStep == ASSUME IInv, RemoveTemporary PROVE IInv'
    BY RemoveStep DEF RemoveTemporary, Works, IInv, FilesTyped

LEMMA RemoveSegmentStep == ASSUME IInv, NEW i \in Segments, RemoveSegment(i) PROVE IInv'
<1> USE DEF RemoveSegment, Works
<1>1. segment' \in [Segments -> Seq(Pieces)] /\ synced' \in [Segments -> Nat]
  BY DEF IInv, FilesTyped
<1>2. \A k \in Segments :
        (segment'[k] = segment[k] /\ synced'[k] = synced[k]) \/ (segment'[k] = <<>> /\ synced'[k] = 0)
  BY DEF IInv, FilesTyped
<1> QED BY <1>1, <1>2, RemoveStep DEF IInv, FilesTyped

LEMMA RemoveMediumStep == ASSUME IInv, NEW b \in Batches, RemoveMedium(b) PROVE IInv'
<1> USE DEF RemoveMedium, Works
<1>1. media' \in [Batches -> {"none", "torn", "written", "synced"}]
      /\ \A c \in Batches : media'[c] \in {media[c], "none"}
  BY DEF IInv, FilesTyped
<1> QED BY <1>1, RemoveStep DEF IInv, FilesTyped

LEMMA RemovedStep == ASSUME IInv, Removed PROVE IInv'
<1> USE DEF Removed, Works, Save, files, history
<1>0. call = "clear" /\ into = 0 /\ ~Sound' /\ ~Steady' /\ 1 \in Segments
  BY NotPromised, Assumption DEF Sound, Steady, IInv, Control, Segments
<1>1. FilesTyped' /\ HistoryTyped'  BY DEF IInv, FilesTyped, HistoryTyped
<1>2. Control'  BY <1>0 DEF IInv, Control, Steps, Saving
<1>3. InReach'  BY <1>0, ReachedTyped DEF IInv, InReach, Reached
<1>4. SamePhase /\ Emptied' /\ Promises
  BY <1>0 DEF SamePhase, Fresh, IInv, HistoryTyped, Emptied, Promises
<1>5. Frontier'  BY <1>0 DEF Frontier
<1> QED BY <1>1, <1>2, <1>3, <1>4, <1>5, LeftKept, QuietStep DEF IInv

-----------------------------------------------------------------------------
(* The process stops or the power fails *)

LEMMA CutOffTmpTyped ==
    ASSUME IInv, NEW m \in CutOffTmp
    PROVE  m \in {Absent, Torn} \cup Segments /\ m <= Reached
<1>1. step = "write" => saving \in Segments /\ saving <= Reached
  BY DEF IInv, Control, Saving, InReach
<1>2. tmp \in {Absent, Torn} \cup Segments /\ tmp <= Reached
  BY DEF IInv, FilesTyped, InReach
<1>3. Torn <= Reached  BY ReachedTyped DEF Torn
<1> QED BY <1>1, <1>2, <1>3 DEF CutOffTmp

LEMMA ProcessStopsStep == ASSUME IInv, ProcessStops PROVE IInv'
<1> USE DEF ProcessStops
<1>1. BreaksOff /\ Same  BY HappensKeeps DEF IInv, Interrupted, BreaksOff
<1>2. PICK t : segment' = t /\ Within(t)  BY CutOffWithin
<1>3. PICK c : media' = c /\ MediaWithin(c)  BY CutOffMediaWithin
<1>4. tmp' \in {Absent, Torn} \cup Segments /\ tmp' <= Reached  BY CutOffTmpTyped
<1>5. FilesTyped'
  BY <1>2, <1>3, <1>4 DEF IInv, FilesTyped, Within, MediaWithin
<1>6. \A i \in Segments : synced[i] <= synced'[i]  BY DEF IInv, FilesTyped
<1> QED BY <1>1, <1>2, <1>3, <1>4, <1>5, <1>6, CutOffStep

(* A power failure keeps of each file what was synchronised, and more by   *)
(* chance.                                                                 *)
Shortened(cut, unsure, keep) ==
    [i \in Segments |-> IF i \in unsure THEN SubSeq(cut[i], 1, keep[i]) ELSE cut[i]]

LEMMA Remaining ==
    ASSUME IInv, NEW cut, Within(cut), NEW unsure, unsure \subseteq Segments, NEW keep,
           \A i \in unsure : keep[i] \in synced[i]..Len(cut[i]),
           NEW t, t = Shortened(cut, unsure, keep)
    PROVE  /\ Within(t)
           /\ \A i \in unsure : keep[i] \in Nat /\ Len(t[i]) = keep[i]
<1>1. ASSUME NEW i \in unsure
      PROVE  /\ t[i] \in Seq(Pieces) /\ keep[i] \in Nat /\ Len(t[i]) = keep[i]
             /\ synced[i] <= Len(t[i])
             /\ \A j \in 1..Len(t[i]) : j \in 1..Len(cut[i]) /\ t[i][j] = cut[i][j]
  <2>1. cut[i] \in Seq(Pieces) /\ t[i] = SubSeq(cut[i], 1, keep[i]) /\ synced[i] \in Nat
    BY PiecesTyped DEF Within, IInv, Shortened
  <2>2. keep[i] \in Nat /\ keep[i] <= Len(cut[i]) /\ synced[i] <= keep[i]
    BY <2>1
  <2> QED BY <2>1, <2>2
<1>2. \A i \in Segments \ unsure : t[i] = cut[i]  BY DEF Shortened
<1>3. t \in [Segments -> Seq(Pieces)]
  BY <1>1, <1>2 DEF Within, Shortened
<1>4. Within(t)
  <2> SUFFICES ASSUME NEW i \in Segments
               PROVE  /\ synced[i] <= Len(t[i])
                      /\ \A j \in 1..Len(t[i]) :
                            \/ j <= Len(segment[i]) /\ t[i][j] = segment[i][j]
                            \/ step = "append" /\ i = into /\ j = Len(segment[i]) + 1 /\ NewPiece(t[i][j])
    BY <1>3 DEF Within
  <2>1. CASE i \in unsure
    <3>1. /\ synced[i] <= Len(t[i])
          /\ \A j \in 1..Len(t[i]) : j \in 1..Len(cut[i]) /\ t[i][j] = cut[i][j]
      BY <2>1, <1>1
    <3>2. \A j \in 1..Len(cut[i]) :
            \/ j <= Len(segment[i]) /\ cut[i][j] = segment[i][j]
            \/ step = "append" /\ i = into /\ j = Len(segment[i]) + 1 /\ NewPiece(cut[i][j])
      BY DEF Within
    <3> QED BY <3>1, <3>2
  <2>2. CASE i \notin unsure  BY <2>2, <1>2 DEF Within
  <2> QED BY <2>1, <2>2
<1> QED BY <1>1, <1>4

LEMMA PowerFailsStep == ASSUME IInv, PowerFails PROVE IInv'
<1>1. BreaksOff /\ Same  BY HappensKeeps DEF IInv, PowerFails, Interrupted, BreaksOff
<1>2. PICK cut \in CutOffSegment :
        LET unsure == {i \in Segments : synced[i] < Len(cut[i])} IN
        \E keep \in [unsure -> 0..MaxBatches] :
            /\ \A i \in unsure : keep[i] \in synced[i]..Len(cut[i])
            /\ segment' = [i \in Segments |->
                             IF i \in unsure THEN SubSeq(cut[i], 1, keep[i]) ELSE cut[i]]
            /\ synced' = [i \in Segments |-> IF i \in unsure THEN keep[i] ELSE synced[i]]
  BY DEF PowerFails
<1>3. Within(cut)  BY CutOffWithin
<1> DEFINE loose == {i \in Segments : synced[i] < Len(cut[i])}
<1>4. PICK keep \in [loose -> 0..MaxBatches] :
         /\ \A i \in loose : keep[i] \in synced[i]..Len(cut[i])
         /\ segment' = Shortened(cut, loose, keep)
         /\ synced' = [i \in Segments |-> IF i \in loose THEN keep[i] ELSE synced[i]]
  BY <1>2 DEF Shortened
<1>a. \A i : i \in loose <=> i \in Segments /\ synced[i] < Len(cut[i])
  OBVIOUS
<1> HIDE DEF loose
<1>b. PICK unsure : unsure = loose  OBVIOUS
<1>5. /\ unsure \subseteq Segments
      /\ \A i \in Segments \ unsure : ~(synced[i] < Len(cut[i]))
      /\ \A i \in unsure : keep[i] \in synced[i]..Len(cut[i])
      /\ segment' = Shortened(cut, unsure, keep)
      /\ synced' = [i \in Segments |-> IF i \in unsure THEN keep[i] ELSE synced[i]]
  BY <1>4, <1>a, <1>b
<1>6. PICK t : t = segment' /\ t = Shortened(cut, unsure, keep)
  BY <1>5
<1>7. Within(t) /\ \A i \in unsure : keep[i] \in Nat /\ Len(t[i]) = keep[i]
  BY <1>3, <1>5, <1>6, Remaining, SMTT(30)
<1>8. \A i \in Segments : synced[i] \in Nat
  BY PiecesTyped DEF IInv
<1>9. /\ synced' \in [Segments -> Nat]
      /\ \A i \in Segments : synced[i] <= synced'[i] /\ synced'[i] <= Len(t[i])
  <2>1. synced' \in [Segments -> Nat]  BY <1>5, <1>7, <1>8
  <2>2. ASSUME NEW i \in unsure PROVE synced[i] <= synced'[i] /\ synced'[i] <= Len(t[i])
    BY <1>5, <1>7, <1>8 DEF Within
  <2>3. ASSUME NEW i \in Segments \ unsure PROVE synced[i] <= synced'[i] /\ synced'[i] <= Len(t[i])
    BY <1>5, <1>7, <1>8 DEF Within
  <2> QED BY <2>1, <2>2, <2>3
<1>10. PICK cm \in CutOffMedia :
          \E keepm \in [{b \in Batches : cm[b] \in DOMAIN Remains} -> {"none", "torn", "synced"}] :
              media' = [b \in Batches |-> IF b \in DOMAIN keepm THEN keepm[b] ELSE cm[b]]
  BY DEF PowerFails
<1>11. PICK keepm \in [{b \in Batches : cm[b] \in DOMAIN Remains} -> {"none", "torn", "synced"}] :
          media' = [b \in Batches |-> IF b \in DOMAIN keepm THEN keepm[b] ELSE cm[b]]
  BY <1>10
<1>12. PICK c : c = media' /\ MediaWithin(c)
  <2>1. MediaWithin(cm)  BY CutOffMediaWithin
  <2>2. DOMAIN Remains = {"torn", "written"}  BY DEF Remains
  <2>3. \A b \in Batches : media'[b] = cm[b] \/ (cm[b] \in {"torn", "written"} /\ media'[b] \in {"none", "torn", "synced"})
    BY <1>11, <2>2
  <2>4. media' \in [Batches -> {"none", "torn", "written", "synced"}]
    BY <1>11, <2>1, <2>3 DEF MediaWithin
  <2>5. \A b \in Batches :
          \/ media[b] \in {"none", "synced"} /\ media'[b] = media[b]
          \/ media[b] \in {"torn", "written"}
          \/ step = "attach" /\ b = Medium /\ media[b] = "none"
    BY <2>1, <2>3 DEF MediaWithin
  <2> QED BY <2>4, <2>5 DEF MediaWithin
<1>13. /\ manifest' \in {durable, manifest} /\ durable' \in {durable, manifest}
       /\ tmp' \in CutOffTmp \cup {Absent, Torn, manifest}
  BY DEF PowerFails
<1>14. tmp' \in {Absent, Torn} \cup Segments /\ tmp' <= Reached
  <2>1. manifest <= Reached /\ manifest \in {Absent} \cup Segments
    BY DEF IInv, FilesTyped, InReach
  <2>2. Absent <= Reached /\ Torn <= Reached
    BY ReachedTyped DEF Absent, Torn
  <2> QED BY <1>13, <2>1, <2>2, CutOffTmpTyped
<1>15. FilesTyped'
  BY <1>6, <1>7, <1>9, <1>12, <1>13, <1>14 DEF IInv, FilesTyped, Within, MediaWithin
<1> QED BY <1>1, <1>6, <1>7, <1>9, <1>12, <1>13, <1>14, <1>15, CutOffStep

-----------------------------------------------------------------------------
(* The theorems *)

LEMMA InitHolds == ASSUME Init PROVE IInv
<1> USE DEF Init
<1>1. FilesTyped  BY Assumption DEF FilesTyped, Segments, Batches, Absent, Torn
<1>2. left \in Environment /\ left.appends \in 0..MaxBatches
  BY Assumption DEF Environment
<1>3. HistoryTyped
  <2>1. appended \in 0..MaxBatches /\ appended + left.appends <= MaxBatches
    BY <1>2, Assumption
  <2>2. acked \subseteq 1..appended  OBVIOUS
  <2> QED BY <1>2, <2>1, <2>2 DEF HistoryTyped
<1>4. Control /\ InReach
  BY DEF Control, Steps, Saving, InReach, Reached, Absent
<1>5. InFile /\ Whole /\ LineIsLast /\ Acknowledged /\ Emptied /\ Frontier /\ Across
  BY DEF InFile, Whole, LineIsLast, Acknowledged, Emptied, Frontier, EmptyAfter, Across, Saving
<1>6. Attached  BY DEF Attached
<1> QED BY <1>1, <1>3, <1>4, <1>5, <1>6 DEF IInv

LEMMA NextKeeps == ASSUME IInv, [Next]_vars PROVE IInv'
<1>1. CASE Create               BY <1>1, CreateStep
<1>2. CASE AppendRecords        BY <1>2, AppendRecordsStep
<1>3. CASE ClearSession         BY <1>3, ClearSessionStep
<1>4. CASE Recover              BY <1>4, RecoverStep
<1>5. CASE CheckManifest        BY <1>5, CheckManifestStep
<1>6. CASE CheckManifestUnread  BY <1>6, CheckManifestUnreadStep
<1>7. CASE SaveSteps
  <2>1. CASE SyncDirectoryFails  BY <2>1, IdleFail DEF SyncDirectoryFails
  <2> QED BY <1>7, <2>1, WriteManifestStep, WriteManifestFailsStep, ReplaceManifestStep,
             ReplaceManifestFailsStep, SyncDirectoryStep DEF SaveSteps
<1>8. CASE MediumSteps
  <2>1. CASE SyncMediumFails  BY <2>1, IdleFail DEF SyncMediumFails
  <2> QED BY <1>8, <2>1, MediumThereStep, WriteMediumStep, WriteMediumFailsStep, SyncMediumStep
          DEF MediumSteps
<1>9. CASE AppendSteps
  <2>1. CASE SyncFileFails  BY <2>1, IdleFail DEF SyncFileFails
  <2> QED BY <1>9, <2>1, ChooseSegmentStep, ChooseSegmentUnreadStep, AppendLineStep,
             AppendFailsStep, SyncFileStep DEF AppendSteps
<1>10. CASE ClearSteps
  <2>1. CASE RemoveFails  BY <2>1, IdleFail DEF RemoveFails
  <2> QED BY <1>10, <2>1, RemoveManifestStep, RemoveTemporaryStep, RemoveSegmentStep,
             RemoveMediumStep, RemovedStep DEF ClearSteps
<1>11. CASE ProcessStops  BY <1>11, ProcessStopsStep
<1>12. CASE PowerFails    BY <1>12, PowerFailsStep
<1>13. CASE UNCHANGED vars
  <2> USE <1>13 DEF vars, files, control, history
  <2>1. FilesTyped' /\ HistoryTyped' /\ Control' /\ InReach'
    BY DEF IInv, FilesTyped, HistoryTyped, Control, InReach, Reached
  <2>2. InFile' /\ Whole' /\ LineIsLast' /\ Emptied'
    BY DEF IInv, InFile, Fresh, Whole, LineIsLast, Emptied
  <2>3. Acknowledged' /\ Frontier' /\ Across' /\ Attached'
    BY DEF IInv, Acknowledged, OnDisk, Frontier, EmptyAfter, Named, Across, Attached, WithMedium,
           Steady, Sound
  <2> QED BY <2>1, <2>2, <2>3 DEF IInv
<1> QED BY <1>1, <1>2, <1>3, <1>4, <1>5, <1>6, <1>7, <1>8, <1>9, <1>10, <1>11, <1>12, <1>13
    DEF Next

LEMMA Inductive == Spec => []IInv
<1>1. Init => IInv  BY InitHolds
<1>2. IInv /\ [Next]_vars => IInv'  BY NextKeeps
<1> QED BY <1>1, <1>2, PTL DEF Spec

(* Every segment with something in it is among those that load_messages    *)
(* reads (load_current_segment), unless an append relied on a manifest     *)
(* that the power took back.                                               *)
LEMMA NonemptyIsRead ==
    ASSUME IInv, Steady, NEW i \in Segments, segment[i] # <<>>
    PROVE  i <= CurrentSegment
<1>1. i <= Named(manifest)
  <2>1. Named(manifest) \in Segments  BY NamedIsSegment DEF IInv, FilesTyped
  <2> QED BY <2>1, Assumption DEF IInv, Frontier, EmptyAfter, Segments
<1>2. CASE manifest > 0  BY <1>1, <1>2 DEF CurrentSegment
<1>3. CASE ~(manifest > 0)
  <2>1. Fallback \in {Absent} \cup Segments  BY FallbackTyped DEF IInv
  <2>2. Named(Fallback) \in Segments  BY <2>1, NamedIsSegment
  <2>3. Named(manifest) = 1  BY <1>3 DEF Named
  <2> QED BY <1>1, <1>3, <2>2, <2>3, Assumption DEF CurrentSegment, Segments
<1> QED BY <1>2, <1>3

(* AckedOnDisk: no acknowledged batch, nor its medium, leaves the disk     *)
(* before a clear, whatever fails, stops or loses power between any two    *)
(* file operations of any calls, and a load reads the segment it is in     *)
(* (append_record_line, segmented_append_records).                         *)
THEOREM AckedStaysOnDisk == Spec => []AckedOnDisk
<1>1. ASSUME IInv PROVE AckedOnDisk
  <2> SUFFICES ASSUME Sound, NEW b \in acked
               PROVE  /\ \E i \in Segments : \E j \in 1..synced[i] :
                            /\ segment[i][j].batch = b /\ segment[i][j].form = "line"
                            /\ Steady => i <= CurrentSegment
                            /\ ~left.torn => segment[i][j].first
                      /\ left.media = "own" => media[b] = "synced"
    BY DEF AckedOnDisk
  <2>1. PICK i \in Segments : \E j \in 1..synced[i] :
           segment[i][j].batch = b /\ segment[i][j].form = "line"
    BY <1>1 DEF IInv, Acknowledged, OnDisk
  <2>2. PICK j \in 1..synced[i] : segment[i][j].batch = b /\ segment[i][j].form = "line"
    BY <2>1
  <2>3. j \in DOMAIN segment[i]
    BY <1>1, PiecesTyped DEF IInv
  <2>4. Steady => i <= CurrentSegment
    BY <1>1, <2>3, NonemptyIsRead
  <2>5. ~left.torn => segment[i][j].first
    BY <1>1, <2>3 DEF IInv, Whole
  <2>6. left.media = "own" => media[b] = "synced"
    BY <1>1 DEF IInv, Attached
  <2> QED BY <2>2, <2>4, <2>5, <2>6
<1> QED BY <1>1, Inductive, PTL

(* InOrder: a load finds the batches in the order in which they were       *)
(* appended and none of them twice, across segments and after lines that   *)
(* were left in parts (load_messages).                                     *)
THEOREM LoadsInOrder == Spec => []InOrder
<1>1. ASSUME IInv PROVE InOrder
  <2> SUFFICES ASSUME Steady, NEW i \in 1..CurrentSegment, NEW m \in 1..CurrentSegment,
                      NEW j \in DOMAIN segment[i], NEW n \in DOMAIN segment[m],
                      Before(i, j, m, n)
               PROVE  segment[i][j].batch < segment[m][n].batch
    BY DEF InOrder
  <2>1. CurrentSegment \in Segments
    <3>1. Fallback \in {Absent} \cup Segments /\ manifest \in {Absent} \cup Segments
      BY <1>1, FallbackTyped DEF IInv, FilesTyped
    <3> QED BY <3>1, NamedIsSegment DEF CurrentSegment
  <2>2. i \in Segments /\ m \in Segments
    BY <2>1, Assumption DEF Segments
  <2>3. CASE i < m          BY <1>1, <2>2, <2>3 DEF IInv, Across
  <2>4. CASE i = m /\ j < n BY <1>1, <2>2, <2>4 DEF IInv, InFile
  <2> QED BY <2>3, <2>4 DEF Before
<1> QED BY <1>1, Inductive, PTL

-----------------------------------------------------------------------------
(* Sequences of batches in rising order *)

Rising(s) == s \in Seq(Int) /\ \A i, j \in 1..Len(s) : i < j => s[i] < s[j]
AllBefore(s, t) == \A i \in 1..Len(s) : \A j \in 1..Len(t) : s[i] < t[j]

LEMMA UpTo ==
    ASSUME NEW N \in Nat, NEW S, 0 \in S, \A n \in 1..N : n - 1 \in S => n \in S
    PROVE  \A n \in 0..N : n \in S
<1> DEFINE M == {n \in 0..N : n \notin S}
<1> SUFFICES ASSUME M # {} PROVE FALSE
    OBVIOUS
<1>1. M \subseteq Nat
    OBVIOUS
<1>2. PICK n \in M : \A m \in M : <<m, n>> \notin OpToRel(<, Nat)
    BY <1>1, WFMin, NatLessThanWellFounded, Zenon
<1>3. n \in 0..N /\ n \notin S /\ n # 0
    OBVIOUS
<1>4. n - 1 \in S
    <2>1. n - 1 \in Nat /\ n \in Nat /\ n - 1 < n
        BY <1>3
    <2>2. <<n - 1, n>> \in OpToRel(<, Nat)
        BY <2>1 DEF OpToRel
    <2>3. n - 1 \notin M
        BY <1>2, <2>2
    <2>4. QED
        BY <1>3, <2>3
<1>5. QED
    BY <1>3, <1>4

(* Two rising sequences of the same batches are equal.                     *)
LEMMA OneRising ==
    ASSUME NEW s \in Seq(Int), NEW t \in Seq(Int), Rising(s), Rising(t), Range(s) = Range(t)
    PROVE  s = t
<1>1. s \in Seq(Int) /\ t \in Seq(Int) /\ Len(s) \in Nat /\ Len(t) \in Nat
    BY DEF Rising
<1>a. \A i \in 1..Len(s) : \E j \in 1..Len(t) : s[i] = t[j]
    <2>1. TAKE i \in 1..Len(s)
    <2>2. s[i] \in Range(t) /\ DOMAIN t = 1..Len(t)
        <3>1. DOMAIN s = 1..Len(s) /\ DOMAIN t = 1..Len(t)
            BY <1>1
        <3>2. s[i] \in Range(s)
            BY <3>1 DEF Range
        <3>3. QED
            BY <3>1, <3>2
    <2>3. QED
        BY <2>2 DEF Range
<1>b. \A j \in 1..Len(t) : \E i \in 1..Len(s) : s[i] = t[j]
    <2>1. TAKE j \in 1..Len(t)
    <2>2. t[j] \in Range(s) /\ DOMAIN s = 1..Len(s)
        <3>1. DOMAIN t = 1..Len(t) /\ DOMAIN s = 1..Len(s)
            BY <1>1
        <3>2. t[j] \in Range(t)
            BY <3>1 DEF Range
        <3>3. QED
            BY <3>1, <3>2
    <2>3. QED
        BY <2>2 DEF Range
<1> DEFINE S == {n \in 0..Len(s) : n <= Len(t) /\ \A i \in 1..n : s[i] = t[i]}
<1>2. 0 \in S
    BY <1>1
<1>3. ASSUME NEW n \in 1..Len(s), n - 1 \in S PROVE n \in S
    <2>1. n - 1 <= Len(t) /\ \A i \in 1..(n - 1) : s[i] = t[i]
        BY <1>3
    <2>2. PICK j \in 1..Len(t) : s[n] = t[j]
        BY <1>a
    <2>3. ~(j \in 1..(n - 1))
        <3>1. SUFFICES ASSUME j \in 1..(n - 1) PROVE FALSE
            OBVIOUS
        <3>2. s[j] = s[n] /\ j \in 1..Len(s) /\ j < n
            BY <1>1, <2>1, <2>2, <3>1
        <3>3. s[j] < s[n] /\ s[n] \in Int
            BY <1>1, <3>2 DEF Rising
        <3>4. QED
            BY <3>2, <3>3
    <2>4. n <= j /\ n \in 1..Len(t)
        BY <1>1, <2>3
    <2>5. PICK i \in 1..Len(s) : s[i] = t[n]
        BY <1>b, <2>4
    <2>6. ~(i \in 1..(n - 1))
        <3>1. SUFFICES ASSUME i \in 1..(n - 1) PROVE FALSE
            OBVIOUS
        <3>2. t[i] = t[n] /\ i \in 1..Len(t) /\ i < n
            BY <1>1, <2>1, <2>4, <2>5, <3>1
        <3>3. t[i] < t[n] /\ t[n] \in Int
            BY <1>1, <2>4, <3>2 DEF Rising
        <3>4. QED
            BY <3>2, <3>3
    <2>7. n <= i
        BY <1>1, <2>6
    <2>8. s[n] \in Int /\ t[n] \in Int /\ s[i] \in Int /\ t[j] \in Int
        BY <1>1, <2>4, SMTT(30)
    <2>9. s[n] <= s[i]
        BY <1>1, <2>7, <2>8, SMTT(40) DEF Rising
    <2>10. t[n] <= t[j]
        BY <1>1, <2>4, <2>8, SMTT(40) DEF Rising
    <2>11. s[n] = t[n]
        BY <2>2, <2>5, <2>8, <2>9, <2>10
    <2>12. \A k \in 1..n : k \in 1..(n - 1) \/ k = n
        OBVIOUS
    <2>13. n <= Len(t) /\ \A k \in 1..n : s[k] = t[k]
        BY <2>1, <2>4, <2>11, <2>12, SMTT(30)
    <2>14. n \in 0..Len(s)
        BY <1>1
    <2>15. QED
        BY <2>13, <2>14, SMTT(30)
<1> HIDE DEF S
<1>4. \A n \in 1..Len(s) : n - 1 \in S => n \in S
    BY <1>3
<1>5. Len(s) \in S
    <2>1. \A n \in 0..Len(s) : n \in S
        BY <1>1, <1>2, <1>4, UpTo, Zenon
    <2>2. QED
        BY <1>1, <2>1
<1>6. Len(s) <= Len(t) /\ \A i \in 1..Len(s) : s[i] = t[i]
    BY <1>5 DEF S
<1>7. Len(s) = Len(t)
    <2>1. SUFFICES ASSUME Len(s) < Len(t) PROVE FALSE
        BY <1>1, <1>6
    <2>2. Len(t) \in 1..Len(t)
        BY <1>1, <2>1
    <2>3. PICK i \in 1..Len(s) : s[i] = t[Len(t)]
        BY <1>b, <2>2
    <2>4. i \in 1..Len(t) /\ i < Len(t) /\ t[i] = t[Len(t)] /\ t[i] \in Int
        BY <1>1, <1>6, <2>1, <2>3
    <2>5. t[i] < t[Len(t)]
        BY <2>2, <2>4 DEF Rising
    <2>6. QED
        BY <2>4, <2>5
<1>8. QED
    BY <1>1, <1>6, <1>7, SMTT(40)

LEMMA JoinRising ==
    ASSUME NEW s \in Seq(Int), NEW t \in Seq(Int), Rising(s), Rising(t), AllBefore(s, t)
    PROVE  Rising(s \o t) /\ Range(s \o t) = Range(s) \cup Range(t)
<1>1. s \in Seq(Int) /\ t \in Seq(Int) /\ Len(s) \in Nat /\ Len(t) \in Nat
    BY DEF Rising
<1>2. /\ s \o t \in Seq(Int) /\ Len(s \o t) = Len(s) + Len(t)
      /\ \A i \in 1..(Len(s) + Len(t)) : (s \o t)[i] = IF i <= Len(s) THEN s[i] ELSE t[i - Len(s)]
    BY <1>1, ConcatProperties, Zenon
<1> PICK u, k, l : u = s \o t /\ k = Len(s) /\ l = Len(t)
    OBVIOUS
<1>3. u \in Seq(Int) /\ Len(u) = k + l /\ k \in Nat /\ l \in Nat /\ DOMAIN u = 1..(k + l)
      /\ DOMAIN s = 1..k /\ DOMAIN t = 1..l
    BY <1>1, <1>2
<1>4. \A i \in 1..(k + l) : u[i] = IF i <= k THEN s[i] ELSE t[i - k]
    BY <1>2
<1>5. \A i \in 1..(k + l) : (i \in 1..k /\ u[i] = s[i]) \/ (i > k /\ i - k \in 1..l /\ u[i] = t[i - k])
    BY <1>3, <1>4
<1>6. ASSUME NEW i \in 1..(k + l), NEW j \in 1..(k + l), i < j PROVE u[i] < u[j]
    <2>1. CASE j \in 1..k
        <3>1. i \in 1..k /\ u[i] = s[i] /\ u[j] = s[j]
            BY <1>3, <1>5, <1>6, <2>1
        <3>2. QED
            BY <1>6, <2>1, <3>1 DEF Rising
    <2>2. CASE i \in 1..k /\ j > k
        <3>1. u[i] = s[i] /\ j - k \in 1..l /\ u[j] = t[j - k]
            BY <1>3, <1>5, <2>2
        <3>2. QED
            BY <2>2, <3>1 DEF AllBefore
    <2>3. CASE i > k
        <3>1. i - k \in 1..l /\ u[i] = t[i - k] /\ j - k \in 1..l /\ u[j] = t[j - k] /\ i - k < j - k
            BY <1>3, <1>5, <1>6, <2>3
        <3>2. QED
            BY <3>1 DEF Rising
    <2>4. QED
        BY <1>3, <1>6, <2>1, <2>2, <2>3
<1>7. Rising(u)
    BY <1>3, <1>6 DEF Rising
<1>8. ASSUME NEW i \in 1..k PROVE s[i] \in Range(u)
    <2>1. i \in 1..(k + l) /\ u[i] = s[i]
        BY <1>3, <1>4
    <2>2. QED
        BY <1>3, <2>1 DEF Range
<1>9. ASSUME NEW i \in 1..l PROVE t[i] \in Range(u)
    <2>1. PICK j : j = k + i
        OBVIOUS
    <2>2. j \in 1..(k + l) /\ ~(j <= k) /\ j - k = i
        BY <1>3, <2>1
    <2>3. u[j] = t[i]
        BY <1>4, <2>2
    <2>4. QED
        BY <1>3, <2>2, <2>3 DEF Range
<1>10. \A i \in 1..(k + l) : u[i] \in Range(s) \cup Range(t)
    BY <1>3, <1>5 DEF Range
<1>11. Range(u) = Range(s) \cup Range(t)
    <2>1. Range(s) \subseteq Range(u) /\ Range(t) \subseteq Range(u)
        BY <1>3, <1>8, <1>9 DEF Range
    <2>2. Range(u) \subseteq Range(s) \cup Range(t)
        BY <1>3, <1>10 DEF Range
    <2>3. QED
        BY <2>1, <2>2
<1>12. QED
    BY <1>7, <1>11

-----------------------------------------------------------------------------
(* Flattening: of parts in rising order, each before the next              *)

(* What is flattened of the first n parts, from that of fewer              *)
OneMorePart(parts, f, n) == IF n = 1 THEN parts[n] ELSE f[n - 1] \o parts[n]

FlatOf(parts) ==
    LET flatten[i \in 1..Len(parts)] == IF i = 1 THEN parts[i] ELSE flatten[i - 1] \o parts[i]
    IN flatten

LEMMA OneMorePartOf ==
    ASSUME NEW parts, NEW f, NEW g, NEW n, n = 1 \/ f[n - 1] = g[n - 1]
    PROVE  OneMorePart(parts, f, n) = OneMorePart(parts, g, n)
BY DEF OneMorePart

LEMMA FlatIs ==
    ASSUME NEW parts, Len(parts) \in Nat
    PROVE  FlatOf(parts) = [n \in 1..Len(parts) |-> OneMorePart(parts, FlatOf(parts), n)]
<1> DEFINE S == {n \in 0..Len(parts) : \E f : f = [m \in 1..n |-> OneMorePart(parts, f, m)]}
<1>1. 0 \in S
    <2>1. PICK f : f = [m \in 1..0 |-> << >>]
        OBVIOUS
    <2>2. f = [m \in 1..0 |-> OneMorePart(parts, f, m)]
        BY <2>1
    <2>3. \E g : g = [m \in 1..0 |-> OneMorePart(parts, g, m)]
        BY <2>2
    <2>4. 0 \in 0..Len(parts)
        OBVIOUS
    <2>5. QED
        BY <2>3, <2>4, Zenon
<1>2. ASSUME NEW n \in 1..Len(parts), n - 1 \in S PROVE n \in S
    <2>1. PICK f : f = [m \in 1..(n - 1) |-> OneMorePart(parts, f, m)]
        BY <1>2
    <2> DEFINE g == [m \in 1..n |-> IF m = n THEN OneMorePart(parts, f, n) ELSE f[m]]
    <2>2. ASSUME NEW m \in 1..n PROVE g[m] = OneMorePart(parts, g, m)
        <3>1. m = 1 \/ (m - 1 \in 1..n /\ m - 1 # n)
            OBVIOUS
        <3>2. m = 1 \/ g[m - 1] = f[m - 1]
            BY <3>1
        <3>3. OneMorePart(parts, g, m) = OneMorePart(parts, f, m)
            <4> HIDE DEF g
            <4> QED BY <3>2, OneMorePartOf
        <3>4. CASE m = n
            BY <3>3, <3>4
        <3>5. CASE m # n
            <4>1. m \in 1..(n - 1)
                BY <3>5
            <4>2. f[m] = OneMorePart(parts, f, m)
                BY <2>1, <4>1, Zenon
            <4>3. QED
                BY <3>3, <3>5, <4>2
        <3>6. QED
            BY <3>4, <3>5
    <2>3. g = [m \in 1..n |-> OneMorePart(parts, g, m)]
        <3>1. g = [m \in 1..n |-> g[m]]
            OBVIOUS
        <3> HIDE DEF g
        <3>2. QED
            BY <2>2, <3>1
    <2> HIDE DEF g
    <2>4. QED
        BY <2>3
<1> HIDE DEF S
<1>3. \E f : f = [n \in 1..Len(parts) |-> OneMorePart(parts, f, n)]
    <2>0. \A n \in 1..Len(parts) : n - 1 \in S => n \in S
        BY <1>2
    <2>1. \A n \in 0..Len(parts) : n \in S
        BY <1>1, <2>0, UpTo, Zenon
    <2>2. Len(parts) \in S
        BY <2>1
    <2>3. QED
        BY <2>2 DEF S
<1>4. \E f : f = [n \in 1..Len(parts) |-> IF n = 1 THEN parts[n] ELSE f[n - 1] \o parts[n]]
    BY <1>3 DEF OneMorePart
<1>5. FlatOf(parts) = [n \in 1..Len(parts) |->
              IF n = 1 THEN parts[n] ELSE FlatOf(parts)[n - 1] \o parts[n]]
    BY <1>4 DEF FlatOf
<1>6. QED
    BY <1>5 DEF OneMorePart

LEMMA UnionTo ==
    ASSUME NEW n \in Nat \ {0}, NEW R
    PROVE  UNION {R[i] : i \in 1..n} = (UNION {R[i] : i \in 1..(n - 1)}) \cup R[n]
<1>1. \A i \in 1..n : i \in 1..(n - 1) \/ i = n
    OBVIOUS
<1>2. n \in 1..n /\ \A i \in 1..(n - 1) : i \in 1..n
    OBVIOUS
<1>3. ASSUME NEW x
      PROVE  (\E i \in 1..n : x \in R[i]) <=> (\E i \in 1..(n - 1) : x \in R[i]) \/ x \in R[n]
    BY <1>1, <1>2, Zenon
<1>4. ASSUME NEW x PROVE x \in UNION {R[i] : i \in 1..n} <=> \E i \in 1..n : x \in R[i]
    BY Zenon
<1>5. ASSUME NEW x PROVE x \in UNION {R[i] : i \in 1..(n - 1)} <=> \E i \in 1..(n - 1) : x \in R[i]
    BY Zenon
<1> PICK A, B : A = UNION {R[i] : i \in 1..n} /\ B = UNION {R[i] : i \in 1..(n - 1)}
    OBVIOUS
<1>6. \A x : x \in A <=> (x \in B \/ x \in R[n])
    BY <1>3, <1>4, <1>5, Zenon
<1>7. A = B \cup R[n]
    BY <1>6
<1>8. QED
    BY <1>7

LEMMA FlattenRising ==
    ASSUME NEW parts \in Seq(Seq(Int)), \A i \in 1..Len(parts) : Rising(parts[i]),
           \A i, j \in 1..Len(parts) : i < j => AllBefore(parts[i], parts[j])
    PROVE  /\ Rising(FlattenSeq(parts))
           /\ Range(FlattenSeq(parts)) = UNION {Range(parts[i]) : i \in 1..Len(parts)}
<1> DEFINE flat == FlatOf(parts)
           N == Len(parts)
           Good(n) == Rising(flat[n]) /\ Range(flat[n]) = UNION {Range(parts[i]) : i \in 1..n}
           S == {n \in 0..N : n = 0 \/ Good(n)}
<1>1. N \in Nat
    OBVIOUS
<1>2. \A n \in 1..N : flat[n] = OneMorePart(parts, flat, n)
    <2>1. flat = [n \in 1..N |-> OneMorePart(parts, flat, n)]
        BY <1>1, FlatIs
    <2> HIDE DEF flat
    <2>2. QED
        BY <2>1, Zenon
<1> HIDE DEF flat
<1>3. 0 \in S
    BY <1>1
<1>4. ASSUME NEW n \in 1..N, n - 1 \in S PROVE n \in S
    <2>1. flat[n] = OneMorePart(parts, flat, n) /\ parts[n] \in Seq(Int) /\ Rising(parts[n])
        BY <1>2
    <2>2. CASE n = 1
        <3>1. flat[n] = parts[n] /\ 1..n = {n}
            BY <2>1, <2>2 DEF OneMorePart
        <3>2. Good(n)
            BY <2>1, <3>1
        <3>3. QED
            BY <1>1, <3>2
    <2>3. CASE n # 1
        <3>1. Good(n - 1) /\ n - 1 \in 1..N /\ n \in Int /\ 1..n = (1..(n - 1)) \cup {n}
            BY <1>1, <1>4, <2>3
        <3> PICK before, part : before = flat[n - 1] /\ part = parts[n]
            OBVIOUS
        <3>2. flat[n] = before \o part
            BY <2>1, <2>3 DEF OneMorePart
        <3>3. Rising(before) /\ before \in Seq(Int) /\ Rising(part) /\ part \in Seq(Int)
              /\ Range(before) = UNION {Range(parts[i]) : i \in 1..(n - 1)}
            BY <2>1, <3>1 DEF Rising
        <3>4. AllBefore(before, part)
            <4>1. SUFFICES ASSUME NEW i \in 1..Len(before), NEW j \in 1..Len(part) PROVE before[i] < part[j]
                BY DEF AllBefore
            <4>2. before[i] \in Range(before)
                BY <3>3, SMTT(30) DEF Range
            <4>3. PICK k \in 1..(n - 1) : before[i] \in Range(parts[k])
                BY <3>3, <4>2
            <4>4. k \in 1..N /\ k < n /\ parts[k] \in Seq(Int)
                BY <1>1, <3>1, <4>3, SMTT(30)
            <4>5. PICK m \in 1..Len(parts[k]) : before[i] = parts[k][m]
                <5> PICK p : p = parts[k]
                    OBVIOUS
                <5>1. DOMAIN p = 1..Len(p) /\ before[i] \in Range(p)
                    BY <4>3, <4>4
                <5>2. \E m \in 1..Len(p) : before[i] = p[m]
                    BY <5>1 DEF Range
                <5>3. QED
                    BY <5>2
            <4>6. AllBefore(parts[k], part)
                BY <4>4
            <4>7. QED
                BY <4>5, <4>6 DEF AllBefore
        <3>5. Rising(before \o part) /\ Range(before \o part) = Range(before) \cup Range(part)
            BY <3>3, <3>4, JoinRising
        <3>6. UNION {Range(parts[i]) : i \in 1..n} = (UNION {Range(parts[i]) : i \in 1..(n - 1)}) \cup Range(part)
            <4> DEFINE R == [i \in 1..n |-> Range(parts[i])]
            <4>1. {R[i] : i \in 1..n} = {Range(parts[i]) : i \in 1..n}
                OBVIOUS
            <4>2. {R[i] : i \in 1..(n - 1)} = {Range(parts[i]) : i \in 1..(n - 1)}
                BY <3>1
            <4>3. n \in Nat \ {0} /\ R[n] = Range(part)
                OBVIOUS
            <4> HIDE DEF R
            <4>4. QED
                BY <4>1, <4>2, <4>3, UnionTo
        <3>7. Good(n)
            BY <3>2, <3>3, <3>5, <3>6
        <3>8. QED
            BY <1>1, <3>7
    <2>4. QED
        BY <2>2, <2>3
<1>5. N \in S
    <2> HIDE DEF S
    <2>1. \A n \in 1..N : n - 1 \in S => n \in S
        BY <1>4
    <2>2. \A n \in 0..N : n \in S
        BY <1>1, <1>3, <2>1, UpTo, Zenon
    <2>3. QED
        BY <1>1, <2>2
<1>6. CASE N = 0
    <2>1. FlattenSeq(parts) = << >> /\ 1..N = {}
        BY <1>6 DEF FlattenSeq
    <2>2. QED
        BY <2>1 DEF Rising, Range
<1>7. CASE N # 0
    <2>1. FlattenSeq(parts) = flat[N]
        BY <1>7 DEF FlattenSeq, flat, FlatOf
    <2>2. Good(N)
        BY <1>5, <1>7
    <2>3. QED
        BY <2>1, <2>2
<1>8. QED
    BY <1>6, <1>7

-----------------------------------------------------------------------------
(* What is read *)

(* Of a rising row of batches, those at some places *)
Chosen(n, v, keep) == [i \in 1..n |-> IF i \in keep THEN <<v[i]>> ELSE << >>]

LEMMA ChosenRise ==
    ASSUME NEW n \in Nat, NEW v, NEW keep, \A i \in 1..n : v[i] \in Int,
           \A i, j \in 1..n : i < j => v[i] < v[j]
    PROVE  /\ Rising(FlattenSeq(Chosen(n, v, keep)))
           /\ \A x : x \in Range(FlattenSeq(Chosen(n, v, keep)))
                        <=> \E i \in 1..n : i \in keep /\ x = v[i]
<1> DEFINE parts == Chosen(n, v, keep)
<1>1. ASSUME NEW i \in 1..n
      PROVE  /\ parts[i] \in Seq(Int)
             /\ i \in keep => parts[i] = <<v[i]>>
             /\ i \notin keep => parts[i] = << >>
    BY DEF Chosen
<1>2. parts \in Seq(Seq(Int)) /\ Len(parts) = n
    <2>1. parts = [i \in 1..n |-> parts[i]]
        BY DEF Chosen
    <2> HIDE DEF parts
    <2>2. QED
        BY <1>1, <2>1
<1> HIDE DEF parts
<1>3. ASSUME NEW i \in 1..n
      PROVE  \A k \in 1..Len(parts[i]) : k = 1 /\ i \in keep /\ parts[i][k] = v[i]
    <2>1. CASE i \in keep
        <3>1. Len(<<v[i]>>) = 1 /\ <<v[i]>>[1] = v[i]
            OBVIOUS
        <3>2. Len(parts[i]) = 1 /\ parts[i][1] = v[i]
            BY <1>1, <2>1, <3>1
        <3>3. QED
            BY <2>1, <3>2
    <2>2. CASE i \notin keep
        BY <1>1, <2>2
    <2>3. QED
        BY <2>1, <2>2
<1>4. \A i \in 1..n : Rising(parts[i])
    BY <1>1, <1>3 DEF Rising
<1>5. \A i, j \in 1..n : i < j => AllBefore(parts[i], parts[j])
    BY <1>1, <1>3 DEF AllBefore
<1>6. /\ Rising(FlattenSeq(parts))
      /\ Range(FlattenSeq(parts)) = UNION {Range(parts[i]) : i \in 1..Len(parts)}
    BY <1>2, <1>4, <1>5, FlattenRising
<1>7. ASSUME NEW i \in 1..n
      PROVE  \A x : x \in Range(parts[i]) <=> i \in keep /\ x = v[i]
    <2>1. CASE i \in keep
        <3>1. Range(parts[i]) = {v[i]}
            BY <1>1, <2>1 DEF Range
        <3>2. QED
            BY <2>1, <3>1
    <2>2. CASE i \notin keep
        <3>1. Range(parts[i]) = {}
            BY <1>1, <2>2 DEF Range
        <3>2. QED
            BY <2>2, <3>1
    <2>3. QED
        BY <2>1, <2>2
<1>8. \A x : x \in Range(FlattenSeq(parts)) <=> \E i \in 1..n : x \in Range(parts[i])
    BY <1>2, <1>6, Zenon
<1>9. \A x : x \in Range(FlattenSeq(parts)) <=> \E i \in 1..n : i \in keep /\ x = v[i]
    BY <1>7, <1>8, Zenon
<1>10. QED
    BY <1>6, <1>9 DEF parts

LEMMA SameFlat == \A parts : Log!FlattenSeq(parts) = FlattenSeq(parts)
    BY Zenon DEF Log!FlattenSeq, FlattenSeq

(* Without: what is left of a rising log rises.                            *)
LEMMA WithoutRises ==
    ASSUME NEW s \in Seq(Int), Rising(s), NEW S
    PROVE  Rising(Log!Without(s, S)) /\ Range(Log!Without(s, S)) = Range(s) \ S
<1>1. PICK keep : keep = {i \in 1..Len(s) : s[i] \notin S}
    OBVIOUS
<1>2. Log!Without(s, S) = FlattenSeq(Chosen(Len(s), s, keep))
    <2>1. [i \in 1..Len(s) |-> IF s[i] \in S THEN << >> ELSE <<s[i]>>] = Chosen(Len(s), s, keep)
        BY <1>1 DEF Chosen
    <2>2. QED
        BY <2>1, SameFlat DEF Log!Without
<1>3. Len(s) \in Nat /\ DOMAIN s = 1..Len(s) /\ \A i \in 1..Len(s) : s[i] \in Int
    OBVIOUS
<1>4. /\ Rising(FlattenSeq(Chosen(Len(s), s, keep)))
      /\ \A x : x \in Range(FlattenSeq(Chosen(Len(s), s, keep)))
                   <=> \E i \in 1..Len(s) : i \in keep /\ x = s[i]
    BY <1>3, ChosenRise DEF Rising
<1>5. \A x : x \in Range(s) \ S <=> \E i \in 1..Len(s) : i \in keep /\ x = s[i]
    BY <1>1, <1>3 DEF Range
<1>6. QED
    BY <1>2, <1>4, <1>5

BatchesOf(pieces) == {pieces[j].batch : j \in DOMAIN pieces}

(* BatchesIn: a file of whole lines is read as their batches.              *)
LEMMA FileRead ==
    ASSUME NEW pieces \in Seq(Pieces), \A j \in DOMAIN pieces : pieces[j].first,
           \A j, n \in DOMAIN pieces : j < n => pieces[j].batch < pieces[n].batch
    PROVE  Rising(BatchesIn(pieces)) /\ Range(BatchesIn(pieces)) = BatchesOf(pieces)
<1>1. PICK keep, v : keep = 1..Len(pieces) /\ v = [j \in 1..Len(pieces) |-> pieces[j].batch]
    OBVIOUS
<1>2. /\ Len(pieces) \in Nat /\ DOMAIN pieces = 1..Len(pieces)
      /\ \A j \in 1..Len(pieces) : pieces[j].batch \in Int /\ v[j] = pieces[j].batch
    <2>1. \A j \in 1..Len(pieces) : pieces[j] \in Pieces
        OBVIOUS
    <2>2. \A p \in Pieces : p.batch \in Int
        BY Assumption DEF Pieces, Batches
    <2>3. QED
        BY <1>1, <2>1, <2>2
<1>3. BatchesIn(pieces) = FlattenSeq(Chosen(Len(pieces), v, keep))
    <2>1. [j \in 1..Len(pieces) |-> IF pieces[j].first THEN <<pieces[j].batch>> ELSE << >>]
            = Chosen(Len(pieces), v, keep)
        BY <1>1, <1>2 DEF Chosen
    <2>2. QED
        BY <2>1 DEF BatchesIn
<1>4. /\ Rising(FlattenSeq(Chosen(Len(pieces), v, keep)))
      /\ \A b : b \in Range(FlattenSeq(Chosen(Len(pieces), v, keep)))
                   <=> \E j \in 1..Len(pieces) : j \in keep /\ b = v[j]
    BY <1>2, ChosenRise
<1>5. \A b : b \in BatchesOf(pieces) <=> \E j \in 1..Len(pieces) : j \in keep /\ b = v[j]
    BY <1>1, <1>2 DEF BatchesOf
<1>6. QED
    BY <1>3, <1>4, <1>5

(* The batches in the files *)
Kept(f) == UNION {BatchesOf(f[i]) : i \in Segments}

(* History: files of whole lines, in order and up to the segment that is   *)
(* read first, are read as all their batches.                              *)
LEMMA FilesRead ==
    ASSUME NEW f \in [Segments -> Seq(Pieces)], NEW n \in Segments,
           \A i \in Segments : \A j \in DOMAIN f[i] : f[i][j].first,
           \A i \in Segments : \A j, m \in DOMAIN f[i] : j < m => f[i][j].batch < f[i][m].batch,
           \A i, k \in Segments : \A j \in DOMAIN f[i] : \A m \in DOMAIN f[k] :
               i < k => f[i][j].batch < f[k][m].batch,
           \A i \in Segments : f[i] # << >> => i <= n
    PROVE  LET h == FlattenSeq([i \in 1..n |-> BatchesIn(f[i])]) IN
           Rising(h) /\ Range(h) = Kept(f)
<1> DEFINE parts == [i \in 1..n |-> BatchesIn(f[i])]
<1>1. n \in Nat /\ \A i \in 1..n : i \in Segments
    BY Assumption DEF Segments
<1>2. ASSUME NEW i \in 1..n
      PROVE  /\ Rising(parts[i]) /\ parts[i] \in Seq(Int)
             /\ Range(parts[i]) = BatchesOf(f[i])
    <2>1. i \in Segments /\ f[i] \in Seq(Pieces) /\ parts[i] = BatchesIn(f[i])
        BY <1>1
    <2>2. Rising(BatchesIn(f[i])) /\ Range(BatchesIn(f[i])) = BatchesOf(f[i])
        BY <2>1, FileRead
    <2>3. QED
        BY <2>1, <2>2 DEF Rising
<1>3. parts \in Seq(Seq(Int)) /\ Len(parts) = n
    <2>1. parts = [i \in 1..n |-> parts[i]]
        OBVIOUS
    <2> HIDE DEF parts
    <2>2. QED
        BY <1>1, <1>2, <2>1
<1> HIDE DEF parts
<1>4. ASSUME NEW i \in 1..n, NEW k \in 1..n, i < k PROVE AllBefore(parts[i], parts[k])
    <2>1. SUFFICES ASSUME NEW j \in 1..Len(parts[i]), NEW m \in 1..Len(parts[k])
                   PROVE  parts[i][j] < parts[k][m]
        BY DEF AllBefore
    <2>2. parts[i][j] \in BatchesOf(f[i]) /\ parts[k][m] \in BatchesOf(f[k])
        <3>1. \A t \in Seq(Int) : \A x \in 1..Len(t) : t[x] \in Range(t)
            BY DEF Range
        <3>2. parts[i] \in Seq(Int) /\ parts[k] \in Seq(Int)
            BY <1>2
        <3>3. parts[i][j] \in Range(parts[i]) /\ parts[k][m] \in Range(parts[k])
            BY <3>1, <3>2
        <3>4. QED
            BY <1>2, <3>3
    <2>3. PICK a \in DOMAIN f[i] : parts[i][j] = f[i][a].batch
        BY <2>2 DEF BatchesOf
    <2>4. PICK c \in DOMAIN f[k] : parts[k][m] = f[k][c].batch
        BY <2>2 DEF BatchesOf
    <2>5. QED
        BY <1>1, <1>4, <2>3, <2>4
<1>5. Rising(FlattenSeq(parts)) /\ Range(FlattenSeq(parts)) = UNION {Range(parts[i]) : i \in 1..Len(parts)}
    BY <1>2, <1>3, <1>4, FlattenRising
<1>6. Range(FlattenSeq(parts)) = UNION {BatchesOf(f[i]) : i \in 1..n}
    <2>1. {Range(parts[i]) : i \in 1..Len(parts)} = {BatchesOf(f[i]) : i \in 1..n}
        BY <1>2, <1>3
    <2>2. QED
        BY <1>5, <2>1
<1>7. ASSUME NEW i \in Segments, i \notin 1..n PROVE BatchesOf(f[i]) = {}
    <2>1. f[i] = << >>
        BY <1>1, <1>7, Assumption DEF Segments
    <2>2. QED
        BY <2>1 DEF BatchesOf
<1>8. UNION {BatchesOf(f[i]) : i \in 1..n} = Kept(f)
    BY <1>1, <1>7 DEF Kept
<1>9. QED
    BY <1>5, <1>6, <1>8 DEF parts

-----------------------------------------------------------------------------
(* The log that the files are read as                                      *)

Intact == Steady /\ ~left.torn
InLog == Kept(segment)

LEMMA CurrentTyped == ASSUME FilesTyped PROVE CurrentSegment \in Segments
<1>1. Fallback \in {Absent} \cup Segments /\ manifest \in {Absent} \cup Segments
    BY FallbackTyped DEF FilesTyped
<1>2. QED
    BY <1>1, NamedIsSegment DEF CurrentSegment

(* Everything in the files is read, in order, what was acknowledged too.   *)
ReadWhole == Intact => Rising(History) /\ Range(History) = InLog /\ acked \subseteq InLog

LEMMA LogRead == ASSUME IInv PROVE ReadWhole
<1>1. SUFFICES ASSUME Intact
               PROVE  Rising(History) /\ Range(History) = InLog /\ acked \subseteq InLog
    BY DEF ReadWhole
<1>2. PICK f, n : f = segment /\ n = CurrentSegment
    OBVIOUS
<1>3. f \in [Segments -> Seq(Pieces)] /\ n \in Segments
    BY <1>1, <1>2, CurrentTyped DEF IInv, FilesTyped
<1>4. \A i \in Segments : \A j \in DOMAIN f[i] : f[i][j].first
    BY <1>1, <1>2 DEF IInv, Whole, Intact
<1>5. \A i \in Segments : \A j, m \in DOMAIN f[i] : j < m => f[i][j].batch < f[i][m].batch
    BY <1>1, <1>2 DEF IInv, InFile
<1>6. \A i, k \in Segments : \A j \in DOMAIN f[i] : \A m \in DOMAIN f[k] :
          i < k => f[i][j].batch < f[k][m].batch
    BY <1>1, <1>2 DEF IInv, Across, Intact
<1>7. \A i \in Segments : f[i] # << >> => i <= n
    BY <1>1, <1>2, NonemptyIsRead DEF Intact
<1>8. PICK h : h = FlattenSeq([i \in 1..n |-> BatchesIn(f[i])])
    OBVIOUS
<1>9. Rising(h) /\ Range(h) = Kept(f)
    BY <1>3, <1>4, <1>5, <1>6, <1>7, <1>8, FilesRead
<1>10. ASSUME NEW b \in acked PROVE b \in InLog
    <2>1. PICK i \in Segments : \E j \in 1..synced[i] :
             segment[i][j].batch = b /\ segment[i][j].form = "line"
        BY <1>1 DEF IInv, Acknowledged, OnDisk, Intact, Steady
    <2>2. PICK j \in 1..synced[i] : segment[i][j].batch = b
        BY <2>1
    <2>3. j \in DOMAIN segment[i]
        BY <1>1, PiecesTyped DEF IInv
    <2>4. b \in BatchesOf(segment[i])
        BY <2>2, <2>3 DEF BatchesOf
    <2>5. QED
        BY <2>4 DEF InLog, Kept
<1>11. QED
    BY <1>2, <1>8, <1>9, <1>10 DEF History, InLog

(* Files without anything in them are read as nothing.                     *)
LEMMA NothingRead ==
    ASSUME FilesTyped, \A i \in Segments : segment[i] = << >>
    PROVE  History = << >>
<1>1. PICK f, n : f = segment /\ n = CurrentSegment
    OBVIOUS
<1>2. f \in [Segments -> Seq(Pieces)] /\ n \in Segments /\ \A i \in Segments : f[i] = << >>
    BY <1>1, CurrentTyped DEF FilesTyped
<1>3. \A i \in Segments : DOMAIN f[i] = {} /\ ~(f[i] # << >>)
    BY <1>2
<1>4. PICK h : h = FlattenSeq([i \in 1..n |-> BatchesIn(f[i])])
    OBVIOUS
<1>5. Rising(h) /\ Range(h) = Kept(f)
    <2>1. \A i \in Segments : \A j \in DOMAIN f[i] : f[i][j].first
        BY <1>3
    <2>2. \A i \in Segments : \A j, m \in DOMAIN f[i] : j < m => f[i][j].batch < f[i][m].batch
        BY <1>3
    <2>3. \A i, k \in Segments : \A j \in DOMAIN f[i] : \A m \in DOMAIN f[k] :
              i < k => f[i][j].batch < f[k][m].batch
        BY <1>3
    <2>4. QED
        BY <1>2, <1>3, <1>4, <2>1, <2>2, <2>3, FilesRead
<1>6. Kept(f) = {}
    BY <1>3 DEF Kept, BatchesOf
<1>7. h = << >>
    <2>1. h \in Seq(Int) /\ Range(h) = {}
        BY <1>5, <1>6 DEF Rising
    <2>2. Len(h) \in Nat /\ DOMAIN h = 1..Len(h)
        BY <2>1
    <2>3. Len(h) = 0
        <3>1. SUFFICES ASSUME Len(h) # 0 PROVE FALSE
            OBVIOUS
        <3>2. 1 \in DOMAIN h
            BY <2>2, <3>1
        <3>3. h[1] \in Range(h)
            BY <3>2 DEF Range
        <3>4. QED
            BY <2>1, <3>3
    <2>4. QED
        BY <2>1, <2>3
<1>8. QED
    BY <1>1, <1>4, <1>7 DEF History

-----------------------------------------------------------------------------
(* What a step does to the log                                             *)

(* One batch more, newer than all: it is at the end.                       *)
LEMMA StoredLast ==
    ASSUME NEW h \in Seq(Int), NEW g \in Seq(Int), Rising(h), Rising(g), NEW b \in Int,
           \A x \in Range(h) : x < b, Range(g) = Range(h) \cup {b}
    PROVE  g = Append(h, b)
<1>1. <<b>> \in Seq(Int) /\ Rising(<<b>>) /\ Range(<<b>>) = {b}
    BY DEF Rising, Range
<1>2. AllBefore(h, <<b>>)
    <2>1. \A i \in 1..Len(h) : h[i] \in Range(h)
        BY DEF Range
    <2>2. QED
        BY <2>1 DEF AllBefore
<1>3. Rising(h \o <<b>>) /\ Range(h \o <<b>>) = Range(g)
    BY <1>1, <1>2, JoinRising
<1>4. g = h \o <<b>>
    BY <1>3, OneRising DEF Rising
<1>5. QED
    BY <1>4, AppendIsConcat

(* A step that drops batches, and may store one newer than all.            *)
LEMMA LogStep ==
    ASSUME NEW h \in Seq(Int), NEW g \in Seq(Int), Rising(h), Rising(g), NEW b \in Int,
           Range(g) \subseteq Range(h) \cup {b},
           b \in Range(g) \ Range(h) => b \in Batches /\ \A x \in Range(h) : x < b
    PROVE  \E more \in {<< >>} \cup {<<c>> : c \in Batches \ Log!Stored(h)} :
              /\ g = Log!Without(h, Range(h) \ Range(g)) \o more
              /\ Log!Stored(more) = Range(g) \ Range(h)
<1>1. PICK S, rest : S = Range(h) \ Range(g) /\ rest = Log!Without(h, S)
    OBVIOUS
<1>2. Rising(rest) /\ Range(rest) = Range(h) \cap Range(g)
    BY <1>1, WithoutRises
<1>3. rest \in Seq(Int) /\ \A t : Log!Stored(t) = Range(t)
    BY <1>2 DEF Rising, Log!Stored, Range
<1>4. CASE b \in Range(g) \ Range(h)
    <2>1. b \in Int /\ <<b>> \in Seq(Int)
        OBVIOUS
    <2>2. Rising(<<b>>) /\ Range(<<b>>) = {b}
        BY <2>1 DEF Rising, Range
    <2>3. AllBefore(rest, <<b>>)
        <3>1. \A i \in 1..Len(rest) : rest[i] \in Range(rest)
            BY <1>3 DEF Range
        <3>2. \A i \in 1..Len(rest) : rest[i] < b
            BY <1>2, <1>4, <3>1
        <3>3. QED
            BY <2>1, <3>2 DEF AllBefore
    <2>4. Rising(rest \o <<b>>) /\ Range(rest \o <<b>>) = Range(rest) \cup Range(<<b>>)
        BY <1>2, <1>3, <2>1, <2>2, <2>3, JoinRising
    <2>5. Range(rest \o <<b>>) = Range(g) /\ rest \o <<b>> \in Seq(Int)
        BY <1>2, <1>4, <2>2, <2>4 DEF Rising
    <2>6. g = rest \o <<b>>
        BY <2>4, <2>5, OneRising
    <2>7. Log!Stored(<<b>>) = Range(g) \ Range(h) /\ b \notin Log!Stored(h)
        BY <1>3, <1>4, <2>2
    <2>8. <<b>> \in {<<c>> : c \in Batches \ Log!Stored(h)}
        BY <1>4, <2>7
    <2>9. QED
        BY <1>1, <2>6, <2>7, <2>8
<1>5. CASE b \notin Range(g) \ Range(h)
    <2>1. Range(rest) = Range(g)
        BY <1>2, <1>5
    <2>2. g = rest
        BY <1>2, <1>3, <2>1, OneRising
    <2>3. rest \o << >> = rest
        BY <1>3
    <2>4. Log!Stored(<< >>) = {} /\ Range(g) \ Range(h) = {}
        <3>1. DOMAIN << >> = {}
            OBVIOUS
        <3>2. Log!Stored(<< >>) = {}
            BY <3>1 DEF Log!Stored
        <3>3. QED
            BY <1>5, <3>2
    <2>5. g = Log!Without(h, Range(h) \ Range(g)) \o << >>
        BY <1>1, <2>2, <2>3
    <2>6. QED
        BY <2>4, <2>5
<1>6. QED
    BY <1>4, <1>5

-----------------------------------------------------------------------------
(* What steps there are, as far as the log can tell                        *)

LEMMA SegmentsOfPowerFailure ==
    ASSUME IInv, PowerFails
    PROVE  \E t : segment' = t /\ Within(t)
<1>2. PICK cut \in CutOffSegment :
        LET unsure == {i \in Segments : synced[i] < Len(cut[i])} IN
        \E keep \in [unsure -> 0..MaxBatches] :
            /\ \A i \in unsure : keep[i] \in synced[i]..Len(cut[i])
            /\ segment' = [i \in Segments |->
                             IF i \in unsure THEN SubSeq(cut[i], 1, keep[i]) ELSE cut[i]]
  BY DEF PowerFails
<1>3. Within(cut)  BY CutOffWithin
<1> DEFINE loose == {i \in Segments : synced[i] < Len(cut[i])}
<1>4. PICK keep \in [loose -> 0..MaxBatches] :
         /\ \A i \in loose : keep[i] \in synced[i]..Len(cut[i])
         /\ segment' = Shortened(cut, loose, keep)
  BY <1>2 DEF Shortened
<1>5. loose \subseteq Segments  OBVIOUS
<1> HIDE DEF loose
<1>6. PICK unsure, t : unsure = loose /\ segment' = t /\ t = Shortened(cut, unsure, keep)
  BY <1>4
<1>7. unsure \subseteq Segments /\ \A i \in unsure : keep[i] \in synced[i]..Len(cut[i])
  BY <1>4, <1>5, <1>6
<1>8. t = Shortened(cut, unsure, keep)
  BY <1>6
<1>9. Within(t)
  BY <1>3, <1>7, <1>8, Remaining
<1> QED BY <1>6, <1>9

(* Nothing is gone. *)
Grown(t) == \A i \in Segments : \A j \in DOMAIN segment[i] : j \in DOMAIN t[i] /\ t[i][j] = segment[i][j]

LEMMA CutOffGrown == ASSUME IInv, NEW t \in CutOffSegment PROVE Grown(t)
<1>1. CASE t = segment
    BY <1>1 DEF Grown
<1>2. CASE t # segment
    <2>1. step = "append" /\ t \in PartlyAppended
        BY <1>2 DEF CutOffSegment
    <2>2. PICK f \in IF left.torn THEN Form ELSE {"line"} : t = WithPiece(f)
        BY <1>2, <2>1 DEF PartlyAppended
    <2>3. /\ into \in Segments /\ segment \in [Segments -> Seq(Pieces)]
          /\ batch \in Batches /\ AtLineStart(into) \in BOOLEAN /\ f \in Form
        BY <2>1, Assumption DEF IInv, Control, FilesTyped, HistoryTyped, Batches, AtLineStart, Form
    <2>4. PICK p \in Pieces : t = [segment EXCEPT ![into] = Append(segment[into], p)]
        BY <2>2, <2>3 DEF WithPiece, Pieces
    <2>5. ASSUME NEW i \in Segments, NEW j \in DOMAIN segment[i]
          PROVE  j \in DOMAIN t[i] /\ t[i][j] = segment[i][j]
        <3>1. CASE i = into
            <4>1. segment[i] \in Seq(Pieces) /\ t[i] = Append(segment[i], p)
                BY <2>3, <2>4, <3>1
            <4>2. QED
                BY <4>1
        <3>2. CASE i # into
            BY <2>3, <2>4, <3>2
        <3>3. QED
            BY <3>1, <3>2
    <2>6. QED
        BY <2>5 DEF Grown
<1>3. QED
    BY <1>1, <1>2

(* The files lose at most what was not synchronised, and gain at most the  *)
(* batch being appended, unless a session is being cleared.                *)
LEMMA FilesWithin ==
    ASSUME IInv, [Next]_vars, Sound
    PROVE  \E t : segment' = t /\ Within(t) /\ (~PowerFails => Grown(t))
<1>a. ASSUME NEW t \in CutOffSegment PROVE Within(t) /\ Grown(t)
    BY CutOffWithin, CutOffGrown
<1>1. CASE UNCHANGED segment
    BY <1>1, <1>a DEF CutOffSegment, PartlyAppended
<1>2. CASE AppendLine
    <2>1. WithPiece("line") \in CutOffSegment
        BY <1>2 DEF AppendLine, CutOffSegment, PartlyAppended, Form
    <2>2. QED
        BY <1>2, <1>a, <2>1 DEF AppendLine
<1>3. CASE AppendFails
    BY <1>3, <1>a DEF AppendFails, CutOffSegment
<1>4. CASE ProcessStops
    BY <1>4, <1>a DEF ProcessStops
<1>5. CASE PowerFails
    BY <1>5, SegmentsOfPowerFailure
<1>6. step # "remove"
    BY DEF IInv, Control, Sound
<1>7. ASSUME Create \/ AppendRecords \/ ClearSession \/ Recover \/ CheckManifest
             \/ CheckManifestUnread \/ UNCHANGED vars
      PROVE  UNCHANGED segment
    BY <1>7 DEF Create, AppendRecords, ClearSession, Recover, CheckManifest, CheckManifestUnread, vars, files
<1>8. ASSUME SaveSteps \/ MediumSteps PROVE UNCHANGED segment
    BY <1>8 DEF SaveSteps, WriteManifest, WriteManifestFails, ReplaceManifest, ReplaceManifestFails,
        SyncDirectory, SyncDirectoryFails, MediumSteps, MediumThere, WriteMedium, WriteMediumFails,
        SyncMedium, SyncMediumFails, files
<1>9. ASSUME AppendSteps, ~AppendLine, ~AppendFails PROVE UNCHANGED segment
    BY <1>9 DEF AppendSteps, ChooseSegment, ChooseSegmentUnread, SyncFile, SyncFileFails, files
<1>10. ~ClearSteps
    BY <1>6 DEF ClearSteps, RemoveManifest, RemoveTemporary, RemoveSegment, RemoveMedium, RemoveFails, Removed
<1>11. QED
    BY <1>1, <1>2, <1>3, <1>4, <1>5, <1>7, <1>8, <1>9, <1>10 DEF Next

(* Only a clear that succeeds restores the promise, and only a successful  *)
(* fsync acknowledges a batch.                                             *)
Ordinary == UNCHANGED acked /\ Promises

LEMMA StepsAre ==
    ASSUME IInv, [Next]_vars
    PROVE  /\ left'.torn = left.torn
           /\ (SyncDirectory /\ call = "clear") \/ SyncFile \/ Ordinary
<1> USE DEF Ordinary, Promises, Steady, Sound
<1>a. ASSUME Fails PROVE left'.torn = left.torn /\ Ordinary
    <2>1. Same /\ BreaksOff
        BY <1>a, FailsBreaksOff DEF IInv
    <2>2. QED
        BY <2>1 DEF Same, BreaksOff, Return, IInv, HistoryTyped
<1>b. ASSUME Happens("faults") \/ Happens("stops") \/ Happens("outages")
      PROVE  left'.torn = left.torn /\ left'.unread = left.unread
    BY <1>b, HappensKeeps DEF IInv, Same
<1>c. ASSUME UNCHANGED <<history, left>>, call' = call
      PROVE  left'.torn = left.torn /\ Ordinary
    BY <1>c DEF history
<1>1. CASE Create
    BY <1>1 DEF Create, Begin, history, IInv, Control
<1>2. CASE AppendRecords
    <2>1. left'.torn = left.torn /\ left'.unread = left.unread
        BY <1>2 DEF AppendRecords, Happens, IInv, HistoryTyped, Environment
    <2>2. QED
        BY <1>2, <2>1 DEF AppendRecords, Begin, IInv, Control
<1>3. CASE ClearSession
    BY <1>3 DEF ClearSession, Begin, history
<1>4. CASE Recover
    BY <1>4, <1>c DEF Recover, control
<1>5. CASE CheckManifest
    <2>1. call # "clear" /\ UNCHANGED <<history, left>>
        BY <1>5 DEF CheckManifest, Works, IInv, Control
    <2>2. QED
        BY <2>1 DEF history
<1>6. CASE CheckManifestUnread
    BY <1>6, <1>b DEF CheckManifestUnread, Save, history
<1>7. CASE SaveSteps
    <2>1. CASE WriteManifest \/ ReplaceManifest
        BY <2>1, <1>c DEF WriteManifest, ReplaceManifest, Go, Works
    <2>2. CASE WriteManifestFails \/ ReplaceManifestFails \/ SyncDirectoryFails
        BY <2>2, <1>a DEF WriteManifestFails, ReplaceManifestFails, SyncDirectoryFails
    <2>3. CASE SyncDirectory /\ call # "clear"
        BY <2>3 DEF SyncDirectory, history
    <2>4. CASE SyncDirectory /\ call = "clear"
        BY <2>4 DEF SyncDirectory
    <2>5. QED
        BY <1>7, <2>1, <2>2, <2>3, <2>4 DEF SaveSteps
<1>8. CASE MediumSteps
    <2>1. CASE MediumThere \/ SyncMedium
        BY <2>1, <1>c DEF MediumThere, SyncMedium, Go, Works
    <2>2. CASE WriteMediumFails \/ SyncMediumFails
        BY <2>2, <1>a DEF WriteMediumFails, SyncMediumFails
    <2>3. CASE WriteMedium
        BY <2>3, <1>b DEF WriteMedium, Go, history
    <2>4. QED
        BY <1>8, <2>1, <2>2, <2>3 DEF MediumSteps
<1>9. CASE AppendSteps
    <2>1. ASSUME NEW i, Target(i), left'.torn = left.torn, left'.unread = left.unread
          PROVE  left'.torn = left.torn /\ Ordinary
        BY <2>1 DEF Target, Save, IInv, HistoryTyped
    <2>2. CASE ChooseSegment
        BY <2>1, <2>2 DEF ChooseSegment
    <2>3. CASE ChooseSegmentUnread
        BY <2>1, <2>3, <1>b DEF ChooseSegmentUnread
    <2>4. CASE AppendLine
        BY <2>4, <1>c DEF AppendLine, Go, Works
    <2>5. CASE AppendFails \/ SyncFileFails
        BY <2>5, <1>a DEF AppendFails, SyncFileFails
    <2>6. CASE SyncFile
        BY <2>6 DEF SyncFile
    <2>7. QED
        BY <1>9, <2>2, <2>3, <2>4, <2>5, <2>6 DEF AppendSteps
<1>10. CASE ClearSteps
    <2>1. CASE RemoveFails
        BY <2>1, <1>a DEF RemoveFails
    <2>2. CASE RemoveManifest \/ RemoveTemporary \/ Removed
        BY <2>2, <1>c DEF RemoveManifest, RemoveTemporary, Removed, Works, Save, control
    <2>3. ASSUME NEW i, RemoveSegment(i) \/ RemoveMedium(i)
          PROVE  left'.torn = left.torn /\ Ordinary
        BY <2>3, <1>c DEF RemoveSegment, RemoveMedium, Works, control
    <2>4. QED
        BY <1>10, <2>1, <2>2, <2>3 DEF ClearSteps
<1>11. CASE ProcessStops \/ PowerFails
    <2>1. left'.torn = left.torn /\ left'.unread = left.unread
        BY <1>11, <1>b DEF ProcessStops, PowerFails
    <2>2. QED
        BY <1>11, <2>1 DEF ProcessStops, PowerFails, Interrupted, Return, IInv, HistoryTyped
<1>12. CASE UNCHANGED vars
    BY <1>12, <1>c DEF vars, control
<1>13. QED
    BY <1>1, <1>2, <1>3, <1>4, <1>5, <1>6, <1>7, <1>8, <1>9, <1>10, <1>11, <1>12 DEF Next

(* Of what may go wrong, only a power failure uses up an outage.           *)
LEMMA OutagesKept ==
    ASSUME HistoryTyped, [Next]_vars, ~PowerFails
    PROVE  left'.outages = left.outages
<1>a. ASSUME UNCHANGED left \/ Fails \/ Happens("faults") \/ Happens("stops") \/ Happens("appends")
      PROVE  left'.outages = left.outages
    BY <1>a DEF Fails, Happens, HistoryTyped, Environment
<1>b. ASSUME Works PROVE UNCHANGED left
    BY <1>b DEF Works
<1>1. CASE Create \/ AppendRecords \/ ClearSession \/ Recover \/ CheckManifest
              \/ CheckManifestUnread \/ ProcessStops \/ UNCHANGED vars
    BY <1>1, <1>a DEF Create, AppendRecords, ClearSession, Recover, CheckManifest, CheckManifestUnread,
        ProcessStops, Works, vars
<1>2. CASE SaveSteps
    BY <1>2, <1>a, <1>b DEF SaveSteps, WriteManifest, WriteManifestFails, ReplaceManifest,
        ReplaceManifestFails, SyncDirectory, SyncDirectoryFails
<1>3. CASE MediumSteps
    BY <1>3, <1>a, <1>b DEF MediumSteps, MediumThere, WriteMedium, WriteMediumFails, SyncMedium, SyncMediumFails
<1>4. CASE AppendSteps
    BY <1>4, <1>a, <1>b DEF AppendSteps, ChooseSegment, ChooseSegmentUnread, AppendLine, AppendFails,
        SyncFile, SyncFileFails
<1>5. CASE ClearSteps
    BY <1>5, <1>a, <1>b DEF ClearSteps, RemoveManifest, RemoveTemporary, RemoveSegment, RemoveMedium,
        RemoveFails, Removed
<1>6. QED
    BY <1>1, <1>2, <1>3, <1>4, <1>5 DEF Next

LEMMA LogGains ==
    ASSUME IInv, NEW t, segment' = t, Within(t)
    PROVE  /\ InLog' \subseteq InLog \cup {batch} /\ (step # "append" => InLog' \subseteq InLog)
           /\ \A b \in InLog : b \in Batches /\ b < Fresh
           /\ Grown(t) => InLog \subseteq InLog'
<1>1. \A i \in Segments : segment[i] \in Seq(Pieces) /\ t[i] \in Seq(Pieces)
    BY DEF Within, IInv, FilesTyped
<1>2. ASSUME NEW i \in Segments, NEW j \in DOMAIN t[i]
      PROVE  t[i][j].batch \in BatchesOf(segment[i]) \/ (step = "append" /\ t[i][j].batch = batch)
    <2>1. j \in 1..Len(t[i]) /\ DOMAIN segment[i] = 1..Len(segment[i]) /\ Len(segment[i]) \in Nat
        BY <1>1
    <2>2. CASE j <= Len(segment[i]) /\ t[i][j] = segment[i][j]
        BY <2>1, <2>2 DEF BatchesOf
    <2>3. CASE step = "append" /\ NewPiece(t[i][j])
        BY <2>3 DEF NewPiece
    <2>4. QED
        BY <2>1, <2>2, <2>3 DEF Within
<1>3. ASSUME NEW b \in Kept(t) PROVE b \in InLog \/ (step = "append" /\ b = batch)
    <2>1. PICK i \in Segments : b \in BatchesOf(t[i])
        BY DEF Kept
    <2>2. PICK j \in DOMAIN t[i] : b = t[i][j].batch
        BY <2>1 DEF BatchesOf
    <2>3. QED
        BY <1>2, <2>2 DEF InLog, Kept
<1>4. InLog' = Kept(t)
    BY DEF InLog, Kept, BatchesOf
<1>5. ASSUME NEW b \in InLog PROVE b \in Batches /\ b < Fresh
    <2>1. PICK i \in Segments : b \in BatchesOf(segment[i])
        BY DEF InLog, Kept
    <2>2. PICK j \in DOMAIN segment[i] : b = segment[i][j].batch
        BY <2>1 DEF BatchesOf
    <2>3. segment[i][j] \in Pieces
        BY <1>1
    <2>4. QED
        BY <2>2, <2>3 DEF IInv, InFile, Pieces
<1>6. ASSUME Grown(t), NEW b \in InLog PROVE b \in Kept(t)
    <2>1. PICK i \in Segments : b \in BatchesOf(segment[i])
        BY DEF InLog, Kept
    <2>2. PICK j \in DOMAIN segment[i] : b = segment[i][j].batch
        BY <2>1 DEF BatchesOf
    <2>3. j \in DOMAIN t[i] /\ t[i][j].batch = b
        BY <1>6, <2>2 DEF Grown
    <2>4. QED
        BY <2>3 DEF Kept, BatchesOf
<1>7. QED
    BY <1>3, <1>4, <1>5, <1>6

-----------------------------------------------------------------------------
(* Refinement                                                              *)

LEMMA LogStarts == ASSUME Init PROVE Log!Init
<1>1. IInv /\ \A i \in Segments : segment[i] = << >>
    BY InitHolds DEF Init
<1>2. History = << >>
    BY <1>1, NothingRead DEF IInv
<1>3. Range(History) = {}
    BY <1>2 DEF Range
<1>4. left.outages \in Nat
    BY Assumption DEF Init, Environment
<1>5. QED
    BY <1>2, <1>3, <1>4 DEF Log!Init, Steady

LogNext == [Log!Next]_<<History, Range(History) \ acked, Steady /\ ~left.torn, left.outages>>

LEMMA ClearSucceeds ==
    ASSUME IInv, IInv', ReadWhole', Intact', SyncDirectory, call = "clear"
    PROVE  Log!Cleared
<1>1. acked' = {} /\ segment' = segment /\ \A i \in Segments : segment[i] = << >>
    BY DEF SyncDirectory, IInv, Emptied, Saving
<1>2. InLog' = {}
    BY <1>1 DEF InLog, Kept, BatchesOf
<1>3. Rising(History)' /\ Range(History)' = {}
    BY <1>2 DEF ReadWhole
<1> PICK h : h = History'
    OBVIOUS
<1>4. h \in Seq(Int) /\ Range(h) = {}
    BY <1>3 DEF Rising, Range
<1>5. h = << >>
    <2>1. Len(h) \in Nat /\ DOMAIN h = 1..Len(h)
        BY <1>4
    <2>2. Len(h) = 0
        <3>1. SUFFICES ASSUME Len(h) # 0 PROVE FALSE
            OBVIOUS
        <3>2. 1 \in DOMAIN h
            BY <2>1, <3>1
        <3>3. h[1] \in Range(h)
            BY <3>2 DEF Range
        <3>4. QED
            BY <1>4, <3>3
    <2>3. QED
        BY <1>4, <2>2
<1>6. QED
    BY <1>1, <1>3, <1>5 DEF Log!Cleared, Intact

LEMMA StaysIntact ==
    ASSUME IInv, IInv', ReadWhole, ReadWhole', Intact, Intact', [Next]_vars
    PROVE  LogNext
<1> PICK h, g : h = History /\ g = History'
    OBVIOUS
<1>1. /\ Rising(h) /\ Range(h) = InLog /\ acked \subseteq InLog
      /\ Rising(g) /\ Range(g) = InLog' /\ acked' \subseteq InLog'
    BY DEF ReadWhole, Rising, Range
<1>2. h \in Seq(Int) /\ g \in Seq(Int)
    BY <1>1 DEF Rising
<1>3. /\ InLog' \subseteq InLog \cup {batch} /\ (step # "append" => InLog' \subseteq InLog)
      /\ \A b \in InLog : b \in Batches /\ b < Fresh
      /\ ~PowerFails => InLog \subseteq InLog'
    BY FilesWithin, LogGains DEF Intact, Steady
<1>o. /\ ~PowerFails => left'.outages = left.outages
      /\ PowerFails => left.outages > 0 /\ left'.outages = left.outages - 1
    BY OutagesKept DEF PowerFails, Happens, IInv, HistoryTyped, Environment
<1>4. \A t : Log!Stored(t) = Range(t)
    BY DEF Log!Stored, Range
<1>4a. step = "append" => batch \in Batches /\ Fresh = batch
    BY Assumption DEF IInv, Control, HistoryTyped, Fresh, Batches
<1>5. CASE SyncFile
    <2>1. InLog' = InLog /\ acked' = acked \cup {batch}
        BY <1>5 DEF SyncFile, InLog, Kept, BatchesOf
    <2>2. g = h
        BY <1>1, <1>2, <2>1, OneRising
    <2>3. batch \in Range(h) /\ batch \in Batches
        BY <1>1, <1>3, <2>1
    <2>4. Range(g) \ acked' = (Range(h) \ acked) \ {batch} /\ left'.outages = left.outages
        BY <1>5, <2>1, <2>2 DEF SyncFile
    <2>5. Log!Acknowledge(batch)
        BY <1>4, <2>2, <2>3, <2>4 DEF Log!Acknowledge, Intact
    <2>6. QED
        BY <2>3, <2>5 DEF Log!Next, LogNext
<1>6. CASE UNCHANGED acked /\ PowerFails
    <2>1. PICK b \in Int : /\ Range(g) \subseteq Range(h) \cup {b}
                           /\ b \in Range(g) \ Range(h) => b \in Batches /\ \A x \in Range(h) : x < b
        <3>1. CASE step = "append"
            <4>1. batch \in Int
                BY <1>4a, <3>1, Assumption DEF Batches
            <4>2. QED
                BY <1>1, <1>3, <1>4a, <3>1, <4>1
        <3>2. CASE step # "append"
            BY <1>1, <1>3, <3>2
        <3>3. QED
            BY <3>1, <3>2
    <2>2. PICK more \in {<< >>} \cup {<<c>> : c \in Batches \ Log!Stored(h)} :
              /\ g = Log!Without(h, Range(h) \ Range(g)) \o more
              /\ Log!Stored(more) = Range(g) \ Range(h)
        BY <1>1, <1>2, <2>1, LogStep
    <2>3. PICK S : S = Range(h) \ Range(g)
        OBVIOUS
    <2>4. S \in SUBSET (Range(h) \ acked)
        BY <1>1, <1>6, <2>3
    <2>5. Range(g) \ acked' = ((Range(h) \ acked) \ S) \cup Log!Stored(more)
        BY <1>1, <1>6, <2>2, <2>3
    <2>6. Log!Lose(S, more)
        BY <1>6, <1>o, <2>2, <2>3, <2>4, <2>5 DEF Log!Lose, Intact
    <2>7. QED
        BY <2>2, <2>4, <2>6 DEF Log!Next, LogNext
<1>7. CASE UNCHANGED acked /\ ~PowerFails
    <2>1. CASE InLog' = InLog
        <3>1. g = h
            BY <1>1, <1>2, <2>1, OneRising
        <3>2. QED
            BY <1>7, <1>o, <3>1 DEF LogNext, Intact
    <2>2. CASE InLog' # InLog
        <3>1. step = "append" /\ InLog' = InLog \cup {batch} /\ batch \notin InLog
            BY <1>3, <1>7, <2>2
        <3>2. batch \in Batches /\ batch \in Int /\ \A x \in Range(h) : x < batch
            BY <1>1, <1>3, <1>4a, <3>1, Assumption DEF Batches
        <3>3. g = Append(h, batch)
            BY <1>1, <1>2, <3>1, <3>2, StoredLast
        <3>4. Range(g) \ acked' = (Range(h) \ acked) \cup {batch} /\ batch \notin Log!Stored(h)
            BY <1>1, <1>4, <1>7, <3>1
        <3>5. Log!Store(batch)
            BY <1>7, <1>o, <3>3, <3>4 DEF Log!Store, Intact
        <3>6. QED
            BY <3>2, <3>5 DEF Log!Next, LogNext
    <2>3. QED
        BY <2>1, <2>2
<1>8. ~(SyncDirectory /\ call = "clear")
    BY DEF Intact, Steady, Sound
<1>9. QED
    BY <1>5, <1>6, <1>7, <1>8, StepsAre DEF Ordinary

LEMMA LogFollows == IInv /\ IInv' /\ ReadWhole /\ ReadWhole' /\ [Next]_vars => LogNext
<1>1. SUFFICES ASSUME IInv, IInv', ReadWhole, ReadWhole', [Next]_vars PROVE LogNext
    OBVIOUS
<1>2. CASE Intact /\ Intact'
    BY <1>1, <1>2, StaysIntact
<1>3. CASE Intact /\ ~Intact'
    BY <1>3 DEF LogNext, Log!Next, Log!BeginClear, Intact
<1>4. CASE ~Intact /\ ~Intact'
    BY <1>4 DEF LogNext, Log!Next, Log!Damaged, Intact
<1>5. CASE ~Intact /\ Intact'
    <2>1. left'.torn = left.torn /\ ((SyncDirectory /\ call = "clear") \/ SyncFile \/ Ordinary)
        BY <1>1, StepsAre
    <2>2. ~SyncFile
        BY <1>1, <1>5, <2>1 DEF SyncFile, Intact, Steady, Sound, IInv, Control
    <2>3. SyncDirectory /\ call = "clear"
        BY <1>5, <2>1, <2>2 DEF Ordinary, Promises, Intact
    <2>4. Log!Cleared
        BY <1>1, <1>5, <2>3, ClearSucceeds
    <2>5. QED
        BY <2>4 DEF LogNext, Log!Next
<1>6. QED
    BY <1>2, <1>3, <1>4, <1>5

(* ImplementsLog: the store implements the log SessionLog promises.  As    *)
(* long as appends are whole or nothing, load_messages returns a batch     *)
(* whole and last or not at all, keeps it once its append was              *)
(* acknowledged, loses one that was not only to a power failure, and       *)
(* returns nothing after a clear that succeeded; for any number of batches *)
(* and any segment size (segmented_append_records,                         *)
(* segmented_load_messages, segmented_clear_session).                      *)
THEOREM LogImplemented == Spec => ImplementsLog
<1>1. Init => Log!Init
    BY LogStarts
<1>2. IInv => ReadWhole
    BY LogRead
<1>3. IInv /\ IInv' /\ ReadWhole /\ ReadWhole' /\ [Next]_vars => [Log!Next]_<<History, Range(History) \ acked, Steady /\ ~left.torn, left.outages>>
    BY LogFollows DEF LogNext
<1>4. QED
    BY <1>1, <1>2, <1>3, Inductive, PTL DEF Spec, ImplementsLog, Log!LogSpec
=============================================================================

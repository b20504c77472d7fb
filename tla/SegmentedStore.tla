--------------------------- MODULE SegmentedStore ---------------------------
(***************************************************************************)
(* One session of the segmented JSON store                                 *)
(* (adapters/src/storage/cc_json_segmented_store.c): a directory with a    *)
(* manifest, which names the current segment, and numbered segment files   *)
(* to which batches are appended one line each.  The store's mutex makes   *)
(* its calls exclude each other, so at most one is under way; but every    *)
(* call is a series of file operations, each a step here: any of them can  *)
(* fail, and the process or the machine can stop between any two.          *)
(*                                                                         *)
(* A piece is what one append_bytes left in a file: a whole line, the      *)
(* whole payload without its newline, or a proper beginning of it.  What   *)
(* is appended after a piece without newline continues its line, and the   *)
(* JSON parser (cJSON_Parse) reads the first value of a line and ignores   *)
(* what follows it.                                                        *)
(*                                                                         *)
(* A medium in a message or a tool result goes to a file of its own before *)
(* the line that refers to it is written.  The file is named after the     *)
(* record and the content; one that is there is not written again.         *)
(*                                                                         *)
(* Left out: directories (created when missing, never decided on), the     *)
(* workspace name in the manifest, and the recovery file .bak, which       *)
(* nothing writes.  A line counts 1 towards segment_bytes.                 *)
(***************************************************************************)
EXTENDS Integers, SequencesExt

CONSTANTS
    MaxBatches,    \* bound: batches appended in a behaviour
    SegmentLines,  \* lines that fit segment_bytes
    Environments   \* what may go wrong in a behaviour: see Environment

(* How many batches are appended, operations fail, crashes of the process  *)
(* and power failures (which lose what was not synchronised) happen; and   *)
(* whether an append may leave a part of what it was to write, and reading *)
(* an existing manifest may fail; and whether batches have no media, each  *)
(* its own, or all the same.                                               *)
Environment == [appends : 0..MaxBatches, faults : Nat, stops : Nat, outages : Nat,
                torn : BOOLEAN, unread : BOOLEAN, media : {"none", "own", "same"}]

ASSUME Assumption ==
    /\ MaxBatches \in Nat /\ SegmentLines \in Nat \ {0}
    /\ Environments \subseteq Environment

Batches == 1..MaxBatches
Segments == 1..(MaxBatches + 1)
Absent == 0                      \* no such file; otherwise a manifest is the
Torn == -1                       \* segment it names, or unreadable
Form == {"line", "payload", "torn"}

VARIABLES
    manifest, tmp,   \* manifest.json and manifest.json.tmp
    durable,         \* the manifest a power failure leaves
    segment,         \* the pieces of each segment file
    synced,          \* how many of them a power failure leaves
    media,           \* the media file of each name
    call, step,      \* the call under way and its next file operation
    batch,           \* the batch being appended
    saving,          \* the segment the manifest being saved is to name
    into,            \* the segment chosen for the append, or 0
    appended,        \* appends begun so far
    acked,           \* batches whose append returned success, since the last clear
    broken,          \* a clear was broken off and none has succeeded since
    adrift,          \* since the last clear an append went where only a
                     \* manifest points that a power failure may take back
    left             \* what may still be appended and go wrong

files == <<manifest, tmp, durable, segment, synced, media>>
control == <<call, step, batch, saving, into>>
history == <<appended, acked, broken, adrift>>
vars == <<files, control, history, left>>

Init ==
    /\ manifest = Absent /\ tmp = Absent /\ durable = Absent
    /\ segment = [i \in Segments |-> <<>>]
    /\ synced = [i \in Segments |-> 0]
    /\ media = [b \in Batches |-> "none"]
    /\ call = "none" /\ step = "idle"
    /\ batch = 0 /\ saving = 0 /\ into = 0
    /\ appended = 0 /\ acked = {} /\ broken = FALSE /\ adrift = FALSE
    /\ left \in Environments

Happens(what) == left[what] > 0 /\ left' = [left EXCEPT ![what] = @ - 1]
-----------------------------------------------------------------------------
(* Reading *)

(* parse_json_file when the manifest cannot be read: a readable temporary  *)
(* file takes its place.                                                   *)
Fallback == IF tmp > 0 THEN tmp ELSE Absent

Unreadable == manifest = Absent \/ left.unread

(* load_current_segment: what the manifest names, and 1 if there is none.  *)
Named(m) == IF m > 0 THEN m ELSE 1
CurrentSegment == Named(IF manifest > 0 THEN manifest ELSE Fallback)

(* load_messages reads segments current, current - 1, ..., 1; one line     *)
(* that does not parse fails the whole load.                               *)
Readable ==
    \A i \in 1..CurrentSegment : \A p \in Range(segment[i]) : p.first => p.form # "torn"
BatchesIn(pieces) ==
    FlattenSeq([j \in 1..Len(pieces) |-> IF pieces[j].first THEN <<pieces[j].batch>> ELSE << >>])
History == FlattenSeq([i \in 1..CurrentSegment |-> BatchesIn(segment[i])])

(* The steps of load_messages and list_sessions that change a file *)
Recover ==
    /\ step = "idle"
    /\ Unreadable /\ tmp > 0
    /\ manifest' = tmp /\ tmp' = Absent
    /\ UNCHANGED <<durable, segment, synced, media, control, history, left>>
-----------------------------------------------------------------------------
(* Calls *)

Begin(c, s) ==
    /\ step = "idle"
    /\ call' = c /\ step' = s

Return ==
    /\ call' = "none" /\ step' = "idle"
    /\ batch' = 0 /\ saving' = 0 /\ into' = 0

(* A file operation fails, and with it the call. *)
Fails ==
    /\ Happens("faults")
    /\ broken' = (broken \/ call = "clear")
    /\ Return
    /\ UNCHANGED <<appended, acked, adrift>>

Works == UNCHANGED <<history, left>>

Go(s) == step' = s /\ UNCHANGED <<call, batch, saving, into>>
Save(n) == step' = "write" /\ saving' = n /\ UNCHANGED <<call, batch>>

Create ==
    /\ Begin("create", "check")
    /\ UNCHANGED <<batch, saving, into, files, history, left>>

AppendRecords ==
    /\ Happens("appends")
    /\ Begin("append", "check")
    /\ appended' = appended + 1 /\ batch' = appended + 1
    /\ UNCHANGED <<saving, into, files, acked, broken, adrift>>

ClearSession ==
    /\ Begin("clear", "remove")
    /\ UNCHANGED <<batch, saving, into, files, history, left>>

(* The name of the medium a batch brings, and what is done before its line *)
(* is appended                                                             *)
Medium == IF left.media = "same" THEN 1 ELSE batch
Ready == IF left.media = "none" THEN "choose" ELSE "attach"

(* create and append write a first manifest when there is none. *)
CheckManifest ==
    /\ step = "check"
    /\ IF manifest = Absent THEN Save(1) /\ UNCHANGED into
       ELSE IF call = "append" THEN Go(Ready)
       ELSE Return
    /\ UNCHANGED files /\ Works

(* When the file system cannot tell that the manifest is there, the call   *)
(* goes on as if it were not.                                              *)
CheckManifestUnread ==
    /\ step = "check" /\ manifest # Absent
    /\ left.unread /\ Happens("faults")
    /\ Save(1)
    /\ UNCHANGED <<into, files, history>>
-----------------------------------------------------------------------------
(* save_manifest: the temporary file is written and synchronised, replaces *)
(* the manifest, and the directory is synchronised.  Before that the old   *)
(* manifest is read for its workspace, which may bring it back; create     *)
(* does not read it when it was given a workspace.                         *)

Restored == {manifest} \cup {m \in {Fallback} : Unreadable /\ m # Absent}
Leftover == {Absent, Torn, saving}

WriteManifest ==
    /\ step = "write"
    /\ manifest' \in Restored
    /\ tmp' = saving
    /\ Go("replace") /\ Works
    /\ UNCHANGED <<durable, segment, synced, media>>

(* On failure the temporary file is removed, unless that fails too. *)
WriteManifestFails ==
    /\ step = "write"
    /\ manifest' \in Restored
    /\ tmp' \in Leftover
    /\ Fails
    /\ UNCHANGED <<durable, segment, synced, media>>

ReplaceManifest ==
    /\ step = "replace"
    /\ manifest' = tmp
    /\ tmp' = Absent
    /\ Go("syncDir") /\ Works
    /\ UNCHANGED <<durable, segment, synced, media>>

ReplaceManifestFails ==
    /\ step = "replace"
    /\ tmp' \in {Absent, tmp}
    /\ Fails
    /\ UNCHANGED <<manifest, durable, segment, synced, media>>

SyncDirectory ==
    /\ step = "syncDir"
    /\ durable' = manifest
    /\ \/ /\ call = "append"
          /\ Go(IF into = 0 THEN Ready ELSE "append")
          /\ UNCHANGED history
       \/ /\ call = "create"
          /\ Return
          /\ UNCHANGED history
       \/ /\ call = "clear"
          /\ Return
          /\ acked' = {} /\ broken' = FALSE /\ adrift' = FALSE
          /\ UNCHANGED appended
    /\ UNCHANGED <<manifest, tmp, segment, synced, media, left>>

SyncDirectoryFails ==
    /\ step = "syncDir"
    /\ Fails
    /\ UNCHANGED files
-----------------------------------------------------------------------------
(* build_batch_record *)

Holds(state) == media' = [media EXCEPT ![Medium] = state]

(* write_bytes_if_missing *)
MediumThere ==
    /\ step = "attach" /\ media[Medium] # "none"
    /\ Go("choose") /\ Works
    /\ UNCHANGED files

WriteMedium ==
    /\ step = "attach"
    /\ \/ media[Medium] = "none" /\ UNCHANGED left
       \/ media[Medium] # "none" /\ left.unread /\ Happens("faults")
    /\ Holds("written")
    /\ Go("syncMedium")
    /\ UNCHANGED <<manifest, tmp, durable, segment, synced, history>>

(* What a write that failed or was cut off leaves: write_bytes truncates   *)
(* the file first.                                                         *)
PartlyWritten ==
    {media} \cup {[media EXCEPT ![Medium] = state] : state \in {"torn", "written"}}

WriteMediumFails ==
    /\ step = "attach" /\ media[Medium] = "none"
    /\ media' \in PartlyWritten
    /\ Fails
    /\ UNCHANGED <<manifest, tmp, durable, segment, synced>>

SyncMedium ==
    /\ step = "syncMedium"
    /\ Holds("synced")
    /\ Go("choose") /\ Works
    /\ UNCHANGED <<manifest, tmp, durable, segment, synced>>

SyncMediumFails ==
    /\ step = "syncMedium"
    /\ Fails
    /\ UNCHANGED files
-----------------------------------------------------------------------------
(* append_record_line *)

(* A batch that does not fit the current segment opens the next one, which *)
(* the manifest names before anything is written to it.                    *)
Full(i) == segment[i] # <<>> /\ Len(segment[i]) + 1 > SegmentLines

Target(i) ==
    /\ IF Full(i) THEN Save(i + 1) /\ into' = i + 1 /\ UNCHANGED adrift
       ELSE /\ step' = "append" /\ into' = i /\ UNCHANGED <<call, batch, saving>>
            /\ adrift' = (adrift \/ Named(durable) # i)
    /\ UNCHANGED <<appended, acked, broken>>

ChooseSegment ==
    /\ step = "choose"
    /\ Target(Named(manifest))
    /\ UNCHANGED <<files, left>>

(* The manifest cannot be read: the temporary file takes its place, and    *)
(* without one the current segment is taken to be the first.               *)
ChooseSegmentUnread ==
    /\ step = "choose"
    /\ left.unread /\ Happens("faults")
    /\ Target(Named(Fallback))
    /\ IF tmp > 0 THEN manifest' = tmp /\ tmp' = Absent ELSE UNCHANGED <<manifest, tmp>>
    /\ UNCHANGED <<durable, segment, synced, media>>

(* What is appended after a piece without newline continues its line. *)
AtLineStart(i) == segment[i] = <<>> \/ Last(segment[i]).form = "line"
WithPiece(f) ==
    [segment EXCEPT ![into] =
        Append(@, [batch |-> batch, form |-> f, first |-> AtLineStart(into)])]

AppendLine ==
    /\ step = "append"
    /\ segment' = WithPiece("line")
    /\ Go("syncFile") /\ Works
    /\ UNCHANGED <<manifest, tmp, durable, synced, media>>

(* What an append that failed or was cut off leaves in the file. *)
PartlyAppended ==
    {segment} \cup {WithPiece(f) : f \in IF left.torn THEN Form ELSE {"line"}}

AppendFails ==
    /\ step = "append"
    /\ segment' \in PartlyAppended
    /\ Fails
    /\ UNCHANGED <<manifest, tmp, durable, synced, media>>

(* Mutant: the batch is acknowledged without fsync. *)
SyncFileMutant ==
    /\ step = "syncFile"
    /\ acked' = acked \cup {batch}
    /\ Return
    /\ UNCHANGED <<files, appended, broken, adrift, left>>

SyncFile ==
    /\ step = "syncFile"
    /\ synced' = [synced EXCEPT ![into] = Len(segment[into])]
    /\ acked' = acked \cup {batch}
    /\ Return
    /\ UNCHANGED <<manifest, tmp, durable, segment, media, appended, broken, adrift, left>>

SyncFileFails ==
    /\ step = "syncFile"
    /\ Fails
    /\ UNCHANGED files
-----------------------------------------------------------------------------
(* clear_session removes the files one by one, in the order of the         *)
(* directory, creates the first segment and saves a new manifest.          *)

RemoveManifest ==
    /\ step = "remove" /\ manifest # Absent
    /\ manifest' = Absent
    /\ UNCHANGED <<tmp, durable, segment, synced, media, control>> /\ Works

RemoveTemporary ==
    /\ step = "remove" /\ tmp # Absent
    /\ tmp' = Absent
    /\ UNCHANGED <<manifest, durable, segment, synced, media, control>> /\ Works

RemoveSegment(i) ==
    /\ step = "remove" /\ segment[i] # <<>>
    /\ segment' = [segment EXCEPT ![i] = <<>>]
    /\ synced' = [synced EXCEPT ![i] = 0]
    /\ UNCHANGED <<manifest, tmp, durable, media, control>> /\ Works

RemoveFails ==
    /\ step = "remove"
    /\ Fails
    /\ UNCHANGED files

RemoveMedium(b) ==
    /\ step = "remove" /\ media[b] # "none"
    /\ media' = [media EXCEPT ![b] = "none"]
    /\ UNCHANGED <<manifest, tmp, durable, segment, synced, control>> /\ Works

(* Mutant: clear_session only resets the manifest. *)
KeepSegmentsMutant ==
    /\ step = "remove"
    /\ manifest = Absent /\ tmp = Absent
    /\ Save(1)
    /\ UNCHANGED <<into, files>> /\ Works

(* Mutant: clear_session forgets the older segments. *)
RemovedMutant ==
    /\ step = "remove"
    /\ manifest = Absent /\ tmp = Absent /\ segment[1] = <<>>
    /\ Save(1)
    /\ UNCHANGED <<into, files>> /\ Works

Removed ==
    /\ step = "remove"
    /\ manifest = Absent /\ tmp = Absent
    /\ \A i \in Segments : segment[i] = <<>>
    /\ \A b \in Batches : media[b] = "none"
    /\ Save(1)
    /\ UNCHANGED <<into, files>> /\ Works
-----------------------------------------------------------------------------
(* The process stops: the operation it was in may be done, undone or half  *)
(* done.                                                                   *)

Interrupted ==
    /\ broken' = (broken \/ call = "clear")
    /\ Return
    /\ UNCHANGED <<appended, acked, adrift>>

CutOffSegment == IF step = "append" THEN PartlyAppended ELSE {segment}
CutOffMedia == IF step = "attach" /\ media[Medium] = "none" THEN PartlyWritten ELSE {media}
CutOffTmp == IF step = "write" THEN {tmp, Torn, saving} ELSE {tmp}

ProcessStops ==
    /\ Happens("stops")
    /\ Interrupted
    /\ segment' \in CutOffSegment /\ tmp' \in CutOffTmp /\ media' \in CutOffMedia
    /\ UNCHANGED <<manifest, durable, synced>>

(* What is left of a medium that was not synchronised                      *)
Remains == [torn |-> {"none", "torn"}, written |-> {"none", "torn", "synced"}]

(* The power fails: of what was not synchronised any part may be gone.     *)
(* sync_file is taken to keep the name of the file as well.                *)
PowerFails ==
    /\ Happens("outages")
    /\ Interrupted
    /\ \E cut \in CutOffSegment :
          LET unsure == {i \in Segments : synced[i] < Len(cut[i])} IN
          \E keep \in [unsure -> 0..MaxBatches] :
              /\ \A i \in unsure : keep[i] \in synced[i]..Len(cut[i])
              /\ segment' = [i \in Segments |->
                               IF i \in unsure THEN SubSeq(cut[i], 1, keep[i]) ELSE cut[i]]
              /\ synced' = [i \in Segments |-> IF i \in unsure THEN keep[i] ELSE synced[i]]
    /\ \E cut \in CutOffMedia :
          \E keep \in [{b \in Batches : cut[b] \in DOMAIN Remains} -> {"none", "torn", "synced"}] :
              /\ \A b \in DOMAIN keep : keep[b] \in Remains[cut[b]]
              /\ media' = [b \in Batches |-> IF b \in DOMAIN keep THEN keep[b] ELSE cut[b]]
    /\ manifest' \in {durable, manifest}
    /\ durable' = manifest'
    /\ tmp' \in CutOffTmp \cup {Absent, Torn, manifest}
-----------------------------------------------------------------------------
SaveSteps ==
    \/ WriteManifest \/ WriteManifestFails \/ ReplaceManifest \/ ReplaceManifestFails
    \/ SyncDirectory \/ SyncDirectoryFails

MediumSteps ==
    \/ MediumThere \/ WriteMedium \/ WriteMediumFails \/ SyncMedium \/ SyncMediumFails

AppendSteps ==
    \/ ChooseSegment \/ ChooseSegmentUnread \/ AppendLine \/ AppendFails
    \/ SyncFile \/ SyncFileFails

ClearSteps ==
    \/ RemoveManifest \/ RemoveTemporary \/ (\E i \in Segments : RemoveSegment(i))
    \/ (\E b \in Batches : RemoveMedium(b)) \/ RemoveFails \/ Removed

Next ==
    \/ Create \/ AppendRecords \/ ClearSession \/ Recover
    \/ CheckManifest \/ CheckManifestUnread
    \/ SaveSteps \/ MediumSteps \/ AppendSteps \/ ClearSteps
    \/ ProcessStops \/ PowerFails

Spec == Init /\ [][Next]_vars
-----------------------------------------------------------------------------
(* Properties *)

(* While a session is being cleared, or a clear was broken off, nothing is *)
(* promised of it.                                                         *)
Sound == call # "clear" /\ ~broken

(* Which segments are read is promised as long as a manifest that exists   *)
(* can be read and no append relied on one that was not synchronised       *)
(* (README, section 9).                                                    *)
Steady == Sound /\ ~left.unread /\ ~adrift

(* Loading the session is the log SessionLog promises, as long as an       *)
(* append is whole or nothing: a batch is stored whole and last or not at  *)
(* all, whatever fails or stops; one whose append was acknowledged is      *)
(* never lost before the session is cleared, one whose append failed is    *)
(* lost at most to a power failure, and a clear that returns success       *)
(* leaves an empty session.                                                *)
Log == INSTANCE SessionLog WITH
    log <- History, loose <- Range(History) \ acked, intact <- Steady /\ ~left.torn,
    outages <- left.outages
ImplementsLog == Log!LogSpec

(* Nothing destroys an acknowledged batch before the session is cleared:   *)
(* its line is in some segment file and synchronised, and so is its        *)
(* medium, as long as no two batches bring the same.  Of a medium that is  *)
(* there only the name is looked at, so that a part left by an append that *)
(* failed passes for the whole (write_bytes_if_missing).  Unless appends   *)
(* leave parts of lines, load_messages finds the line: it begins one, and  *)
(* its segment is among those that are read.                               *)
AckedOnDisk ==
    Sound => \A b \in acked :
        /\ \E i \in Segments : \E j \in 1..synced[i] :
              /\ segment[i][j].batch = b /\ segment[i][j].form = "line"
              /\ Steady => i <= CurrentSegment
              /\ ~left.torn => segment[i][j].first
        /\ left.media = "own" => media[b] = "synced"

(* load_messages returns batches in the order in which they were appended, *)
(* none of them twice, also across segments and after torn writes: of two  *)
(* lines it reads, the later is of the later batch.                        *)
Before(i, j, m, n) == i < m \/ (i = m /\ j < n)
InOrder ==
    Steady =>
        \A i, m \in 1..CurrentSegment :
            \A j \in DOMAIN segment[i] : \A n \in DOMAIN segment[m] :
                segment[i][j].first /\ segment[m][n].first /\ Before(i, j, m, n)
                    => segment[i][j].batch < segment[m][n].batch
=============================================================================

---------------------------- MODULE StoresProofs ----------------------------
(* Theorems about the stores that Stores puts together on the files of     *)
(* Filesystem: first those of the long-term memory (MemoryStores), then    *)
(* the session stores (SessionStores), for every number of keys, values,   *)
(* sessions, batches, records, failures and crashes and on every platform. *)
EXTENDS Stores, SequenceTheorems, WellFoundedInduction, TLAPS

JsonMemory == kind = "json_memory"
OfMemory == kind \in {"inmem", "json_memory", "sqlite_memory"}

(* A content all of whose answers may be found after a restart *)
Good(c) == \A k \in Keys : ValueIn(c, k) \in possible[k]
NothingHeld == \A k \in Keys : None \in possible[k]

(* States of the files: what reads would find in one, and that a main file *)
(* is there and durable unless nothing need be found                       *)
IsFile(f) == f = NoFile \/ f.is \in {"torn", "cached", "whole"}
TextGood(f) == HasText(f) => Good(f.data)
Serves(d) ==
    /\ d = [main |-> d.main, tmp |-> d.tmp] /\ IsFile(d.main) /\ IsFile(d.tmp)
    /\ TextGood(d.main) /\ TextGood(d.tmp)
Backed(d) == d.main.is = "whole" \/ NothingHeld

(* FatFs unlinks the main file before it renames the temporary one. *)
Unlinked ==
    /\ platform = "freertos" /\ disk.main = NoFile /\ disk.tmp.is = "whole"
    /\ ~up \/ save.at \in {"rename", "failed"}

FilesServe ==
    /\ Serves(disk) /\ (Backed(disk) \/ Unlinked)
    /\ \A d \in older : Serves(d) /\ Backed(d)
    /\ platform # "posix" => older = {}

(* How far the replacement of the main file has come *)
Replacing ==
    /\ save # NoSave => up /\ save.data = entries
    /\ save.at = "replace" => platform # "freertos"
    /\ save.at \in {"unlink", "rename"} => platform = "freertos"
    /\ save.at = "sync" => HasText(disk.tmp) /\ disk.tmp.data = save.data
    /\ save.at \in {"replace", "unlink", "rename"} => disk.tmp = WholeFile(save.data)
    /\ save.at \in {"sync_dir", "saved"} => disk.main = WholeFile(save.data) /\ disk.tmp = NoFile
    /\ save.at = "saved" => older = {}

(* The operation under way, and what it goes back to *)
Calling ==
    /\ call # NoCall => up /\ JsonMemory
    /\ JsonMemory => (call = NoCall <=> save = NoSave)
    /\ save = NoSave \/ (save = [at |-> save.at, data |-> save.data] /\ save.at # "idle")

Unspoiled ==
    /\ JsonMemory => FilesServe /\ Replacing
    /\ kind = "sqlite_memory" \/ (JsonMemory /\ up) => Good(entries)
    /\ call # NoCall => Good(call.before)
    /\ OfMemory /\ up => Held(IF call = NoCall THEN entries ELSE call.before) = expected

MInv == Calling /\ (~spoiled => Unspoiled)
-----------------------------------------------------------------------------
LEMMA SamePossible ==
    ASSUME possible' = possible
    PROVE  /\ \A c : Good(c)' <=> Good(c)
           /\ \A f : TextGood(f)' <=> TextGood(f)
           /\ \A d : (Serves(d)' <=> Serves(d)) /\ (Backed(d)' <=> Backed(d))
    BY DEF Good, TextGood, Serves, Backed, NothingHeld

LEMMA InitMInv == Init => MInv
<1> SUFFICES ASSUME Init PROVE MInv
    OBVIOUS
<1> USE DEF Init, FsInit, MemoryInit
<1>1. Calling
    BY DEF Calling
<1>2. \A k \in Keys : ValueIn(entries, k) = None
    BY DEF ValueIn, At, Empty
<1>3. Good(entries) /\ NothingHeld
    BY <1>2 DEF Good, NothingHeld
<1>4. FilesServe
    BY <1>3 DEF FilesServe, Serves, Backed, TextGood, HasText, IsFile, NoFile
<1>5. Replacing
    BY DEF Replacing, NoSave
<1>6. QED
    BY <1>1, <1>3, <1>4, <1>5 DEF MInv, Unspoiled

-----------------------------------------------------------------------------
(* Replacing the main file *)

(* What a step of the replacement has before it *)
LEMMA SaveUnderWay ==
    ASSUME MInv, JsonMemory, ~spoiled, save.at # "idle"
    PROVE  /\ up /\ save = [at |-> save.at, data |-> save.data] /\ save.data = entries
           /\ Good(save.data) /\ save # NoSave
    BY DEF MInv, Calling, Unspoiled, Replacing, NoSave

LEMMA StepMoves ==
    ASSUME Calling, NEW from \in {"open", "write", "sync", "replace", "unlink", "rename", "sync_dir"},
           NEW to, to # "idle", Step(from, to)
    PROVE  /\ save.at = from /\ save # NoSave /\ save'.at = to /\ save'.data = save.data
           /\ save' # NoSave /\ save' = [at |-> save'.at, data |-> save'.data]
<1>1. save.at = from /\ save # NoSave /\ save = [at |-> save.at, data |-> save.data]
    BY DEF Calling, Step, NoSave
<1>2. save' = [save EXCEPT !.at = to]
    BY DEF Step
<1> PICK from1, data : from1 = save.at /\ data = save.data
    OBVIOUS
<1>3. save' = [at |-> to, data |-> data]
    BY <1>1, <1>2
<1>4. QED
    BY <1>1, <1>3 DEF NoSave

LEMMA TemporaryChanges ==
    ASSUME Serves(disk), possible' = possible, NEW f, IsFile(f), TextGood(f),
           disk' = [disk EXCEPT !.tmp = f]
    PROVE  /\ disk'.main = disk.main /\ disk'.tmp = f
           /\ Serves(disk)' /\ (Backed(disk) => Backed(disk)')
<1> PICK d : d = disk'
    OBVIOUS
<1> PICK main : main = disk.main
    OBVIOUS
<1>1. d = [main |-> main, tmp |-> f] /\ disk.main = main
    BY DEF Serves
<1>2. Serves(d) /\ (Backed(disk) => Backed(d))
    BY <1>1 DEF Serves, Backed
<1>3. Serves(d)' /\ (Backed(disk) => Backed(d)')
    BY <1>2, SamePossible
<1>4. QED
    BY <1>1, <1>3 DEF Serves, Backed, TextGood, Good, NothingHeld

LEMMA MainReplaced ==
    ASSUME Serves(disk), possible' = possible, disk' = Moved
    PROVE  disk'.main = disk.tmp /\ disk'.tmp = NoFile /\ Serves(disk)'
<1> PICK d : d = disk'
    OBVIOUS
<1>1. d.main = disk.tmp /\ d.tmp = NoFile
    BY DEF Moved
<1>2. Serves(d)
    BY <1>1 DEF Serves, Moved, IsFile, TextGood, HasText, NoFile
<1>3. Serves(d)'
    BY <1>2, SamePossible
<1>4. QED
    BY <1>1, <1>3 DEF Serves, TextGood, Good

LEMMA OlderServe ==
    ASSUME FilesServe, possible' = possible
    PROVE  \A d \in older : Serves(d)' /\ Backed(d)'
    BY SamePossible DEF FilesServe

(* Only the files move; what is remembered of the memory stays. *)
LEMMA SaveKeepsFiles ==
    ASSUME MInv, JsonMemory, ~spoiled, SaveNext, UNCHANGED memoryVars
    PROVE  (FilesServe /\ Replacing)'
<1>0. /\ FilesServe /\ Replacing /\ Calling /\ up' = up /\ kind' = kind
      /\ possible' = possible /\ entries' = entries
    BY DEF MInv, Unspoiled, SaveNext, memoryVars
<1>1. \A d \in older : Serves(d)' /\ Backed(d)'
    BY <1>0, OlderServe
<1>2. Serves(disk) /\ Serves(disk)' = Serves(disk)'
    BY <1>0 DEF FilesServe
<1>3. UNCHANGED disk => Serves(disk)' /\ (Backed(disk) => Backed(disk)')
    BY <1>0, <1>2 DEF Serves, Backed, TextGood, Good, NothingHeld
<1>4. ASSUME NEW from \in {"open", "write", "sync", "replace", "unlink", "rename", "sync_dir"}, SaveFails(from)
      PROVE  (FilesServe /\ Replacing)'
    <2>1. /\ UNCHANGED <<platform, disk, older>>
          /\ save.at = from /\ save'.at = "failed" /\ save'.data = save.data /\ save' # NoSave /\ save # NoSave
        BY <1>0, <1>4, StepMoves DEF SaveFails
    <2>2. (Backed(disk) \/ Unlinked)'
        BY <1>0, <1>3, <2>1 DEF FilesServe, Unlinked
    <2>3. QED
        BY <1>0, <1>1, <1>3, <2>1, <2>2 DEF FilesServe, Replacing
<1>5. CASE OpenTemporary
    <2>1. CASE /\ Step("open", "write") /\ disk' = [disk EXCEPT !.tmp = TornFile]
               /\ UNCHANGED <<platform, older, faults>>
        <3>1. /\ save.at = "open" /\ save'.at = "write" /\ save'.data = save.data
              /\ save' # NoSave /\ save # NoSave
            BY <1>0, <2>1, StepMoves
        <3>2. Backed(disk) /\ up
            BY <1>0, <3>1 DEF FilesServe, Unlinked, Replacing
        <3>3. IsFile(TornFile) /\ TextGood(TornFile)
            BY DEF IsFile, TornFile, TextGood, HasText
        <3>4. Serves(disk)' /\ Backed(disk)'
            BY <1>0, <1>2, <2>1, <3>2, <3>3, TemporaryChanges
        <3>5. QED
            BY <1>0, <1>1, <2>1, <3>1, <3>4 DEF FilesServe, Replacing
    <2>2. QED
        BY <1>4, <1>5, <2>1 DEF OpenTemporary
<1>6. CASE WriteTemporary
    <2>1. CASE /\ Step("write", "sync")
               /\ disk' = [disk EXCEPT !.tmp = IF platform = "freertos" THEN WholeFile(save.data)
                                               ELSE CachedFile(save.data)]
               /\ UNCHANGED <<platform, older, faults>>
        <3>1. /\ save.at = "write" /\ save'.at = "sync" /\ save'.data = save.data
              /\ save' # NoSave /\ save # NoSave
            BY <1>0, <2>1, StepMoves
        <3>2. Backed(disk) /\ Good(save.data)
            BY <3>1, <1>0, SaveUnderWay DEF FilesServe, Unlinked, Replacing
        <3> DEFINE file == IF platform = "freertos" THEN WholeFile(save.data) ELSE CachedFile(save.data)
        <3>3. IsFile(file) /\ TextGood(file) /\ HasText(file) /\ file.data = save.data
            BY <3>2 DEF IsFile, WholeFile, CachedFile, TextGood, HasText
        <3>4. disk' = [disk EXCEPT !.tmp = file]
            BY <2>1
        <3> HIDE DEF file
        <3>5. Serves(disk)' /\ Backed(disk)' /\ disk'.tmp = file
            BY <1>0, <1>2, <3>2, <3>3, <3>4, TemporaryChanges
        <3>6. QED
            BY <1>0, <1>1, <2>1, <3>1, <3>3, <3>5 DEF FilesServe, Replacing, HasText
    <2>2. QED
        BY <1>4, <1>6, <2>1 DEF WriteTemporary
<1>7. CASE SyncTemporary
    <2>1. CASE /\ Step("sync", IF platform = "freertos" THEN "unlink" ELSE "replace")
               /\ disk' = [disk EXCEPT !.tmp = WholeFile(save.data)]
               /\ UNCHANGED <<platform, older, faults>>
        <3>1. /\ save.at = "sync" /\ save'.at = (IF platform = "freertos" THEN "unlink" ELSE "replace")
              /\ save'.data = save.data
              /\ save' # NoSave /\ save # NoSave
            BY <1>0, <2>1, StepMoves
        <3>2. Backed(disk) /\ Good(save.data)
            BY <3>1, <1>0, SaveUnderWay DEF FilesServe, Unlinked, Replacing
        <3> DEFINE file == WholeFile(save.data)
        <3>3. IsFile(file) /\ TextGood(file)
            BY <3>2 DEF IsFile, WholeFile, TextGood, HasText
        <3>4. disk' = [disk EXCEPT !.tmp = file]
            BY <2>1
        <3>5. WholeFile(save'.data) = file
            BY <3>1
        <3> HIDE DEF file
        <3>6. Serves(disk)' /\ Backed(disk)' /\ disk'.tmp = file
            BY <1>0, <1>2, <3>2, <3>3, <3>4, TemporaryChanges
        <3>7. QED
            BY <1>0, <1>1, <2>1, <3>1, <3>5, <3>6 DEF FilesServe, Replacing
    <2>2. QED
        BY <1>4, <1>7, <2>1 DEF SyncTemporary
<1>8. CASE AtomicReplace
    <2>1. CASE /\ Step("replace", IF platform = "posix" THEN "sync_dir" ELSE "saved")
               /\ disk' = Moved
               /\ older' = (IF platform = "posix" THEN older \cup {disk} ELSE {})
               /\ UNCHANGED <<platform, faults>>
        <3>1. /\ save.at = "replace" /\ save'.at = (IF platform = "posix" THEN "sync_dir" ELSE "saved")
              /\ save'.data = save.data
              /\ save' # NoSave /\ save # NoSave
            BY <1>0, <2>1, StepMoves
        <3>2. Backed(disk) /\ disk.tmp = WholeFile(save.data)
            BY <3>1, <1>0 DEF FilesServe, Unlinked, Replacing
        <3>3. Serves(disk)' /\ disk'.main = WholeFile(save.data) /\ disk'.tmp = NoFile
            BY <1>0, <1>2, <2>1, <3>2, MainReplaced
        <3>4. Backed(disk)'
            BY <3>3 DEF Backed, WholeFile
        <3>5. \A d \in older' : Serves(d)' /\ Backed(d)'
            BY <1>0, <1>1, <1>2, <2>1, <3>2, SamePossible
        <3>6. QED
            BY <1>0, <2>1, <3>1, <3>3, <3>4, <3>5 DEF FilesServe, Replacing
    <2>2. QED
        BY <1>4, <1>8, <2>1 DEF AtomicReplace
<1>9. CASE UnlinkMain
    <2>1. /\ Step("unlink", "rename") /\ UNCHANGED <<platform, older>>
          /\ disk' = disk \/ disk' = [disk EXCEPT !.main = NoFile]
        BY <1>9 DEF UnlinkMain
    <2>2. /\ save.at = "unlink" /\ save'.at = "rename" /\ save'.data = save.data
          /\ save' # NoSave /\ save # NoSave
        BY <1>0, <2>1, StepMoves
    <2>3. Backed(disk) /\ disk.tmp = WholeFile(save.data)
        BY <2>2, <1>0 DEF FilesServe, Unlinked, Replacing
    <2>4. CASE disk' = disk
        BY <1>0, <1>1, <1>3, <2>1, <2>2, <2>3, <2>4 DEF FilesServe, Replacing
    <2>5. CASE disk' = [disk EXCEPT !.main = NoFile]
        <3> PICK d : d = disk'
            OBVIOUS
        <3> PICK tmp : tmp = disk.tmp
            OBVIOUS
        <3>1. d = [main |-> NoFile, tmp |-> tmp]
            BY <1>2, <2>5 DEF Serves
        <3>2. Serves(d) /\ d.tmp.is = "whole" /\ d.main = NoFile
            BY <1>2, <2>3, <3>1 DEF Serves, IsFile, TextGood, HasText, NoFile, WholeFile
        <3>3. Serves(d)'
            BY <1>0, <3>2, SamePossible
        <3>4. Serves(disk)'
            BY <3>3 DEF Serves, TextGood, Good
        <3>5. QED
            BY <1>0, <1>1, <2>1, <2>2, <2>3, <3>1, <3>2, <3>4 DEF FilesServe, Replacing, Unlinked
    <2>6. QED
        BY <2>1, <2>4, <2>5
<1>10. CASE RenameTemporary
    <2>1. CASE /\ disk.main = NoFile /\ Step("rename", "saved") /\ disk' = Moved
               /\ UNCHANGED <<platform, older, faults>>
        <3>1. /\ save.at = "rename" /\ save'.at = "saved" /\ save'.data = save.data
              /\ save' # NoSave /\ save # NoSave
            BY <1>0, <2>1, StepMoves
        <3>2. disk.tmp = WholeFile(save.data)
            BY <3>1, <1>0 DEF Replacing
        <3>3. Serves(disk)' /\ disk'.main = WholeFile(save.data) /\ disk'.tmp = NoFile
            BY <1>0, <1>2, <2>1, <3>2, MainReplaced
        <3>4. Backed(disk)'
            BY <3>3 DEF Backed, WholeFile
        <3>5. QED
            BY <1>0, <1>1, <2>1, <3>1, <3>3, <3>4 DEF FilesServe, Replacing
    <2>2. CASE Step("rename", "failed") /\ UNCHANGED <<platform, disk, older, faults>>
        <3>1. /\ save.at = "rename" /\ save'.at = "failed" /\ save'.data = save.data
              /\ save' # NoSave /\ save # NoSave
            BY <1>0, <2>2, StepMoves
        <3>2. (Backed(disk) \/ Unlinked)'
            BY <1>0, <1>3, <2>2, <3>1 DEF FilesServe, Unlinked
        <3>3. QED
            BY <1>0, <1>1, <1>3, <2>2, <3>1, <3>2 DEF FilesServe, Replacing
    <2>3. QED
        BY <1>4, <1>10, <2>1, <2>2 DEF RenameTemporary
<1>11. CASE SyncDirectory
    <2>1. CASE Step("sync_dir", "saved") /\ older' = {} /\ UNCHANGED <<platform, disk, faults>>
        <3>1. /\ save.at = "sync_dir" /\ save'.at = "saved" /\ save'.data = save.data
              /\ save' # NoSave /\ save # NoSave
            BY <1>0, <2>1, StepMoves
        <3>2. Backed(disk)
            BY <3>1, <1>0 DEF FilesServe, Unlinked, Replacing
        <3>3. QED
            BY <1>0, <1>3, <2>1, <3>1, <3>2 DEF FilesServe, Replacing
    <2>2. QED
        BY <1>4, <1>11, <2>1 DEF SyncDirectory
<1>12. QED
    BY <1>5, <1>6, <1>7, <1>8, <1>9, <1>10, <1>11 DEF SaveNext

LEMMA SaveKeeps ==
    ASSUME MInv, SaveNext, UNCHANGED memoryVars
    PROVE  MInv'
<1>0. /\ up' = up /\ kind' = kind /\ possible' = possible /\ entries' = entries /\ call' = call
      /\ spoiled' = spoiled /\ expected' = expected
    BY DEF SaveNext, memoryVars
<1>1. \E from \in {"open", "write", "sync", "replace", "unlink", "rename", "sync_dir"} :
          \E to : to # "idle" /\ Step(from, to)
    <2>1. ASSUME NEW f \in {"open", "write", "sync", "replace", "rename", "sync_dir"}, SaveFails(f)
          PROVE  Step(f, "failed")
        BY <2>1 DEF SaveFails
    <2>2. \/ Step("open", "write") \/ Step("write", "sync") \/ Step("sync", "unlink")
          \/ Step("sync", "replace") \/ Step("replace", "sync_dir") \/ Step("replace", "saved")
          \/ Step("unlink", "rename") \/ Step("rename", "saved") \/ Step("rename", "failed")
          \/ Step("sync_dir", "saved")
          \/ \E f \in {"open", "write", "sync", "replace", "rename", "sync_dir"} : Step(f, "failed")
        BY <2>1 DEF SaveNext, OpenTemporary, WriteTemporary, SyncTemporary, AtomicReplace, UnlinkMain,
                    RenameTemporary, SyncDirectory
    <2>3. QED
        BY <2>2
<1>2. save # NoSave /\ save' # NoSave /\ save' = [at |-> save'.at, data |-> save'.data] /\ save'.at # "idle"
    <2>1. PICK from \in {"open", "write", "sync", "replace", "unlink", "rename", "sync_dir"} :
              \E to : to # "idle" /\ Step(from, to)
        BY <1>1
    <2>2. PICK to : to # "idle" /\ Step(from, to)
        BY <2>1
    <2>3. QED
        BY <2>2, StepMoves DEF MInv
<1>3. Calling'
    BY <1>0, <1>2 DEF MInv, Calling, JsonMemory
<1>4. ASSUME ~spoiled PROVE Unspoiled'
    <2>1. JsonMemory => (FilesServe /\ Replacing)'
        BY <1>4, SaveKeepsFiles
    <2>2. \A c : Good(c)' <=> Good(c)
        BY <1>0, SamePossible
    <2>3. JsonMemory' = JsonMemory /\ OfMemory' = OfMemory
        BY <1>0 DEF JsonMemory, OfMemory
    <2>4. kind' = "sqlite_memory" \/ (JsonMemory' /\ up') => Good(entries)'
        BY <1>0, <1>4, <2>2, <2>3 DEF MInv, Unspoiled
    <2>5. call' # NoCall => Good(call.before)'
        BY <1>0, <1>4, <2>2 DEF MInv, Unspoiled
    <2>6. QED
        BY <1>0, <1>4, <2>1, <2>3, <2>4, <2>5 DEF MInv, Unspoiled, Good
<1>5. QED
    BY <1>0, <1>3, <1>4 DEF MInv

(* The session stores use the files for themselves only. *)
LEMMA SessionKeeps ==
    ASSUME MInv, SessionNext, UNCHANGED memoryVars
    PROVE  MInv'
<1>0. /\ possible' = possible /\ entries' = entries /\ call' = call
      /\ spoiled' = spoiled /\ expected' = expected
    BY DEF memoryVars
<1>1. /\ kind \in {"memory", "json", "sqlite"} /\ kind' = kind
      /\ save' = save \/ save' = NoSave \/ \E c : save' = [at |-> "open", data |-> c]
    <2>1. ASSUME NEW s \in Sessions,
                 \/ MemoryCreateSession(s) \/ MemoryClearSession(s) \/ SqliteCreateSession(s) \/ SqliteClear(s)
          PROVE  kind \in {"memory", "sqlite"} /\ kind' = kind /\ save' = save
        BY <2>1 DEF MemoryCreateSession, MemoryClearSession, SqliteCreateSession, SqliteClear, memoryRest, fsVars
    <2>2. ASSUME NEW o, NEW c, LoadThenSave(o, c)
          PROVE  kind = "json" /\ kind' = kind /\ (save' = save \/ save' = [at |-> "open", data |-> c])
        BY <2>2 DEF LoadThenSave, StartSave
    <2>3. ASSUME NEW s \in Sessions, JsonCreateSession(s) \/ JsonClearSession(s)
          PROVE  kind = "json" /\ kind' = kind /\ (save' = save \/ \E c : save' = [at |-> "open", data |-> c])
        BY <2>2, <2>3 DEF JsonCreateSession, JsonClearSession
    <2>4. ASSUME NEW b \in Batches, JsonAppendRecords(b)
          PROVE  kind = "json" /\ kind' = kind /\ (save' = save \/ \E c : save' = [at |-> "open", data |-> c])
        BY <2>2, <2>4 DEF JsonAppendRecords
    <2>5. ASSUME NEW b \in Batches, MemoryAppendRecords(b) \/ SqliteBegin(b)
          PROVE  kind \in {"memory", "sqlite"} /\ kind' = kind /\ save' = save
        BY <2>5 DEF MemoryAppendRecords, SqliteBegin, memoryRest
    <2>6. ASSUME OpenMemoryStore \/ OpenSqliteStore \/ SqliteInsert \/ SqliteEnd
          PROVE  kind \in {"memory", "sqlite"} /\ kind' = kind /\ save' = save
        BY <2>6 DEF OpenMemoryStore, OpenSqliteStore, SqliteInsert, SqliteEnd, fsVars
    <2>7. ASSUME JsonLoadMessages \/ JsonReturns \/ OpenJson
          PROVE  kind = "json" /\ kind' = kind /\ (save' = save \/ save' = NoSave)
        BY <2>7 DEF JsonLoadMessages, JsonReturns, OpenJson
    <2>8. QED
        BY <2>1, <2>3, <2>4, <2>5, <2>6, <2>7 DEF SessionNext
<1>2. call = NoCall
    BY <1>1 DEF MInv, Calling, JsonMemory
<1>3. Calling'
    BY <1>0, <1>1, <1>2 DEF MInv, Calling, JsonMemory, NoSave
<1>4. Unspoiled'
    BY <1>0, <1>1, <1>2 DEF Unspoiled, JsonMemory, OfMemory
<1>5. QED
    BY <1>3, <1>4 DEF MInv

-----------------------------------------------------------------------------
(* The process dies or the power is lost. *)

LEMMA LeftServes ==
    ASSUME NEW d, Serves(d), NEW e \in LeftOf(d)
    PROVE  Serves(e) /\ (d.main.is = "whole" => e.main.is = "whole") /\ (Backed(d) => Backed(e))
           /\ (d.main = NoFile /\ d.tmp.is = "whole" => e = d)
<1>1. PICK main \in Left(d.main), tmp \in Left(d.tmp) : e = [main |-> main, tmp |-> tmp]
    BY DEF LeftOf
<1>2. ASSUME NEW f, IsFile(f), TextGood(f), NEW g \in Left(f)
      PROVE  IsFile(g) /\ TextGood(g) /\ (f.is = "whole" \/ f = NoFile => g = f)
    <2>1. CASE f.is = "cached"
        <3>1. g = WholeFile(f.data) \/ g = TornFile
            BY <1>2, <2>1 DEF Left
        <3>2. Good(f.data) /\ f # NoFile
            BY <1>2, <2>1 DEF TextGood, HasText, NoFile
        <3>3. QED
            BY <2>1, <3>1, <3>2 DEF IsFile, TextGood, HasText, WholeFile, TornFile
    <2>2. CASE f.is # "cached"
        BY <1>2, <2>2 DEF Left
    <2>3. QED
        BY <2>1, <2>2
<1>3. /\ IsFile(main) /\ TextGood(main) /\ IsFile(tmp) /\ TextGood(tmp)
      /\ d.main.is = "whole" \/ d.main = NoFile => main = d.main
      /\ d.tmp.is = "whole" => tmp = d.tmp
    BY <1>2 DEF Serves
<1>4. QED
    BY <1>1, <1>3 DEF Serves, Backed

LEMMA CrashKeeps ==
    ASSUME MInv, Crash
    PROVE  MInv'
<1>0. /\ up' = FALSE /\ save' = NoSave /\ call' = NoCall /\ kind' = kind /\ spoiled' = spoiled
      /\ platform' = platform
      /\ kind # "inmem" => possible' = possible
      /\ kind = "sqlite_memory" => entries' = entries
    BY DEF Crash, FsCrash, MemoryStops
<1>1. Calling'
    BY <1>0 DEF Calling
<1>2. ASSUME ~spoiled, JsonMemory PROVE (FilesServe /\ Replacing)'
    <2>0. FilesServe /\ possible' = possible
        BY <1>0, <1>2 DEF MInv, Unspoiled, JsonMemory
    <2>1. PICK e : e = disk'
        OBVIOUS
    <2>2. Serves(e) /\ (Backed(e) \/ (platform = "freertos" /\ e.main = NoFile /\ e.tmp.is = "whole"))
        <3>1. PICK off \in BOOLEAN : FsCrash(off)
            BY DEF Crash
        <3>2. CASE off
            <4>1. PICK d \in older \cup {disk} : e \in LeftOf(d)
                BY <2>1, <3>1, <3>2 DEF FsCrash
            <4>2. Serves(d) /\ (Backed(d) \/ (d = disk /\ Unlinked))
                BY <2>0 DEF FilesServe
            <4>3. QED
                BY <4>1, <4>2, LeftServes DEF Unlinked
        <3>3. CASE ~off
            BY <2>0, <2>1, <3>1, <3>3 DEF FsCrash, FilesServe, Unlinked
        <3>4. QED
            BY <3>2, <3>3
    <2>3. Serves(e)' /\ (Backed(e)' \/ (platform = "freertos" /\ e.main = NoFile /\ e.tmp.is = "whole"))
        BY <2>0, <2>2, SamePossible
    <2>4. Serves(disk)' /\ (Backed(disk) \/ Unlinked)'
        BY <1>0, <2>1, <2>3 DEF Serves, Backed, TextGood, Good, NothingHeld, Unlinked
    <2>5. /\ \A d \in older' : Serves(d)' /\ Backed(d)'
          /\ platform' # "posix" => older' = {}
        <3>1. older' = {} \/ older' = older
            BY DEF Crash, FsCrash
        <3>2. QED
            BY <1>0, <2>0, <3>1, OlderServe DEF FilesServe
    <2>6. QED
        BY <1>0, <2>4, <2>5 DEF FilesServe, Replacing, NoSave
<1>3. ASSUME ~spoiled, kind = "sqlite_memory" PROVE Good(entries)'
    BY <1>0, <1>3 DEF MInv, Unspoiled, Good
<1>4. QED
    BY <1>0, <1>1, <1>2, <1>3 DEF MInv, Unspoiled, JsonMemory

-----------------------------------------------------------------------------
(* The operations of the stores of the memory *)

(* A content is what the store may find once it is all that it may find. *)
LEMMA FoundIsPossible ==
    ASSUME NEW c, possible' = [k \in Keys |-> {ValueIn(c, k)}]
    PROVE  Good(c)'
    BY DEF Good

LEMMA SucceedsKeeps ==
    ASSUME MInv, NEW c, kind \in {"inmem", "sqlite_memory"}, Succeeds(c)
    PROVE  MInv'
<1>1. /\ entries' = c /\ expected' = Held(c) /\ possible' = [k \in Keys |-> {ValueIn(c, k)}]
      /\ kind' = kind /\ call' = call /\ save' = save /\ up' = up /\ spoiled' = spoiled
    BY DEF Succeeds, atomicRest
<1>2. call = NoCall /\ ~JsonMemory
    BY DEF MInv, Calling, JsonMemory
<1>3. Calling'
    BY <1>1, <1>2 DEF MInv, Calling, JsonMemory
<1>4. Good(c)'
    BY <1>1, FoundIsPossible
<1>5. Unspoiled'
    BY <1>1, <1>2, <1>4 DEF Unspoiled, JsonMemory, Good
<1>6. QED
    BY <1>3, <1>5 DEF MInv

LEMMA AtomicKeeps ==
    ASSUME MInv,
           \/ \E o \in MemoryOps : InmemChange(o) \/ SqliteDelete(o)
           \/ \E k \in Keys, v \in Values : SqliteSet(k, v)
    PROVE  MInv'
<1>1. CASE \E c : kind \in {"inmem", "sqlite_memory"} /\ Succeeds(c)
    BY <1>1, SucceedsKeeps
<1>2. ASSUME kind = "sqlite_memory", UNCHANGED <<entries, expected, possible>>, UNCHANGED atomicRest,
             spoiled' = TRUE \/ spoiled' = spoiled
      PROVE  MInv'
    <2>1. /\ entries' = entries /\ expected' = expected /\ possible' = possible
          /\ kind' = kind /\ call' = call /\ save' = save /\ up' = up
        BY <1>2 DEF atomicRest
    <2>2. call = NoCall /\ ~JsonMemory
        BY <1>2 DEF MInv, Calling, JsonMemory
    <2>3. Calling'
        BY <2>1, <2>2 DEF MInv, Calling, JsonMemory
    <2>4. ASSUME ~spoiled PROVE Unspoiled'
        BY <1>2, <2>1, <2>2, <2>4 DEF MInv, Unspoiled, JsonMemory, OfMemory, Good
    <2>5. QED
        BY <1>2, <2>3, <2>4 DEF MInv
<1>3. ASSUME NEW o \in MemoryOps, InmemChange(o) PROVE MInv'
    BY <1>1, <1>3 DEF InmemChange
<1>4. ASSUME NEW o \in MemoryOps, SqliteDelete(o) PROVE MInv'
    <2>1. CASE Succeeds(Applied(entries, o))
        BY <1>1, <1>4, <2>1 DEF SqliteDelete
    <2>2. CASE spoiled' = TRUE /\ UNCHANGED <<entries, expected, possible, atomicRest>>
        BY <1>2, <1>4, <2>2 DEF SqliteDelete
    <2>3. QED
        BY <1>4, <2>1, <2>2 DEF SqliteDelete
<1>5. ASSUME NEW k \in Keys, NEW v \in Values, SqliteSet(k, v) PROVE MInv'
    <2>1. CASE Succeeds(SetEntry(entries, k, v))
        BY <1>1, <1>5, <2>1 DEF SqliteSet
    <2>2. CASE UNCHANGED <<entries, expected, possible, spoiled, atomicRest>>
        BY <1>2, <1>5, <2>2 DEF SqliteSet
    <2>3. QED
        BY <1>5, <2>1, <2>2 DEF SqliteSet
<1>6. QED
    BY <1>3, <1>4, <1>5

LEMMA CallKeeps ==
    ASSUME MInv, NEW o \in MemoryOps, JsonMemoryCall(o)
    PROVE  MInv'
<1>1. /\ JsonMemory /\ up /\ call = NoCall
      /\ platform' = platform /\ disk' = disk /\ older' = older /\ kind' = kind /\ up' = up
      /\ expected' = expected /\ spoiled' = spoiled
      /\ possible' = [k \in Keys |-> possible[k] \cup {ValueIn(entries', k)}]
      /\ call' = [op |-> o.op, before |-> entries]
      /\ save' = [at |-> "open", data |-> entries']
    BY DEF JsonMemoryCall, StartSave, JsonMemory
<1>2. call' # NoCall /\ call'.before = entries
    <2>1. o.op # "none"
        BY DEF MemoryOps
    <2>2. call'.op = o.op /\ NoCall.op = "none"
        BY <1>1 DEF NoCall
    <2>3. QED
        BY <1>1, <2>1, <2>2
<1>3. save' # NoSave /\ save = NoSave
    BY <1>1 DEF NoSave, MInv, Calling
<1>4. Calling'
    BY <1>1, <1>2, <1>3 DEF Calling, JsonMemory
<1>5. ASSUME ~spoiled PROVE Unspoiled'
    <2>1. FilesServe /\ Good(entries) /\ Held(entries) = expected
        BY <1>1, <1>5 DEF MInv, Unspoiled, OfMemory, JsonMemory
    <2>2. \A c : Good(c) => Good(c)'
        BY <1>1 DEF Good
    <2>3. NothingHeld => NothingHeld'
        BY <1>1 DEF NothingHeld
    <2>4. \A d : (Serves(d) => Serves(d)') /\ (Backed(d) => Backed(d)')
        BY <2>2, <2>3 DEF Serves, TextGood, Backed
    <2>5. Backed(disk)
        BY <1>1, <1>3, <2>1 DEF FilesServe, Unlinked, NoSave
    <2>6. Serves(disk)' /\ Backed(disk)'
        <3> PICK e : e = disk
            OBVIOUS
        <3>1. Serves(e)' /\ Backed(e)'
            BY <2>1, <2>4, <2>5 DEF FilesServe
        <3>2. QED
            BY <1>1, <3>1 DEF Serves, TextGood, Good, Backed, NothingHeld
    <2>7. FilesServe'
        BY <1>1, <2>1, <2>4, <2>6 DEF FilesServe
    <2>8. Replacing'
        BY <1>1 DEF Replacing
    <2>9. Good(entries)'
        <3> PICK c : c = entries'
            OBVIOUS
        <3>1. Good(c)'
            BY <1>1 DEF Good
        <3>2. QED
            BY <3>1 DEF Good
    <2>10. Good(call.before)'
        <3> PICK c : c = entries
            OBVIOUS
        <3>1. Good(c)' /\ call'.before = c
            BY <1>2, <2>1, <2>2
        <3>2. QED
            BY <3>1 DEF Good
    <2>11. QED
        BY <1>1, <1>2, <2>1, <2>7, <2>8, <2>9, <2>10 DEF Unspoiled, JsonMemory
<1>6. QED
    BY <1>1, <1>4, <1>5 DEF MInv

LEMMA SavedKeeps ==
    ASSUME MInv, JsonMemorySaved
    PROVE  MInv'
<1>1. /\ JsonMemory /\ save.at = "saved" /\ save' = NoSave /\ call' = NoCall
      /\ platform' = platform /\ disk' = disk /\ older' = older /\ kind' = kind /\ up' = up
      /\ entries' = entries /\ spoiled' = spoiled /\ expected' = Held(entries)
      /\ possible' = [k \in Keys |-> {ValueIn(entries, k)}]
    BY DEF JsonMemorySaved, JsonMemory
<1>2. Calling'
    BY <1>1 DEF Calling
<1>3. ASSUME ~spoiled PROVE Unspoiled'
    <2>1. /\ save.data = entries /\ disk.main = WholeFile(save.data) /\ disk.tmp = NoFile /\ older = {}
          /\ Serves(disk)
        BY <1>1, <1>3, SaveUnderWay DEF MInv, Unspoiled, Replacing, FilesServe
    <2> PICK c : c = entries
        OBVIOUS
    <2>2. Good(c)'
        BY <1>1, FoundIsPossible
    <2>3. Good(entries)' /\ Good(disk.main.data)'
        BY <1>1, <2>1, <2>2 DEF Good, WholeFile
    <2>4. Serves(disk)' /\ Backed(disk)'
        BY <1>1, <2>1, <2>3 DEF Serves, Backed, TextGood, HasText, NoFile, WholeFile, IsFile
    <2>5. FilesServe' /\ Replacing'
        BY <1>1, <2>1, <2>4 DEF FilesServe, Replacing, NoSave
    <2>6. QED
        BY <1>1, <2>3, <2>5 DEF Unspoiled
<1>4. QED
    BY <1>1, <1>2, <1>3 DEF MInv

LEMMA FailedKeeps ==
    ASSUME MInv, JsonMemoryFailed
    PROVE  MInv'
<1>1. /\ JsonMemory /\ save.at = "failed" /\ save' = NoSave /\ call' = NoCall
      /\ platform' = platform /\ older' = older /\ kind' = kind /\ up' = up
      /\ entries' = call.before /\ expected' = expected /\ possible' = possible
      /\ spoiled' = (spoiled \/ (platform = "freertos" /\ disk.main = NoFile))
      /\ disk' = disk \/ disk' = [disk EXCEPT !.tmp = NoFile]
    BY DEF JsonMemoryFailed, JsonMemory
<1>2. Calling'
    BY <1>1 DEF Calling
<1>3. ASSUME ~spoiled' PROVE Unspoiled'
    <2>1. ~spoiled /\ call # NoCall /\ up
        BY <1>1, <1>3, SaveUnderWay DEF MInv, Calling
    <2>2. FilesServe /\ Backed(disk) /\ Good(call.before) /\ Held(call.before) = expected
        BY <1>1, <1>3, <2>1 DEF MInv, Unspoiled, FilesServe, Unlinked, OfMemory, JsonMemory
    <2>3. Serves(disk)' /\ Backed(disk)'
        <3>1. CASE disk' = disk
            BY <1>1, <2>2, <3>1 DEF FilesServe, Serves, Backed, TextGood, Good, NothingHeld
        <3>2. CASE disk' = [disk EXCEPT !.tmp = NoFile]
            <4>1. IsFile(NoFile) /\ TextGood(NoFile)
                BY DEF IsFile, TextGood, HasText, NoFile
            <4>2. QED
                BY <1>1, <2>2, <3>2, <4>1, TemporaryChanges DEF FilesServe
        <3>3. QED
            BY <1>1, <3>1, <3>2
    <2>4. FilesServe' /\ Replacing'
        BY <1>1, <2>2, <2>3, OlderServe DEF FilesServe, Replacing, NoSave
    <2>5. Good(entries)'
        BY <1>1, <2>2 DEF Good
    <2>6. QED
        BY <1>1, <2>2, <2>4, <2>5 DEF Unspoiled
<1>4. QED
    BY <1>2, <1>3 DEF MInv

(* What is loaded when the store opens was on the disk. *)
LEMMA LoadKeepsFiles ==
    ASSUME Unspoiled, Calling, ~spoiled', ~up, JsonMemory,
           LoadsMain \/ LoadsTemporary \/ LoadsNothing \/ ReadFails,
           UNCHANGED <<platform, possible, save>>
    PROVE  (FilesServe /\ Replacing)' /\ Good(entries)'
<1>0. FilesServe /\ Replacing /\ save = NoSave
    BY DEF Unspoiled, Calling
<1>1. \A d \in older : Serves(d)' /\ Backed(d)'
    BY <1>0, OlderServe
<1>2. Replacing'
    BY <1>0 DEF Replacing, NoSave
<1>3. CASE LoadsMain
    <2>1. /\ HasText(disk.main) /\ entries' = disk.main.data /\ older' = older
          /\ disk' = disk \/ disk' = [disk EXCEPT !.tmp = NoFile]
        BY <1>3 DEF LoadsMain, Readable
    <2>2. Backed(disk) /\ Serves(disk) /\ Good(disk.main.data)
        BY <1>0, <2>1 DEF FilesServe, Unlinked, Serves, TextGood, HasText, NoFile
    <2>3. Serves(disk)' /\ Backed(disk)'
        <3>1. CASE disk' = disk
            BY <2>2, <3>1 DEF Serves, Backed, TextGood, Good, NothingHeld
        <3>2. CASE disk' = [disk EXCEPT !.tmp = NoFile]
            <4>1. IsFile(NoFile) /\ TextGood(NoFile)
                BY DEF IsFile, TextGood, HasText, NoFile
            <4>2. QED
                BY <2>2, <3>2, <4>1, TemporaryChanges
        <3>3. QED
            BY <2>1, <3>1, <3>2
    <2>4. Good(entries)'
        BY <2>1, <2>2 DEF Good
    <2>5. QED
        BY <1>0, <1>1, <1>2, <2>1, <2>3, <2>4 DEF FilesServe
<1>4. CASE LoadsTemporary
    <2>1. /\ ~HasText(disk.main) /\ HasText(disk.tmp)
          /\ entries' = disk.tmp.data /\ disk' = Moved
          /\ older' = {} \/ (platform = "posix" /\ older' = older \cup {disk})
        BY <1>4 DEF LoadsTemporary, Readable
    <2>2. Serves(disk) /\ (NothingHeld \/ (platform = "freertos" /\ disk.tmp.is = "whole"))
        BY <1>0, <2>1 DEF FilesServe, Backed, Unlinked, HasText
    <2>3. Serves(disk)' /\ disk'.main = disk.tmp
        BY <2>1, <2>2, MainReplaced
    <2>4. Backed(disk)' /\ (platform = "posix" => Backed(disk))
        BY <2>2, <2>3 DEF Backed, NothingHeld
    <2>5. \A d \in older' : Serves(d)' /\ Backed(d)'
        BY <1>1, <2>1, <2>2, <2>4, SamePossible
    <2>6. Good(entries)'
        BY <2>1, <2>2 DEF Serves, TextGood, Good
    <2>7. QED
        BY <1>2, <2>1, <2>3, <2>4, <2>5, <2>6 DEF FilesServe
<1>5. CASE LoadsNothing
    <2>1. /\ ~HasText(disk.main) /\ ~HasText(disk.tmp) /\ entries' = Empty
          /\ disk' = disk /\ older' = older
        BY <1>5 DEF LoadsNothing
    <2>2. Serves(disk) /\ NothingHeld /\ Backed(disk)
        BY <1>0, <2>1 DEF FilesServe, Backed, Unlinked, HasText
    <2>3. Serves(disk)' /\ Backed(disk)'
        BY <2>1, <2>2 DEF Serves, Backed, TextGood, Good, NothingHeld
    <2>4. Good(entries)'
        BY <2>1, <2>2 DEF Good, NothingHeld, ValueIn, At, Empty
    <2>5. QED
        BY <1>0, <1>1, <1>2, <2>1, <2>3, <2>4 DEF FilesServe
<1>6. CASE ReadFails
    BY <1>6 DEF ReadFails
<1>7. QED
    BY <1>3, <1>4, <1>5, <1>6

LEMMA OpenKeeps ==
    ASSUME MInv, OpenMemory
    PROVE  MInv'
<1>1. /\ ~up /\ up' = TRUE /\ expected' = Held(entries') /\ OfMemory
      /\ UNCHANGED <<platform, save, kind, call, possible>>
    BY DEF OpenMemory, OfMemory
<1>2. call = NoCall
    BY <1>1 DEF MInv, Calling
<1>3. Calling'
    BY <1>1, <1>2 DEF MInv, Calling, JsonMemory
<1>4. CASE JsonMemory
    <2>1. LoadsMain \/ LoadsTemporary \/ LoadsNothing \/ ReadFails
        BY <1>4 DEF OpenMemory, JsonMemory
    <2>2. ~spoiled' => ~spoiled
        BY <2>1 DEF LoadsMain, LoadsTemporary, LoadsNothing, ReadFails
    <2>3. ASSUME ~spoiled' PROVE (FilesServe /\ Replacing)' /\ Good(entries)'
        BY <1>1, <1>4, <2>1, <2>2, <2>3, LoadKeepsFiles DEF MInv
    <2>4. ~spoiled' => Unspoiled'
        BY <1>1, <1>2, <2>3 DEF Unspoiled
    <2>5. QED
        BY <1>3, <2>4 DEF MInv
<1>5. CASE ~JsonMemory
    <2>1. entries' = entries /\ spoiled' = spoiled
        BY <1>5 DEF OpenMemory, JsonMemory
    <2>2. ~spoiled => Unspoiled'
        BY <1>1, <1>2, <1>5, <2>1 DEF MInv, Unspoiled, JsonMemory, Good
    <2>3. QED
        BY <1>3, <2>1, <2>2 DEF MInv
<1>6. QED
    BY <1>4, <1>5

LEMMA StepMInv == MInv /\ [Next]_vars => MInv'
<1> SUFFICES ASSUME MInv, [Next]_vars PROVE MInv'
    OBVIOUS
<1>1. CASE Crash
    BY <1>1, CrashKeeps
<1>2. CASE SaveNext /\ UNCHANGED <<sessionVars, memoryVars>>
    BY <1>2, SaveKeeps
<1>3. CASE SessionNext /\ UNCHANGED memoryVars
    BY <1>3, SessionKeeps
<1>4. CASE MemoryNext
    BY <1>4, AtomicKeeps, CallKeeps, SavedKeeps, FailedKeeps, OpenKeeps DEF MemoryNext
<1>5. CASE UNCHANGED vars
    BY <1>5 DEF vars, fsVars, memoryVars, MInv, Calling, Unspoiled, JsonMemory, OfMemory, FilesServe,
                Replacing, Serves, Backed, Unlinked, TextGood, Good, NothingHeld
<1>6. QED
    BY <1>1, <1>2, <1>3, <1>4, <1>5 DEF Next

(* At every point between two calls of the platform, the files of the       *)
(* long-term memory, what it holds, and the call and the save under way     *)
(* are related as MInv says.                                                *)
THEOREM MemoryInvariant == Spec => []MInv
<1>1. Init => MInv
    BY InitMInv
<1>2. MInv /\ [Next]_vars => MInv'
    BY StepMInv
<1>3. QED
    BY <1>1, <1>2, PTL DEF Spec

(* What the long-term memory finds after any crash, power loss or failed   *)
(* call of the platform is, of every key, the last value a call            *)
(* acknowledged or one that was being written since (save_to_file and      *)
(* load_from_file of cc_json_file_memory_store.c, and the SQLite store).   *)
THEOREM AcknowledgedIsFound == Spec => []MemorySurvives
<1>1. MInv => MemorySurvives
    BY DEF MInv, Unspoiled, JsonMemory, Good, MemorySurvives
<1>2. QED
    BY <1>1, MemoryInvariant, PTL

(* A change of the memory that returned an error leaves no trace in what   *)
(* the store goes on answering (json_set and the two deletes restore the   *)
(* array), at whatever call of the platform it failed.                     *)
THEOREM FailedChangesUndone == Spec => []FailedChangeUnseen
<1>1. MInv => FailedChangeUnseen
    BY DEF MInv, Unspoiled, OfMemory, FailedChangeUnseen
<1>2. QED
    BY <1>1, MemoryInvariant, PTL
-----------------------------------------------------------------------------
(* The session stores: their inductive invariant.  T are the batches       *)
(* tried, K those kept, p the platform.                                    *)

IsContent(c) ==
    /\ c = [sessions |-> c.sessions, records |-> c.records]
    /\ c.records \in Seq(Batches \X Nat)

(* Every batch is whole or absent, and nothing is there that nobody tried   *)
(* to append                                                                *)
WholeOrAbsent(c, b, T) == IsAbsent(c, b) \/ (IsWhole(c, b) /\ b \in T)
Sane(c, T) == IsContent(c) /\ \A b \in Batches : WholeOrAbsent(c, b, T)
Keeps(c, K) == \A b \in K : IsWhole(c, b)

(* The JSON file store.  What was acknowledged is in the main file, and     *)
(* durable, also in the states a power loss brings back                     *)
Legible(d, T) == d = [main |-> d.main, tmp |-> d.tmp] /\ (HasText(d.main) => Sane(d.main.data, T))
Durable(d, K, p) ==
    p # "freertos" /\ K # {} => d.main.is = "whole" /\ Keeps(d.main.data, K)

SessionFile ==
    /\ \A d \in older \cup {disk} : Legible(d, tried) /\ Durable(d, kept, platform)
    /\ platform # "posix" => older = {}

Writing(f, j) ==
    /\ f = [at |-> f.at, data |-> f.data] /\ f.at # "idle"
    /\ Sane(f.data, tried)
    /\ platform # "freertos" => Keeps(f.data, kept)
    /\ j.op = "append" => j.b \in tried /\ IsWhole(f.data, j.b)

SessionSave ==
    /\ job = NoJob <=> save = NoSave
    /\ save # NoSave => Writing(save, job)
    /\ save.at = "replace" => platform # "freertos"
    /\ save.at \in {"unlink", "rename"} => platform = "freertos"
    /\ save.at = "sync" => HasText(disk.tmp) /\ disk.tmp.data = save.data
    /\ save.at \in {"replace", "unlink", "rename"} => disk.tmp = WholeFile(save.data)
    /\ save.at \in {"sync_dir", "saved"} => disk.main = WholeFile(save.data)
    /\ save.at = "saved" => older = {}

(* SQLite.  The batch under way is in the transaction only, and as far as   *)
(* it has come.                                                             *)
UnderWay ==
    /\ batch = [b |-> batch.b, n |-> batch.n, ok |-> batch.ok] /\ batch.n \in Nat
    /\ batch.b \in tried \ kept /\ IsAbsent(db, batch.b)
    /\ \A b \in Batches \ {batch.b} : WholeOrAbsent(work, b, tried)
    /\ batch.ok => txn /\ batch.n <= Len(Records[batch.b]) /\ Has(work, batch.b, batch.n)

Database ==
    /\ Sane(db, tried) /\ Keeps(db, kept)
    /\ IsContent(work) /\ Keeps(work, kept)
    /\ ~txn => work = db
    /\ IF batch = NoBatch THEN Sane(work, tried) ELSE UnderWay

SInv ==
    /\ kept \subseteq tried /\ tried \subseteq Batches
    /\ kind = "memory" => Sane(work, tried) /\ Keeps(work, kept)
    /\ kind = "json" => SessionFile /\ SessionSave
    /\ kind = "sqlite" => Database
    /\ kind \notin {"memory", "json", "sqlite"} => work = Nothing /\ kept = {}
-----------------------------------------------------------------------------
(* Contents *)

LEMMA UpTo ==
    ASSUME NEW N \in Nat, NEW S, 0 \in S, \A n \in 1..N : n - 1 \in S => n \in S
    PROVE  \A n \in 0..N : n \in S
<1> DEFINE M == {n \in 0..N : n \notin S}
<1> SUFFICES ASSUME M # {} PROVE FALSE
    OBVIOUS
<1>1. M \subseteq Nat
    OBVIOUS
<1>2. PICK n \in M : \A m \in M : <<m, n>> \notin OpToRel(<, Nat)
    BY <1>1, WFMin, NatLessThanWellFounded, Zenon
<1>3. n \in 0..N /\ n \notin S /\ n # 0
    OBVIOUS
<1>4. n - 1 \in S
    <2>1. n - 1 \in Nat /\ n \in Nat /\ n - 1 < n
        BY <1>3
    <2>2. <<n - 1, n>> \in OpToRel(<, Nat)
        BY <2>1 DEF OpToRel
    <2>3. n - 1 \notin M
        BY <1>2, <2>2
    <2>4. QED
        BY <1>3, <2>3
<1>5. QED
    BY <1>3, <1>4

(* What a clear leaves of the first records, from what it leaves of fewer   *)
OneMore(q, s, left, n) ==
    IF n = 0 THEN << >>
    ELSE IF OfSession(q[n][1], s) THEN left[n - 1]
    ELSE Append(left[n - 1], q[n])

LEMMA OneMoreOf ==
    ASSUME NEW q, NEW s, NEW f, NEW g, NEW n, n = 0 \/ f[n - 1] = g[n - 1]
    PROVE  OneMore(q, s, f, n) = OneMore(q, s, g, n)
BY DEF OneMore

LeftOfRecords(q, s) ==
    LET left[n \in 0..Len(q)] ==
            IF n = 0 THEN << >>
            ELSE IF OfSession(q[n][1], s) THEN left[n - 1]
            ELSE Append(left[n - 1], q[n])
    IN left

LEMMA LeftIs ==
    ASSUME NEW q, Len(q) \in Nat, NEW s
    PROVE  LeftOfRecords(q, s) = [n \in 0..Len(q) |-> OneMore(q, s, LeftOfRecords(q, s), n)]
<1> DEFINE S == {n \in 0..Len(q) : \E f : f = [m \in 0..n |-> OneMore(q, s, f, m)]}
<1>1. 0 \in S
    <2>1. [m \in 0..0 |-> << >>] = [m \in 0..0 |-> OneMore(q, s, [k \in 0..0 |-> << >>], m)]
        BY DEF OneMore
    <2>2. QED
        BY <2>1
<1>2. ASSUME NEW n \in 1..Len(q), n - 1 \in S PROVE n \in S
    <2>1. PICK f : f = [m \in 0..(n - 1) |-> OneMore(q, s, f, m)]
        BY <1>2
    <2> DEFINE g == [m \in 0..n |-> IF m = n THEN OneMore(q, s, f, n) ELSE f[m]]
    <2>2. ASSUME NEW m \in 0..n PROVE g[m] = OneMore(q, s, g, m)
        <3>1. m = 0 \/ (m - 1 \in 0..n /\ m - 1 # n)
            OBVIOUS
        <3>2. m = 0 \/ g[m - 1] = f[m - 1]
            BY <3>1
        <3>3. OneMore(q, s, g, m) = OneMore(q, s, f, m)
            <4> HIDE DEF g
            <4> QED BY <3>2, OneMoreOf
        <3>4. CASE m = n
            BY <3>3, <3>4
        <3>5. CASE m # n
            <4>1. m \in 0..(n - 1)
                BY <3>5
            <4>2. f[m] = OneMore(q, s, f, m)
                BY <2>1, <4>1, Zenon
            <4>3. QED
                BY <3>3, <3>5, <4>2
        <3>6. QED
            BY <3>4, <3>5
    <2>3. g = [m \in 0..n |-> g[m]]
        OBVIOUS
    <2> HIDE DEF g
    <2>4. g = [m \in 0..n |-> OneMore(q, s, g, m)]
        BY <2>2, <2>3
    <2>5. QED
        BY <2>4
<1> HIDE DEF S
<1>3. Len(q) \in S
    <2>0. Len(q) \in Nat
        OBVIOUS
    <2>1. \A n \in 1..Len(q) : n - 1 \in S => n \in S
        BY <1>2
    <2>2. \A n \in 0..Len(q) : n \in S
        BY <1>1, <2>0, <2>1, UpTo, Zenon
    <2>3. QED
        BY <2>2
<1>4. PICK f : f = [m \in 0..Len(q) |-> OneMore(q, s, f, m)]
    BY <1>3 DEF S
<1>5. f = [n \in 0..Len(q) |->
              IF n = 0 THEN << >>
              ELSE IF OfSession(q[n][1], s) THEN f[n - 1]
              ELSE Append(f[n - 1], q[n])]
    BY <1>4 DEF OneMore
<1>6. LeftOfRecords(q, s) = [n \in 0..Len(q) |->
              IF n = 0 THEN << >>
              ELSE IF OfSession(q[n][1], s) THEN LeftOfRecords(q, s)[n - 1]
              ELSE Append(LeftOfRecords(q, s)[n - 1], q[n])]
    BY <1>5 DEF LeftOfRecords
<1>7. QED
    BY <1>6 DEF OneMore

(* Of the sessions that are not cleared, all records are left, in order     *)
Entry == Batches \X Nat
Same(t, q, n, s) ==
    /\ t \in Seq(Entry)
    /\ \A i \in 1..Len(t) : \E k \in 1..n : t[i] = q[k] /\ SessionOf[q[k][1]] # s
    /\ \A k \in 1..n : SessionOf[q[k][1]] # s => \E i \in 1..Len(t) : t[i] = q[k]
    /\ \A b \in Batches :
          (\A k, l \in 1..n : k < l /\ q[k][1] = b /\ q[l][1] = b => q[k][2] < q[l][2])
          => \A i, j \in 1..Len(t) : i < j /\ t[i][1] = b /\ t[j][1] = b => t[i][2] < t[j][2]

LEMMA LeftSame ==
    ASSUME NEW q \in Seq(Entry), NEW s
    PROVE  Same(LeftOfRecords(q, s)[Len(q)], q, Len(q), s)
<1> DEFINE left == LeftOfRecords(q, s)
           S == {n \in 0..Len(q) : Same(left[n], q, n, s)}
<1>1. \A n \in 0..Len(q) : left[n] = OneMore(q, s, left, n)
    <2>1. Len(q) \in Nat
        OBVIOUS
    <2>2. LeftOfRecords(q, s) = [n \in 0..Len(q) |-> OneMore(q, s, LeftOfRecords(q, s), n)]
        BY <2>1, LeftIs
    <2>3. QED
        BY <2>2, Zenon
<1> HIDE DEF left
<1>2. 0 \in S
    <2>1. left[0] = << >>
        BY <1>1 DEF OneMore
    <2>2. Same(<< >>, q, 0, s)
        BY DEF Same
    <2>3. QED
        BY <2>1, <2>2
<1>3. ASSUME NEW n \in 1..Len(q), n - 1 \in S PROVE n \in S
    <2>1. Same(left[n - 1], q, n - 1, s) /\ q[n] \in Entry
        BY <1>3
    <2>0. n \in 0..Len(q) /\ n # 0 /\ n \in Nat
        OBVIOUS
    <2>a. left[n] = OneMore(q, s, left, n)
        BY <1>1, <2>0
    <2>2. PICK r, t, new : r = q[n] /\ t = left[n - 1] /\ new = left[n]
        OBVIOUS
    <2>3. r \in Entry /\ t \in Seq(Entry)
        BY <2>1, <2>2 DEF Same
    <2>4. CASE SessionOf[r[1]] = s
        <3>1. new = t
            BY <2>0, <2>a, <2>2, <2>4 DEF OneMore, OfSession
        <3>2. \A k \in 1..n : SessionOf[q[k][1]] # s => k \in 1..(n - 1)
            BY <2>2, <2>4
        <3>3. \A k \in 1..(n - 1) : k \in 1..n
            OBVIOUS
        <3>4. Same(t, q, n, s)
            BY <2>1, <2>2, <3>2, <3>3 DEF Same
        <3>5. QED
            BY <2>0, <2>2, <3>1, <3>4
    <2>5. CASE SessionOf[r[1]] # s
        <3>1. new = Append(t, r)
            BY <2>0, <2>a, <2>2, <2>5 DEF OneMore, OfSession
        <3>2. /\ new \in Seq(Entry) /\ Len(new) = Len(t) + 1 /\ new[Len(t) + 1] = r
              /\ \A i \in 1..Len(t) : new[i] = t[i]
            BY <2>3, <3>1
        <3> DEFINE L == Len(t)
        <3>3. L \in Nat /\ 1..Len(new) = (1..L) \cup {L + 1} /\ 1..n = (1..(n - 1)) \cup {n}
            BY <2>3, <3>2
        <3>4. \A i \in 1..Len(new) : \E k \in 1..n : new[i] = q[k] /\ SessionOf[q[k][1]] # s
            <4>1. TAKE i \in 1..Len(new)
            <4>2. CASE i = Len(t) + 1
                BY <2>2, <2>5, <3>2, <3>3, <4>2
            <4>3. CASE i \in 1..Len(t)
                <5>1. PICK k \in 1..(n - 1) : t[i] = q[k] /\ SessionOf[q[k][1]] # s
                    BY <2>1, <2>2, <4>3 DEF Same
                <5>2. QED
                    BY <3>2, <3>3, <4>3, <5>1
            <4>4. QED
                BY <3>3, <4>2, <4>3
        <3>5. \A k \in 1..n : SessionOf[q[k][1]] # s => \E i \in 1..Len(new) : new[i] = q[k]
            <4>1. TAKE k \in 1..n
            <4>2. CASE k = n
                BY <2>2, <3>2, <3>3, <4>2
            <4>3. CASE k \in 1..(n - 1)
                <5>1. SUFFICES ASSUME SessionOf[q[k][1]] # s PROVE \E i \in 1..Len(new) : new[i] = q[k]
                    OBVIOUS
                <5>2. PICK i \in 1..Len(t) : t[i] = q[k]
                    BY <2>1, <2>2, <4>3, <5>1 DEF Same
                <5>3. new[i] = q[k] /\ i \in 1..Len(new)
                    BY <3>2, <3>3, <5>2
                <5>4. QED
                    BY <5>3
            <4>4. QED
                BY <3>3, <4>2, <4>3
        <3>6. ASSUME NEW b \in Batches,
                     \A k, l \in 1..n : k < l /\ q[k][1] = b /\ q[l][1] = b => q[k][2] < q[l][2],
                     NEW i \in 1..Len(new), NEW j \in 1..Len(new), i < j, new[i][1] = b, new[j][1] = b
              PROVE  new[i][2] < new[j][2]
            <4>1. i \in 1..L
                BY <3>3, <3>6
            <4>2. CASE j \in 1..L
                <5>1. \A k, l \in 1..(n - 1) : k < l /\ q[k][1] = b /\ q[l][1] = b => q[k][2] < q[l][2]
                    BY <3>3, <3>6
                <5>0. t[i][1] = b /\ t[j][1] = b
                    BY <3>2, <3>6, <4>1, <4>2
                <5>2. t[i][2] < t[j][2]
                    <6>1. Same(t, q, n - 1, s)
                        BY <2>1, <2>2
                    <6>2. \A x, y \in 1..Len(t) : x < y /\ t[x][1] = b /\ t[y][1] = b => t[x][2] < t[y][2]
                        BY <5>1, <6>1 DEF Same
                    <6>3. QED
                        BY <3>6, <4>1, <4>2, <5>0, <6>2
                <5>3. QED
                    BY <3>2, <4>1, <4>2, <5>2
            <4>3. CASE j = L + 1
                <5>1. PICK k \in 1..(n - 1) : t[i] = q[k]
                    BY <2>1, <2>2, <4>1 DEF Same
                <5>a. q[k][1] = b /\ q[n][1] = b
                    BY <2>2, <3>2, <3>6, <4>1, <4>3, <5>1
                <5>2. k < n /\ q[k][1] = b /\ q[n][1] = b /\ k \in 1..n /\ n \in 1..n
                    BY <2>0, <5>1, <5>a
                <5>3. q[k][2] < q[n][2]
                    BY <3>6, <5>2
                <5>4. QED
                    BY <2>2, <3>2, <4>1, <4>3, <5>1, <5>3
            <4>4. QED
                BY <3>3, <4>2, <4>3
        <3>7. Same(new, q, n, s)
            BY <3>2, <3>4, <3>5, <3>6 DEF Same
        <3>8. QED
            BY <2>0, <2>2, <3>7
    <2>6. QED
        BY <2>4, <2>5
<1> HIDE DEF S
<1>4. Len(q) \in S
    <2>0. Len(q) \in Nat
        OBVIOUS
    <2>1. \A n \in 1..Len(q) : n - 1 \in S => n \in S
        BY <1>3
    <2>2. \A n \in 0..Len(q) : n \in S
        BY <1>2, <2>0, <2>1, UpTo, Zenon
    <2>3. QED
        BY <2>2
<1>5. QED
    BY <1>4 DEF S, left

LEMMA ClearedHas ==
    ASSUME NEW c, IsContent(c), NEW s
    PROVE  /\ IsContent(Cleared(c, s))
           /\ \A b \in Batches : \A n \in Nat :
                 Has(c, b, n) => Has(Cleared(c, s), b, IF SessionOf[b] = s THEN 0 ELSE n)
<1> DEFINE q == c.records
           t == LeftOfRecords(q, s)[Len(q)]
<1>1. Cleared(c, s) = [c EXCEPT !.records = t]
    BY DEF Cleared, LeftOfRecords
<1>2. PICK d : d = Cleared(c, s)
    OBVIOUS
<1>3. d = [sessions |-> c.sessions, records |-> t] /\ q \in Seq(Entry)
    BY <1>1, <1>2 DEF IsContent, Entry
<1>4. Same(t, q, Len(q), s)
    BY <1>3, LeftSame
<1>5. d.records = t
    BY <1>3
<1> HIDE DEF t
<1>6. IsContent(d)
    BY <1>3, <1>4, <1>5 DEF IsContent, Same, Entry
<1>7. DOMAIN t = 1..Len(t) /\ DOMAIN q = 1..Len(q) /\ t \in Seq(Entry)
    BY <1>3, <1>4 DEF Same
<1>8. ASSUME NEW b \in Batches, NEW n \in Nat, Has(c, b, n)
      PROVE  Has(d, b, IF SessionOf[b] = s THEN 0 ELSE n)
    <2>1. /\ {q[i] : i \in {i \in 1..Len(q) : q[i][1] = b}} = {<<b, m>> : m \in 1..n}
          /\ \A i, j \in 1..Len(q) : i < j /\ q[i][1] = b /\ q[j][1] = b => q[i][2] < q[j][2]
        BY <1>7, <1>8 DEF Has
    <2>2. \A i, j \in 1..Len(t) : i < j /\ t[i][1] = b /\ t[j][1] = b => t[i][2] < t[j][2]
        BY <1>4, <2>1 DEF Same
    <2>3. CASE SessionOf[b] = s
        <3>1. \A i \in 1..Len(t) : t[i][1] # b
            BY <1>4, <2>3 DEF Same
        <3>2. QED
            BY <1>5, <1>7, <2>3, <3>1 DEF Has
    <2>4. CASE SessionOf[b] # s
        <3>1. {t[i] : i \in {i \in 1..Len(t) : t[i][1] = b}} = {q[i] : i \in {i \in 1..Len(q) : q[i][1] = b}}
            <4>1. \A i \in 1..Len(t) : t[i][1] = b => \E k \in 1..Len(q) : q[k] = t[i] /\ q[k][1] = b
                BY <1>4, ZenonT(40) DEF Same
            <4>2. \A k \in 1..Len(q) : q[k][1] = b => \E i \in 1..Len(t) : t[i] = q[k] /\ t[i][1] = b
                BY <1>4, <2>4 DEF Same
            <4>3. QED
                <5>1. ASSUME NEW i \in {i \in 1..Len(t) : t[i][1] = b}
                      PROVE  t[i] \in {q[k] : k \in {k \in 1..Len(q) : q[k][1] = b}}
                    BY <4>1
                <5>2. ASSUME NEW k \in {k \in 1..Len(q) : q[k][1] = b}
                      PROVE  q[k] \in {t[i] : i \in {i \in 1..Len(t) : t[i][1] = b}}
                    BY <4>2
                <5>3. QED
                    BY <5>1, <5>2
        <3>2. QED
            BY <1>5, <1>7, <2>1, <2>2, <2>4, <3>1 DEF Has
    <2>5. QED
        BY <2>3, <2>4
<1>9. QED
    BY <1>2, <1>6, <1>8
LEMMA Joined ==
    ASSUME NEW q \in Seq(Entry), NEW more \in Seq(Entry)
    PROVE  /\ q \o more \in Seq(Entry) /\ Len(q \o more) = Len(q) + Len(more)
           /\ \A i \in 1..Len(more) : (q \o more)[Len(q) + i] = more[i]
<1>1. \A j \in 1..(Len(q) + Len(more)) :
          (q \o more)[j] = IF j <= Len(q) THEN q[j] ELSE more[j - Len(q)]
    BY ConcatProperties, Zenon
<1>2. ASSUME NEW i \in 1..Len(more) PROVE (q \o more)[Len(q) + i] = more[i]
    <2>1. Len(q) \in Nat /\ Len(more) \in Nat /\ i \in Int /\ 1 <= i /\ i <= Len(more)
        BY LenProperties
    <2>2. PICK j, L : j = L + i /\ L = Len(q)
        OBVIOUS
    <2>3. j \in 1..(L + Len(more)) /\ ~(j <= L) /\ j - L = i
        BY <2>1, <2>2
    <2>4. QED
        BY <1>1, <2>2, <2>3
<1>3. QED
    BY <1>2, ConcatProperties, Zenon


LEMMA RecordsAre ==
    ASSUME NEW b \in Batches, NEW n \in Nat, n <= Len(Records[b])
    PROVE  /\ SubSeq(RecordsOf(b), 1, n) \in Seq(Entry)
           /\ Len(SubSeq(RecordsOf(b), 1, n)) = n
           /\ \A i \in 1..n : SubSeq(RecordsOf(b), 1, n)[i] = <<b, i>>
<1> DEFINE all == RecordsOf(b)
<1>1. Len(Records[b]) \in Nat
    BY SessionAssumption
<1>2. all \in Seq(Entry) /\ Len(all) = Len(Records[b]) /\ \A i \in 1..Len(Records[b]) : all[i] = <<b, i>>
    BY <1>1 DEF RecordsOf, Entry
<1> HIDE DEF all
<1>3. SubSeq(all, 1, n) = [i \in 1..n |-> all[i]]
    <2>1. SubSeq(all, 1, n) = [i \in 1..(n - 1 + 1) |-> all[i + 1 - 1]]
        BY <1>2
    <2>2. n - 1 + 1 = n /\ \A i \in 1..n : i + 1 - 1 = i
        OBVIOUS
    <2>3. QED
        BY <2>1, <2>2
<1>4. \A i \in 1..n : all[i] = <<b, i>> /\ all[i] \in Entry
    BY <1>1, <1>2
<1>5. QED
    BY <1>3, <1>4 DEF all

(* Records of one batch go to the end                                       *)
Extended(c, more) == [c EXCEPT !.records = @ \o more]
Continues(more, b, from, to) ==
    /\ Len(more) = to - from
    /\ \A i \in 1..Len(more) : more[i] = <<b, from + i>>

LEMMA ExtendedHas ==
    ASSUME NEW c, IsContent(c), NEW b \in Batches, NEW from \in Nat, NEW to \in Nat, from <= to,
           NEW more \in Seq(Entry), Continues(more, b, from, to)
    PROVE  /\ IsContent(Extended(c, more))
           /\ Has(c, b, from) => Has(Extended(c, more), b, to)
           /\ \A a \in Batches \ {b} : \A n \in Nat : Has(c, a, n) => Has(Extended(c, more), a, n)
<1> PICK d : d = [c EXCEPT !.records = @ \o more]
    OBVIOUS
<1>0. d = Extended(c, more)
    BY DEF Extended
<1> /\ Len(more) = to - from
      /\ \A i \in 1..Len(more) : more[i] = <<b, from + i>>
    BY DEF Continues
<1> DEFINE q == c.records
           t == q \o more
           L == Len(q)
<1>1. q \in Seq(Entry) /\ L \in Nat /\ Len(more) \in Nat /\ Len(more) = to - from
    BY DEF IsContent, Entry
<1>2. d = [sessions |-> c.sessions, records |-> t]
    BY <1>0 DEF IsContent, Extended
<1>3. /\ t \in Seq(Entry) /\ Len(t) = L + Len(more)
      /\ \A i \in 1..L : t[i] = q[i]
      /\ \A i \in 1..Len(more) : t[L + i] = <<b, from + i>>
    <2>1. t \in Seq(Entry) /\ Len(t) = L + Len(more)
        BY <1>1, Joined, Zenon
    <2>2. \A i \in 1..L : t[i] = q[i]
        BY <1>1
    <2>3. \A i \in 1..Len(more) : t[L + i] = more[i]
        BY <1>1, Joined, Zenon
    <2>4. QED
        BY <2>1, <2>2, <2>3
<1>4. d.records = t
    BY <1>2
<1> HIDE DEF t
<1>5. IsContent(d)
    BY <1>2, <1>3, <1>4 DEF IsContent, Entry
<1>6. \A i \in 1..Len(t) : i \in 1..L \/ (i - L \in 1..Len(more) /\ i = L + (i - L))
    BY <1>1, <1>3, SMTT(40)
<1>7. ASSUME NEW i \in 1..Len(t), i \notin 1..L
      PROVE  t[i] = <<b, from + (i - L)>> /\ i - L \in 1..Len(more)
    <2>1. i - L \in 1..Len(more) /\ i = L + (i - L)
        BY <1>6, <1>7
    <2>2. t[L + (i - L)] = <<b, from + (i - L)>>
        BY <1>3, <2>1
    <2>3. QED
        BY <2>1, <2>2
<1>8. DOMAIN t = 1..Len(t) /\ DOMAIN q = 1..L /\ 1..L \subseteq 1..Len(t)
    BY <1>1, <1>3
<1>9. ASSUME Has(c, b, from) PROVE Has(d, b, to)
    <2>1. /\ {q[i] : i \in {i \in 1..L : q[i][1] = b}} = {<<b, m>> : m \in 1..from}
          /\ \A i, j \in 1..L : i < j /\ q[i][1] = b /\ q[j][1] = b => q[i][2] < q[j][2]
        BY <1>8, <1>9 DEF Has
    <2>2. ASSUME NEW i \in {i \in 1..Len(t) : t[i][1] = b} PROVE t[i] \in {<<b, m>> : m \in 1..to}
        <3>1. CASE i \in 1..L
            <4>1. q[i] \in {<<b, m>> : m \in 1..from} /\ t[i] = q[i]
                BY <1>3, <2>1, <3>1
            <4>2. QED
                BY <4>1
        <3>2. CASE i \notin 1..L
            <4>1. t[i] = <<b, from + (i - L)>> /\ i - L \in 1..Len(more)
                BY <1>7, <3>2
            <4>2. from + (i - L) \in 1..to
                BY <1>1, <4>1, SMTT(40)
            <4>3. QED
                BY <4>1, <4>2
        <3>3. QED
            BY <3>1, <3>2
    <2>3. ASSUME NEW m \in 1..to PROVE <<b, m>> \in {t[i] : i \in {i \in 1..Len(t) : t[i][1] = b}}
        <3>1. CASE m \in 1..from
            <4>1. <<b, m>> \in {q[i] : i \in {i \in 1..L : q[i][1] = b}}
                BY <2>1, <3>1
            <4>2. PICK i \in 1..L : q[i] = <<b, m>>
                BY <4>1
            <4>3. i \in 1..Len(t) /\ t[i] = <<b, m>>
                BY <1>3, <1>8, <4>2
            <4>4. QED
                BY <4>3
        <3>2. CASE m \notin 1..from
            <4>1. m - from \in 1..Len(more) /\ L + (m - from) \in 1..Len(t) /\ from + (m - from) = m
                BY <1>1, <1>3, <3>2, SMTT(40)
            <4>2. t[L + (m - from)] = <<b, m>>
                BY <1>3, <4>1
            <4>3. PICK i \in 1..Len(t) : t[i] = <<b, m>>
                BY <4>1, <4>2
            <4>4. QED
                BY <4>3
        <3>3. QED
            BY <3>1, <3>2
    <2>4. ASSUME NEW i \in 1..Len(t), NEW j \in 1..Len(t), i < j, t[i][1] = b, t[j][1] = b
          PROVE  t[i][2] < t[j][2]
        <3>1. CASE j \in 1..L
            <4>1. i \in 1..L
                BY <2>4, <3>1
            <4>2. QED
                BY <1>3, <2>1, <2>4, <3>1, <4>1
        <3>2. CASE i \in 1..L /\ j \notin 1..L
            <4>1. q[i] \in {<<b, m>> : m \in 1..from} /\ t[i] = q[i]
                BY <1>3, <2>1, <2>4, <3>2
            <4>2. t[i][2] \in 1..from
                BY <4>1
            <4>3. t[j][2] = from + (j - L) /\ j - L \in 1..Len(more)
                BY <1>7, <3>2, SMTT(40)
            <4>4. \A m \in 1..from : m < from + (j - L)
                <5>1. PICK k : k = j - L
                    OBVIOUS
                <5>2. k \in Nat /\ k >= 1
                    BY <1>1, <4>3, <5>1
                <5>3. \A m \in 1..from : m < from + k
                    BY <5>2
                <5>4. QED
                    BY <5>1, <5>3
            <4>5. QED
                BY <4>2, <4>3, <4>4
        <3>3. CASE i \notin 1..L
            <4>1. j \notin 1..L
                BY <2>4, <3>3
            <4>2. t[i][2] = from + (i - L) /\ t[j][2] = from + (j - L)
                BY <1>7, <3>3, <4>1, SMTT(40)
            <4>3. QED
                BY <1>1, <2>4, <4>2
        <3>4. QED
            BY <3>1, <3>2, <3>3
    <2>5. {t[i] : i \in {i \in 1..Len(t) : t[i][1] = b}} = {<<b, m>> : m \in 1..to}
        BY <2>2, <2>3
    <2>6. QED
        BY <1>4, <1>8, <2>4, <2>5 DEF Has
<1>10. ASSUME NEW a \in Batches \ {b}, NEW n \in Nat, Has(c, a, n) PROVE Has(d, a, n)
    <2>1. \A i \in 1..Len(t) : t[i][1] = a => i \in 1..L
        BY <1>7
    <2>2. {i \in 1..Len(t) : t[i][1] = a} = {i \in 1..L : q[i][1] = a}
        BY <1>3, <1>8, <2>1
    <2>3. /\ {q[i] : i \in {i \in 1..L : q[i][1] = a}} = {<<a, m>> : m \in 1..n}
          /\ \A i, j \in 1..L : i < j /\ q[i][1] = a /\ q[j][1] = a => q[i][2] < q[j][2]
        BY <1>8, <1>10 DEF Has
    <2>4. {t[i] : i \in {i \in 1..L : q[i][1] = a}} = {q[i] : i \in {i \in 1..L : q[i][1] = a}}
        BY <1>3, SMTT(40)
    <2>5. \A i, j \in 1..Len(t) : i < j /\ t[i][1] = a /\ t[j][1] = a => t[i][2] < t[j][2]
        BY <1>3, <2>1, <2>3
    <2>6. QED
        <3>1. {t[i] : i \in {i \in 1..Len(t) : t[i][1] = a}} = {<<a, m>> : m \in 1..n}
            BY <2>2, <2>3, <2>4
        <3>2. /\ {t[i] : i \in {i \in DOMAIN t : t[i][1] = a}} = {<<a, m>> : m \in 1..n}
              /\ \A i, j \in {i \in DOMAIN t : t[i][1] = a} : i < j => t[i][2] < t[j][2]
            BY <1>8, <2>5, <3>1
        <3>3. QED
            BY <1>4, <3>2 DEF Has
<1>11. QED
    BY <1>0, <1>5, <1>9, <1>10
LEMMA FewerKept ==
    ASSUME NEW c, NEW T, NEW T2, T \subseteq T2, NEW K, NEW K2, K2 \subseteq K
    PROVE  /\ Sane(c, T) => Sane(c, T2)
           /\ Keeps(c, K) => Keeps(c, K2)
BY DEF Sane, Keeps, WholeOrAbsent

LEMMA NothingSane ==
    ASSUME NEW T
    PROVE  Sane(Nothing, T) /\ Keeps(Nothing, {})
<1>1. IsContent(Nothing)
    BY DEF IsContent, Nothing
<1>2. ASSUME NEW b \in Batches PROVE IsAbsent(Nothing, b)
    BY DEF IsAbsent, Has, Nothing
<1>3. QED
    BY <1>1, <1>2 DEF Sane, Keeps, WholeOrAbsent

LEMMA CreatedHas ==
    ASSUME NEW c, IsContent(c), NEW s
    PROVE  /\ IsContent(Created(c, s))
           /\ \A b \in Batches : \A n : Has(c, b, n) => Has(Created(c, s), b, n)
<1> PICK d : d = Created(c, s)
    OBVIOUS
<1>1. d = [sessions |-> c.sessions \cup {s}, records |-> c.records]
    BY DEF Created, IsContent
<1>2. QED
    BY <1>1 DEF IsContent, Has

LEMMA AppendedHas ==
    ASSUME NEW c, IsContent(c), NEW b \in Batches, IsAbsent(c, b),
           NEW n \in Nat, n <= Len(Records[b])
    PROVE  /\ IsContent(Appended(c, b, n)) /\ Has(Appended(c, b, n), b, n)
           /\ \A a \in Batches \ {b} : \A m \in Nat : Has(c, a, m) => Has(Appended(c, b, n), a, m)
<1>1. PICK more : more = SubSeq(RecordsOf(b), 1, n)
    OBVIOUS
<1>2. more \in Seq(Entry) /\ Len(more) = n /\ \A i \in 1..n : more[i] = <<b, i>>
    BY <1>1, RecordsAre
<1>3. Continues(more, b, 0, n)
    BY <1>2 DEF Continues
<1>4. Extended(c, more) = Appended(c, b, n)
    BY <1>1 DEF Extended, Appended
<1>5. 0 \in Nat /\ 0 <= n /\ Has(c, b, 0)
    BY DEF IsAbsent
<1>6. /\ IsContent(Extended(c, more)) /\ Has(Extended(c, more), b, n)
      /\ \A a \in Batches \ {b} : \A m \in Nat : Has(c, a, m) => Has(Extended(c, more), a, m)
    <2>1. more \in Seq(Entry) /\ 0 \in Nat /\ 0 <= n
        BY <1>2, <1>5
    <2>2. QED
        BY <1>3, <1>5, <2>1, ExtendedHas, SMTT(30)
<1>7. QED
    BY <1>4, <1>6

Inserted(c, b, n) == [c EXCEPT !.records = Append(@, <<b, n + 1>>)]

LEMMA InsertedHas ==
    ASSUME NEW c, IsContent(c), NEW b \in Batches, NEW n \in Nat, Has(c, b, n)
    PROVE  /\ IsContent(Inserted(c, b, n)) /\ Has(Inserted(c, b, n), b, n + 1)
           /\ \A a \in Batches \ {b} : \A m \in Nat : Has(c, a, m) => Has(Inserted(c, b, n), a, m)
<1>1. PICK more : more = << <<b, n + 1>> >>
    OBVIOUS
<1>2. more \in Seq(Entry) /\ Len(more) = 1 /\ more[1] = <<b, n + 1>>
    BY <1>1 DEF Entry
<1>3. Continues(more, b, n, n + 1)
    BY <1>2 DEF Continues
<1>4. c.records \in Seq(Entry) /\ <<b, n + 1>> \in Entry
    BY DEF IsContent, Entry
<1>5. Append(c.records, <<b, n + 1>>) = c.records \o more
    BY <1>1, <1>4, AppendIsConcat, Zenon
<1>6. Inserted(c, b, n) = Extended(c, more)
    BY <1>5 DEF Extended, Inserted
<1>7. n + 1 \in Nat /\ n <= n + 1
    OBVIOUS
<1>8. /\ IsContent(Extended(c, more)) /\ Has(Extended(c, more), b, n + 1)
      /\ \A a \in Batches \ {b} : \A m \in Nat : Has(c, a, m) => Has(Extended(c, more), a, m)
    BY <1>2, <1>3, <1>7, ExtendedHas
<1>9. QED
    BY <1>6, <1>8

LEMMA WholeLength ==
    ASSUME NEW b \in Batches
    PROVE  Len(Records[b]) \in Nat
BY SessionAssumption

LEMMA CreatedSane ==
    ASSUME NEW c, NEW s, NEW T, Sane(c, T)
    PROVE  /\ Sane(Created(c, s), T)
           /\ \A K \in SUBSET Batches : Keeps(c, K) => Keeps(Created(c, s), K)
BY CreatedHas DEF Sane, Keeps, WholeOrAbsent, IsAbsent, IsWhole

LEMMA ClearedKeeps ==
    ASSUME NEW c, NEW s, IsContent(c), NEW K \in SUBSET Batches, Keeps(c, K)
    PROVE  Keeps(Cleared(c, s), {b \in K : ~OfSession(b, s)})
<1>1. ASSUME NEW b \in K, ~OfSession(b, s) PROVE IsWhole(Cleared(c, s), b)
    BY <1>1, ClearedHas, WholeLength DEF Keeps, IsWhole, OfSession
<1>2. QED
    BY <1>1 DEF Keeps

LEMMA ClearedSane ==
    ASSUME NEW c, NEW s, NEW T, Sane(c, T)
    PROVE  Sane(Cleared(c, s), T)
<1>1. IsContent(Cleared(c, s))
    BY ClearedHas DEF Sane
<1>2. ASSUME NEW b \in Batches PROVE WholeOrAbsent(Cleared(c, s), b, T)
    <2>1. IsContent(c) /\ WholeOrAbsent(c, b, T) /\ 0 \in Nat /\ Len(Records[b]) \in Nat
        BY WholeLength DEF Sane
    <2>2. CASE IsAbsent(c, b)
        BY <2>1, <2>2, ClearedHas DEF WholeOrAbsent, IsAbsent
    <2>3. CASE IsWhole(c, b) /\ b \in T
        BY <2>1, <2>3, ClearedHas DEF WholeOrAbsent, IsAbsent, IsWhole
    <2>4. QED
        BY <2>1, <2>2, <2>3 DEF WholeOrAbsent
<1>3. QED
    BY <1>1, <1>2 DEF Sane

LEMMA AppendedSane ==
    ASSUME NEW c, NEW T, Sane(c, T), NEW b \in Batches, b \notin T
    PROVE  LET d == Appended(c, b, Len(Records[b])) IN
           /\ Sane(d, T \cup {b}) /\ IsWhole(d, b)
           /\ \A K \in SUBSET Batches : Keeps(c, K) => Keeps(d, K)
<1> PICK d : d = Appended(c, b, Len(Records[b]))
    OBVIOUS
<1>1. IsContent(c) /\ IsAbsent(c, b) /\ Len(Records[b]) \in Nat /\ Len(Records[b]) <= Len(Records[b])
    BY WholeLength DEF Sane, WholeOrAbsent
<1>2. /\ IsContent(d) /\ Has(d, b, Len(Records[b]))
      /\ \A a \in Batches \ {b} : \A m \in Nat : Has(c, a, m) => Has(d, a, m)
    BY <1>1, AppendedHas
<1>3. IsWhole(d, b)
    BY <1>2 DEF IsWhole
<1>4. \A a \in Batches \ {b} : (IsWhole(c, a) => IsWhole(d, a)) /\ (IsAbsent(c, a) => IsAbsent(d, a))
    BY <1>2, WholeLength DEF IsWhole, IsAbsent
<1>5. \A a \in Batches : WholeOrAbsent(d, a, T \cup {b})
    BY <1>3, <1>4 DEF Sane, WholeOrAbsent
<1>6. QED
    BY <1>2, <1>3, <1>4, <1>5 DEF Sane, Keeps
-----------------------------------------------------------------------------
(* The replacement of the file of the JSON store *)

SaveRest == <<platform, kind, tried, kept, job>>

LEMMA SaveMoves ==
    ASSUME SessionSave, NEW from \in {"open", "write", "sync", "replace", "unlink", "rename", "sync_dir"},
           NEW to, to # "idle", Step(from, to), UNCHANGED SaveRest
    PROVE  /\ save.at = from /\ save # NoSave /\ job # NoJob /\ save'.at = to /\ save'.data = save.data
           /\ save' # NoSave /\ Writing(save, job) /\ Writing(save, job)'
<1>1. save.at = from /\ save # NoSave /\ job # NoJob /\ Writing(save, job)
    BY DEF SessionSave, Step, NoSave
<1>2. save' = [save EXCEPT !.at = to]
    BY DEF Step
<1> PICK from1, data : from1 = save.at /\ data = save.data
    OBVIOUS
<1>3. save = [at |-> from1, data |-> data]
    BY <1>1 DEF Writing
<1>4. save' = [at |-> to, data |-> data]
    BY <1>2, <1>3
<1>5. save'.at = to /\ save'.data = save.data /\ save' = [at |-> save'.at, data |-> save'.data] /\ save' # NoSave
    BY <1>4 DEF NoSave
<1>6. Writing(save, job)'
    BY <1>1, <1>5 DEF Writing, SaveRest
<1>7. QED
    BY <1>1, <1>5, <1>6

FileKept(d) == Legible(d, tried) /\ Durable(d, kept, platform)

LEMMA TemporaryKept ==
    ASSUME NEW d, FileKept(d), NEW f, NEW e, e = [d EXCEPT !.tmp = f]
    PROVE  FileKept(e) /\ e.main = d.main /\ e.tmp = f
<1> PICK main : main = d.main
    OBVIOUS
<1>1. e = [main |-> main, tmp |-> f]
    BY DEF FileKept, Legible
<1>2. QED
    BY <1>1 DEF FileKept, Legible, Durable

LEMMA MainKept ==
    ASSUME Writing(save, job), NEW e, e = Moved, disk.tmp = WholeFile(save.data)
    PROVE  FileKept(e) /\ e.main = WholeFile(save.data)
<1>1. e = [main |-> WholeFile(save.data), tmp |-> NoFile]
    BY DEF Moved
<1>2. QED
    BY <1>1 DEF FileKept, Legible, Durable, Writing, WholeFile, HasText

LEMMA SaveKeepsSessions ==
    ASSUME SessionFile, SessionSave, SaveNext, UNCHANGED <<tried, kept, job>>
    PROVE  (SessionFile /\ SessionSave)'
<1>0. /\ UNCHANGED SaveRest
      /\ \A d \in older \cup {disk} : FileKept(d)
      /\ platform # "posix" => older = {}
      /\ job = NoJob <=> save = NoSave
    BY DEF SaveRest, SaveNext, OpenTemporary, WriteTemporary, SyncTemporary, AtomicReplace, UnlinkMain,
           RenameTemporary, SyncDirectory, SaveFails, SessionFile, SessionSave, FileKept
<1>1. ASSUME FileKept(disk'), \A d \in older' : FileKept(d), platform # "posix" => older' = {}
      PROVE  SessionFile'
    BY <1>0, <1>1 DEF SessionFile, FileKept, SaveRest
<1>2. ASSUME NEW from \in {"open", "write", "sync", "replace", "unlink", "rename", "sync_dir"}, SaveFails(from)
      PROVE  (SessionFile /\ SessionSave)'
    <2>1. UNCHANGED <<platform, disk, older>> /\ save'.at = "failed" /\ save' # NoSave /\ job # NoJob
          /\ Writing(save, job)'
        BY <1>0, <1>2, SaveMoves DEF SaveFails
    <2>2. QED
        BY <1>0, <1>1, <2>1 DEF SessionSave, SaveRest
<1>3. CASE OpenTemporary
    <2>1. CASE /\ Step("open", "write") /\ disk' = [disk EXCEPT !.tmp = TornFile]
               /\ UNCHANGED <<platform, older, faults>>
        <3>1. save'.at = "write" /\ save' # NoSave /\ job # NoJob /\ Writing(save, job)'
            BY <1>0, <2>1, SaveMoves
        <3>2. FileKept(disk')
            BY <1>0, <2>1, TemporaryKept
        <3>3. QED
            BY <1>0, <1>1, <2>1, <3>1, <3>2 DEF SessionSave, SaveRest
    <2>2. QED
        BY <1>2, <1>3, <2>1 DEF OpenTemporary
<1>4. CASE WriteTemporary
    <2>1. CASE /\ Step("write", "sync")
               /\ disk' = [disk EXCEPT !.tmp = IF platform = "freertos" THEN WholeFile(save.data)
                                               ELSE CachedFile(save.data)]
               /\ UNCHANGED <<platform, older, faults>>
        <3>1. save'.at = "sync" /\ save'.data = save.data /\ save' # NoSave /\ job # NoJob /\ Writing(save, job)'
            BY <1>0, <2>1, SaveMoves
        <3>2. PICK f : f = IF platform = "freertos" THEN WholeFile(save.data) ELSE CachedFile(save.data)
            OBVIOUS
        <3>3. HasText(f) /\ f.data = save.data
            BY <3>2 DEF WholeFile, CachedFile, HasText
        <3>4. FileKept(disk') /\ disk'.tmp = f
            BY <1>0, <2>1, <3>2, TemporaryKept
        <3>5. HasText(disk.tmp)' /\ (disk.tmp.data = save.data)'
            BY <3>1, <3>3, <3>4 DEF HasText
        <3>6. QED
            BY <1>0, <1>1, <2>1, <3>1, <3>4, <3>5 DEF SessionSave, SaveRest
    <2>2. QED
        BY <1>2, <1>4, <2>1 DEF WriteTemporary
<1>5. CASE SyncTemporary
    <2>1. CASE /\ Step("sync", IF platform = "freertos" THEN "unlink" ELSE "replace")
               /\ disk' = [disk EXCEPT !.tmp = WholeFile(save.data)]
               /\ UNCHANGED <<platform, older, faults>>
        <3>1. save'.at = (IF platform = "freertos" THEN "unlink" ELSE "replace") /\ save'.data = save.data
              /\ save' # NoSave /\ job # NoJob /\ Writing(save, job)'
            BY <1>0, <2>1, SaveMoves
        <3> PICK f : f = WholeFile(save.data)
            OBVIOUS
        <3>2. FileKept(disk') /\ disk'.tmp = f
            BY <1>0, <2>1, TemporaryKept, SMTT(40)
        <3>3. (disk.tmp = WholeFile(save.data))'
            BY <3>1, <3>2 DEF WholeFile
        <3>4. QED
            BY <1>0, <1>1, <2>1, <3>1, <3>2, <3>3 DEF SessionSave, SaveRest
    <2>2. QED
        BY <1>2, <1>5, <2>1 DEF SyncTemporary
<1>6. CASE AtomicReplace
    <2>1. CASE /\ Step("replace", IF platform = "posix" THEN "sync_dir" ELSE "saved")
               /\ disk' = Moved
               /\ older' = (IF platform = "posix" THEN older \cup {disk} ELSE {})
               /\ UNCHANGED <<platform, faults>>
        <3>1. save.at = "replace" /\ save'.at = (IF platform = "posix" THEN "sync_dir" ELSE "saved")
              /\ save'.data = save.data /\ save' # NoSave /\ job # NoJob /\ Writing(save, job) /\ Writing(save, job)'
            BY <1>0, <2>1, SaveMoves
        <3>2. disk.tmp = WholeFile(save.data)
            BY <3>1 DEF SessionSave
        <3>3. FileKept(disk') /\ disk'.main = WholeFile(save.data)
            BY <2>1, <3>1, <3>2, MainKept
        <3>4. (disk.main = WholeFile(save.data))'
            BY <3>1, <3>3 DEF WholeFile
        <3>5. \A d \in older' : FileKept(d)
            BY <1>0, <2>1
        <3>6. QED
            BY <1>0, <1>1, <2>1, <3>1, <3>3, <3>4, <3>5 DEF SessionSave, SaveRest
    <2>2. QED
        BY <1>2, <1>6, <2>1 DEF AtomicReplace
<1>7. CASE UnlinkMain
    <2>1. /\ Step("unlink", "rename") /\ UNCHANGED <<platform, older>>
          /\ disk' = disk \/ disk' = [disk EXCEPT !.main = NoFile]
        BY <1>7 DEF UnlinkMain
    <2>2. save.at = "unlink" /\ save'.at = "rename" /\ save'.data = save.data /\ save' # NoSave
          /\ job # NoJob /\ Writing(save, job)'
        BY <1>0, <2>1, SaveMoves
    <2>3. platform = "freertos" /\ disk.tmp = WholeFile(save.data)
        BY <2>2 DEF SessionSave
    <2>4. FileKept(disk') /\ disk'.tmp = disk.tmp
        <3>1. CASE disk' = disk
            BY <1>0, <3>1
        <3>2. CASE disk' = [disk EXCEPT !.main = NoFile]
            <4>1. PICK d, tmp : d = disk' /\ tmp = disk.tmp
                OBVIOUS
            <4>2. d = [main |-> NoFile, tmp |-> tmp]
                BY <1>0, <3>2, <4>1 DEF FileKept, Legible
            <4>3. FileKept(d) /\ d.tmp = tmp
                BY <2>3, <4>2 DEF FileKept, Legible, Durable, HasText, NoFile
            <4>4. QED
                BY <4>1, <4>3
        <3>3. QED
            BY <2>1, <3>1, <3>2
    <2>5. (disk.tmp = WholeFile(save.data))'
        BY <2>2, <2>3, <2>4 DEF WholeFile
    <2>6. QED
        BY <1>0, <1>1, <2>1, <2>2, <2>3, <2>4, <2>5 DEF SessionSave, SaveRest
<1>8. CASE RenameTemporary
    <2>1. CASE /\ disk.main = NoFile /\ Step("rename", "saved") /\ disk' = Moved
               /\ UNCHANGED <<platform, older, faults>>
        <3>1. save.at = "rename" /\ save'.at = "saved" /\ save'.data = save.data /\ save' # NoSave
              /\ job # NoJob /\ Writing(save, job) /\ Writing(save, job)'
            BY <1>0, <2>1, SaveMoves
        <3>2. platform = "freertos" /\ disk.tmp = WholeFile(save.data)
            BY <3>1 DEF SessionSave
        <3>3. FileKept(disk') /\ disk'.main = WholeFile(save.data)
            BY <2>1, <3>1, <3>2, MainKept
        <3>4. (disk.main = WholeFile(save.data))' /\ older = {}
            BY <1>0, <3>1, <3>2, <3>3 DEF WholeFile
        <3>5. QED
            BY <1>0, <1>1, <2>1, <3>1, <3>3, <3>4 DEF SessionSave, SaveRest
    <2>2. CASE Step("rename", "failed") /\ UNCHANGED <<platform, disk, older, faults>>
        <3>1. save'.at = "failed" /\ save' # NoSave /\ job # NoJob /\ Writing(save, job)'
            BY <1>0, <2>2, SaveMoves
        <3>2. QED
            BY <1>0, <1>1, <2>2, <3>1 DEF SessionSave, SaveRest
    <2>3. QED
        BY <1>2, <1>8, <2>1, <2>2 DEF RenameTemporary
<1>9. CASE SyncDirectory
    <2>1. CASE Step("sync_dir", "saved") /\ older' = {} /\ UNCHANGED <<platform, disk, faults>>
        <3>1. save.at = "sync_dir" /\ save'.at = "saved" /\ save'.data = save.data /\ save' # NoSave
              /\ job # NoJob /\ Writing(save, job)'
            BY <1>0, <2>1, SaveMoves
        <3>2. (disk.main = WholeFile(save.data))'
            BY <2>1, <3>1 DEF SessionSave, WholeFile
        <3>3. QED
            BY <1>0, <1>1, <2>1, <3>1, <3>2 DEF SessionSave, SaveRest
    <2>2. QED
        BY <1>2, <1>9, <2>1 DEF SyncDirectory
<1>10. QED
    BY <1>3, <1>4, <1>5, <1>6, <1>7, <1>8, <1>9 DEF SaveNext
-----------------------------------------------------------------------------
(* The operations of the JSON store *)

LEMMA KeptAfter ==
    ASSUME SessionFile, kept' \subseteq kept, tried \subseteq tried', platform' = platform,
           older' = older, disk' = disk
    PROVE  SessionFile'
<1>1. ASSUME NEW d, Legible(d, tried), Durable(d, kept, platform)
      PROVE  Legible(d, tried') /\ Durable(d, kept', platform')
    BY <1>1, FewerKept DEF Legible, Durable
<1>2. QED
    BY <1>1 DEF SessionFile

LEMMA WritingAfter ==
    ASSUME NEW f, NEW j, Writing(f, j), kept' \subseteq kept, tried \subseteq tried', platform' = platform
    PROVE  Writing(f, j)'
BY FewerKept DEF Writing

(* What a call that reads the file is given *)
LEMMA LoadedKeeps ==
    ASSUME SessionFile, Readable(disk.main)
    PROVE  Sane(Loaded, tried) /\ (platform # "freertos" => Keeps(Loaded, kept))
<1>1. Legible(disk, tried) /\ Durable(disk, kept, platform) /\ HasText(disk.main)
    BY DEF SessionFile, Readable
<1>2. kept = {} => Keeps(Loaded, kept)
    BY DEF Keeps
<1>3. QED
    BY <1>1, <1>2 DEF Legible, Durable, Loaded

LEMMA LoadThenSaveKeeps ==
    ASSUME SessionFile, SessionSave, NEW o, o # NoJob, NEW c, LoadThenSave(o, c),
           kept' \subseteq kept, tried \subseteq tried',
           Readable(disk.main) => /\ Sane(c, tried')
                                  /\ platform # "freertos" => Keeps(c, kept')
                                  /\ o.op = "append" => o.b \in tried' /\ IsWhole(c, o.b)
    PROVE  (SessionFile /\ SessionSave)'
<1>1. UNCHANGED <<platform, disk, older>> /\ job = NoJob /\ save = NoSave
    BY DEF LoadThenSave, SessionSave
<1>2. SessionFile'
    BY <1>1, KeptAfter
<1>3. CASE UNCHANGED <<save, job>>
    BY <1>1, <1>2, <1>3 DEF SessionSave, NoSave
<1>4. CASE Readable(disk.main) /\ job' = o /\ StartSave(c)
    <2>1. save' = [at |-> "open", data |-> c]
        BY <1>4 DEF StartSave
    <2>2. save'.at = "open" /\ save'.data = c /\ save' # NoSave /\ save' = [at |-> save'.at, data |-> save'.data]
        BY <2>1 DEF NoSave
    <2>3. Writing(save, job)'
        BY <1>1, <1>4, <2>2 DEF Writing
    <2>4. QED
        BY <1>2, <1>4, <2>2, <2>3 DEF SessionSave
<1>5. QED
    BY <1>3, <1>4 DEF LoadThenSave

LEMMA JsonChanges ==
    ASSUME SInv, kind = "json",
           \/ \E s \in Sessions : JsonCreateSession(s) \/ JsonClearSession(s)
           \/ \E b \in Batches : JsonAppendRecords(b)
    PROVE  SInv'
<1>0. SessionFile /\ SessionSave /\ kept \subseteq Batches /\ kept \subseteq tried /\ tried \subseteq Batches
    BY DEF SInv
<1>1. ASSUME (SessionFile /\ SessionSave)', kept' \subseteq tried', tried' \subseteq Batches, kind' = kind
      PROVE  SInv'
    BY <1>1 DEF SInv
<1>2. ASSUME NEW s \in Sessions, JsonCreateSession(s) PROVE SInv'
    <2>1. UNCHANGED <<tried, kept, kind>> /\ LoadThenSave([op |-> "create"], Created(Loaded, s))
        BY <1>2 DEF JsonCreateSession, LoadThenSave
    <2>2. PICK c, o : c = Created(Loaded, s) /\ o = [op |-> "create"]
        OBVIOUS
    <2>3. Readable(disk.main) => Sane(c, tried) /\ (platform # "freertos" => Keeps(c, kept))
        BY <1>0, <2>2, LoadedKeeps, CreatedSane
    <2>4. o # NoJob /\ o.op # "append"
        BY <2>2 DEF NoJob
    <2>5. (SessionFile /\ SessionSave)'
        BY <1>0, <2>1, <2>2, <2>3, <2>4, LoadThenSaveKeeps
    <2>6. QED
        BY <1>0, <1>1, <2>1, <2>5
<1>3. ASSUME NEW s \in Sessions, JsonClearSession(s) PROVE SInv'
    <2>1. UNCHANGED <<tried, kind>> /\ LoadThenSave([op |-> "clear"], Cleared(Loaded, s)) /\ Forget(s)
        BY <1>3 DEF JsonClearSession, LoadThenSave
    <2>2. PICK c, o : c = Cleared(Loaded, s) /\ o = [op |-> "clear"]
        OBVIOUS
    <2>3. kept' = {b \in kept : ~OfSession(b, s)}
        BY <2>1 DEF Forget
    <2>4. Readable(disk.main) => Sane(c, tried) /\ (platform # "freertos" => Keeps(c, kept'))
        <3>1. SUFFICES ASSUME Readable(disk.main) PROVE Sane(c, tried) /\ (platform # "freertos" => Keeps(c, kept'))
            OBVIOUS
        <3>2. Sane(Loaded, tried) /\ IsContent(Loaded) /\ (platform # "freertos" => Keeps(Loaded, kept))
            BY <1>0, <3>1, LoadedKeeps DEF Sane
        <3>3. QED
            BY <1>0, <2>2, <2>3, <3>2, ClearedSane, ClearedKeeps
    <2>5. o # NoJob /\ o.op # "append"
        BY <2>2 DEF NoJob
    <2>6. (SessionFile /\ SessionSave)'
        BY <1>0, <2>1, <2>2, <2>3, <2>4, <2>5, LoadThenSaveKeeps
    <2>7. QED
        BY <1>0, <1>1, <2>1, <2>3, <2>6
<1>4. ASSUME NEW b \in Batches, JsonAppendRecords(b) PROVE SInv'
    <2>1. b \notin tried /\ tried' = tried \cup {b} /\ kept' = kept
        BY <1>4 DEF JsonAppendRecords
    <2>2. CASE LoadThenSave([op |-> "append", b |-> b], Appended(Loaded, b, Len(Records[b])))
        <3>1. PICK c, o : c = Appended(Loaded, b, Len(Records[b])) /\ o = [op |-> "append", b |-> b]
            OBVIOUS
        <3>2. Readable(disk.main) =>
                  Sane(c, tried') /\ (platform # "freertos" => Keeps(c, kept')) /\ IsWhole(c, b)
            <4>1. SUFFICES ASSUME Readable(disk.main)
                           PROVE  Sane(c, tried') /\ (platform # "freertos" => Keeps(c, kept')) /\ IsWhole(c, b)
                OBVIOUS
            <4>2. Sane(Loaded, tried) /\ (platform # "freertos" => Keeps(Loaded, kept))
                BY <1>0, <4>1, LoadedKeeps
            <4>3. /\ Sane(c, tried \cup {b}) /\ IsWhole(c, b)
                  /\ \A K \in SUBSET Batches : Keeps(Loaded, K) => Keeps(c, K)
                BY <2>1, <3>1, <4>2, AppendedSane
            <4>4. QED
                BY <1>0, <2>1, <4>2, <4>3
        <3>3. o # NoJob /\ o.b = b /\ b \in tried'
            BY <2>1, <3>1 DEF NoJob
        <3>4. (SessionFile /\ SessionSave)'
            BY <1>0, <2>1, <2>2, <3>1, <3>2, <3>3, LoadThenSaveKeeps
        <3>5. kind' = kind
            BY <2>2 DEF LoadThenSave
        <3>6. QED
            BY <1>0, <1>1, <2>1, <3>4, <3>5
    <2>3. CASE UNCHANGED <<platform, disk, older, save, kind, up, job, db, txn, batch>>
        <3>1. SessionFile'
            BY <1>0, <2>1, <2>3, KeptAfter
        <3>2. save # NoSave => Writing(save, job)'
            BY <1>0, <2>1, <2>3, WritingAfter DEF SessionSave
        <3>3. SessionSave'
            BY <1>0, <2>3, <3>2 DEF SessionSave, Writing
        <3>4. QED
            BY <1>0, <1>1, <2>1, <2>3, <3>1, <3>3
    <2>4. QED
        BY <1>4, <2>2, <2>3 DEF JsonAppendRecords
<1>5. QED
    BY <1>2, <1>3, <1>4

LEMMA JsonReads ==
    ASSUME SInv, kind = "json", JsonLoadMessages \/ JsonReturns \/ OpenJson
    PROVE  SInv'
<1>0. SessionFile /\ SessionSave /\ kept \subseteq tried /\ tried \subseteq Batches
    BY DEF SInv
<1>1. CASE JsonLoadMessages
    BY <1>0, <1>1 DEF JsonLoadMessages, SInv, SessionFile, SessionSave, Writing
<1>2. CASE JsonReturns
    <2>1. /\ save.at \in {"saved", "failed"} /\ save' = NoSave /\ job' = NoJob
          /\ UNCHANGED <<platform, disk, older, kind, tried>> /\ job # NoJob /\ save # NoSave
          /\ Writing(save, job)
        BY <1>0, <1>2 DEF JsonReturns, SessionSave
    <2>2. SessionSave'
        BY <2>1 DEF SessionSave, NoSave
    <2>3. CASE job.op = "append" /\ save.at = "saved"
        <3>1. kept' = kept \cup {job.b} /\ job.b \in tried /\ IsWhole(save.data, job.b)
            BY <1>2, <2>1, <2>3 DEF JsonReturns, Keep, Writing
        <3>2. disk.main = WholeFile(save.data) /\ older = {}
            BY <1>0, <2>3 DEF SessionSave
        <3>3. platform # "freertos" => Keeps(save.data, kept')
            BY <2>1, <3>1 DEF Writing, Keeps
        <3>4. Durable(disk, kept', platform)
            BY <3>2, <3>3 DEF Durable, WholeFile
        <3>5. SessionFile'
            BY <1>0, <2>1, <3>2, <3>4 DEF SessionFile
        <3>6. QED
            BY <1>0, <2>1, <2>2, <3>1, <3>5 DEF SInv
    <2>4. CASE kept' = kept
        BY <1>0, <2>1, <2>2, <2>4 DEF SInv, SessionFile
    <2>5. QED
        BY <1>2, <2>3, <2>4 DEF JsonReturns
<1>3. CASE OpenJson
    <2>1. UNCHANGED <<platform, older, save, kind, job, tried, kept>>
        BY <1>3 DEF OpenJson
    <2>2. CASE disk' = disk
        BY <1>0, <2>1, <2>2 DEF SInv, SessionFile, SessionSave, Writing
    <2>3. CASE disk.main = NoFile /\ \E f \in {CachedFile(Nothing), TornFile} : disk' = [disk EXCEPT !.main = f]
        <3>1. PICK f \in {CachedFile(Nothing), TornFile} : disk' = [disk EXCEPT !.main = f]
            BY <2>3
        <3>2. disk = [main |-> disk.main, tmp |-> disk.tmp] /\ (platform # "freertos" => kept = {})
            BY <1>0, <2>3 DEF SessionFile, Legible, Durable, NoFile
        <3>3. PICK d, tmp : d = disk' /\ tmp = disk.tmp
            OBVIOUS
        <3>4. d = [main |-> f, tmp |-> tmp]
            BY <3>1, <3>2, <3>3
        <3>5. HasText(f) => Sane(f.data, tried)
            BY NothingSane DEF HasText, CachedFile, TornFile
        <3>6. Legible(d, tried) /\ Durable(d, kept, platform) /\ d.tmp = tmp
            BY <3>2, <3>4, <3>5 DEF Legible, Durable
        <3>7. SessionFile'
            BY <1>0, <2>1, <3>3, <3>6 DEF SessionFile
        <3>8. ~(save.at \in {"sync_dir", "saved"})
            BY <1>0, <2>3 DEF SessionSave, NoFile, WholeFile
        <3>9. disk'.tmp = disk.tmp
            BY <3>3, <3>6
        <3>10. save # NoSave => Writing(save, job)'
            BY <1>0, <2>1 DEF SessionSave, Writing
        <3>11. SessionSave'
            BY <1>0, <2>1, <3>8, <3>9, <3>10 DEF SessionSave, HasText, Writing
        <3>12. QED
            BY <1>0, <2>1, <3>7, <3>11 DEF SInv
    <2>4. QED
        BY <1>3, <2>2, <2>3 DEF OpenJson
<1>4. QED
    BY <1>1, <1>2, <1>3
-----------------------------------------------------------------------------
(* The SQLite store *)

LEMMA Whole ==
    ASSUME NEW c, NEW T, IsContent(c), \A b \in Batches : WholeOrAbsent(c, b, T)
    PROVE  Sane(c, T)
BY DEF Sane

LEMMA CreatedWholeOrAbsent ==
    ASSUME NEW c, IsContent(c), NEW s, NEW b \in Batches, NEW T
    PROVE  /\ WholeOrAbsent(c, b, T) => WholeOrAbsent(Created(c, s), b, T)
           /\ IsAbsent(c, b) => IsAbsent(Created(c, s), b)
           /\ IsWhole(c, b) => IsWhole(Created(c, s), b)
BY CreatedHas DEF WholeOrAbsent, IsAbsent, IsWhole

LEMMA ClearedWholeOrAbsent ==
    ASSUME NEW c, IsContent(c), NEW s, NEW b \in Batches, NEW T
    PROVE  /\ WholeOrAbsent(c, b, T) => WholeOrAbsent(Cleared(c, s), b, T)
           /\ IsAbsent(c, b) => IsAbsent(Cleared(c, s), b)
<1>1. 0 \in Nat /\ Len(Records[b]) \in Nat
    BY WholeLength
<1>2. IsAbsent(c, b) => IsAbsent(Cleared(c, s), b)
    BY <1>1, ClearedHas DEF IsAbsent
<1>3. IsWhole(c, b) => IsWhole(Cleared(c, s), b) \/ IsAbsent(Cleared(c, s), b)
    BY <1>1, ClearedHas DEF IsAbsent, IsWhole
<1>4. QED
    BY <1>2, <1>3 DEF WholeOrAbsent

LEMMA SqliteCreates ==
    ASSUME Database, kept \subseteq tried, tried \subseteq Batches, NEW s, SqliteCreateSession(s)
    PROVE  Database'
<1>1. /\ UNCHANGED <<txn, batch, tried, kept>>
      /\ work' = Created(work, s) /\ db' = IF txn THEN db ELSE work'
    BY DEF SqliteCreateSession, Autocommit
<1>2. IsContent(work) /\ Sane(db, tried) /\ (~txn => work = db)
    BY DEF Database
<1>3. IsContent(work')
    BY <1>1, <1>2, CreatedHas
<1>4. /\ \A b \in Batches : WholeOrAbsent(work, b, tried) => WholeOrAbsent(work', b, tried)
      /\ \A b \in Batches : IsAbsent(work, b) => IsAbsent(work', b)
      /\ Keeps(work', kept)
    BY <1>1, <1>2, CreatedWholeOrAbsent DEF Database, Keeps
<1>5. \A b \in Batches : \A n : Has(work, b, n) => Has(work', b, n)
    BY <1>1, <1>2, CreatedHas
<1>6. Sane(db', tried) /\ Keeps(db', kept)
    BY <1>1, <1>2, <1>3, <1>4 DEF Database, Sane
<1>7. CASE batch = NoBatch
    BY <1>1, <1>2, <1>3, <1>4, <1>6, <1>7 DEF Database, Sane
<1>8. CASE batch # NoBatch
    <2>1. UnderWay
        BY <1>8 DEF Database
    <2>2. batch.b \in Batches
        BY <2>1 DEF UnderWay
    <2>3. IsAbsent(db', batch.b)
        BY <1>1, <1>2, <1>4, <2>1, <2>2 DEF UnderWay
    <2>4. \A b \in Batches \ {batch.b} : WholeOrAbsent(work', b, tried)
        BY <1>4, <2>1 DEF UnderWay
    <2>5. Has(work, batch.b, batch.n) => Has(work', batch.b, batch.n)
        BY <1>5, <2>2
    <2>6. UnderWay'
        BY <1>1, <2>1, <2>3, <2>4, <2>5 DEF UnderWay
    <2>7. QED
        BY <1>1, <1>3, <1>4, <1>6, <1>8, <2>6 DEF Database
<1>9. QED
    BY <1>7, <1>8

LEMMA SqliteClears ==
    ASSUME Database, kept \subseteq tried, tried \subseteq Batches, NEW s, SqliteClear(s)
    PROVE  Database' /\ kept' \subseteq kept
<1>1. UNCHANGED <<batch, tried>>
    BY DEF SqliteClear
<1>2. IsContent(work) /\ Sane(db, tried) /\ (~txn => work = db)
    BY DEF Database
<1>3. CASE UNCHANGED <<db, work, txn, kept>>
    BY <1>1, <1>3 DEF Database, UnderWay
<1>4. CASE ~txn /\ work' = Cleared(work, s) /\ Forget(s) /\ ((db' = work' /\ txn' = txn) \/ (db' = db /\ txn' = TRUE))
    <2>1. kept' = {b \in kept : ~OfSession(b, s)}
        BY <1>4 DEF Forget
    <2>2. IsContent(work') /\ Sane(work, tried)
        <3>1. work = db
            BY <1>2, <1>4
        <3>2. IsContent(work')
            BY <1>2, <1>4, ClearedHas
        <3>3. QED
            BY <1>2, <3>1, <3>2
    <2>3. Sane(work', tried)
        BY <1>4, <2>2, ClearedSane
    <2>4. Keeps(work', kept') /\ Keeps(db, kept')
        <3>1. Keeps(work', kept')
            BY <1>2, <1>4, <2>1, ClearedKeeps DEF Database
        <3>2. QED
            BY <2>1, <3>1 DEF Database, Keeps
    <2>5. Sane(db', tried) /\ Keeps(db', kept')
        BY <1>2, <1>4, <2>3, <2>4 DEF Database
    <2>6. CASE batch = NoBatch
        BY <1>1, <1>4, <2>1, <2>2, <2>3, <2>4, <2>5, <2>6 DEF Database
    <2>7. CASE batch # NoBatch
        <3>1. UnderWay /\ batch.b \in Batches
            BY <2>7 DEF Database, UnderWay
        <3>2. IsAbsent(work', batch.b) /\ IsAbsent(db', batch.b)
            BY <1>2, <1>4, <3>1, ClearedWholeOrAbsent DEF UnderWay
        <3>3. ~batch.ok
            BY <1>4, <3>1 DEF UnderWay
        <3>4. \A b \in Batches \ {batch.b} : WholeOrAbsent(work', b, tried)
            BY <2>3 DEF Sane
        <3>5. UnderWay'
            BY <1>1, <2>1, <3>1, <3>2, <3>3, <3>4 DEF UnderWay
        <3>6. QED
            BY <1>1, <1>4, <2>1, <2>2, <2>4, <2>5, <2>7, <3>5 DEF Database
    <2>8. QED
        BY <2>1, <2>6, <2>7
<1>5. QED
    BY <1>3, <1>4 DEF SqliteClear

LEMMA SqliteBegins ==
    ASSUME Database, kept \subseteq tried, tried \subseteq Batches, NEW b \in Batches, SqliteBegin(b)
    PROVE  Database' /\ tried' = tried \cup {b}
<1>1. /\ b \notin tried /\ tried' = tried \cup {b} /\ batch = NoBatch
      /\ UNCHANGED <<db, work, kept>>
    BY DEF SqliteBegin
<1>2. Sane(db, tried') /\ Sane(work, tried') /\ Sane(work, tried) /\ Sane(db, tried) /\ IsContent(work)
    BY <1>1, FewerKept DEF Database
<1>3. CASE UNCHANGED <<txn, batch>>
    BY <1>1, <1>2, <1>3 DEF Database
<1>4. CASE ~txn /\ txn' = TRUE /\ batch' = [b |-> b, n |-> 0, ok |-> TRUE]
    <2>1. batch'.b = b /\ batch'.n = 0 /\ batch'.ok /\ batch' = [b |-> batch'.b, n |-> batch'.n, ok |-> batch'.ok]
        BY <1>4
    <2>2. IsAbsent(db, b) /\ IsAbsent(work, b)
        BY <1>1, <1>2 DEF Sane, WholeOrAbsent
    <2>3. 0 \in Nat /\ 0 <= Len(Records[b]) /\ Has(work, b, 0)
        BY <2>2, WholeLength DEF IsAbsent
    <2>4. \A a \in Batches : WholeOrAbsent(work, a, tried')
        BY <1>2 DEF Sane
    <2>5. b \in tried' \ kept
        BY <1>1
    <2>6. UnderWay'
        BY <1>1, <1>4, <2>1, <2>2, <2>3, <2>4, <2>5 DEF UnderWay
    <2>7. batch' # NoBatch
        BY <1>4 DEF NoBatch
    <2>8. QED
        BY <1>1, <1>2, <1>4, <2>6, <2>7 DEF Database
<1>5. QED
    BY <1>1, <1>3, <1>4 DEF SqliteBegin

LEMMA SqliteInserts ==
    ASSUME Database, kept \subseteq tried, tried \subseteq Batches, SqliteInsert
    PROVE  Database'
<1>1. /\ UnderWay /\ batch # NoBatch /\ batch.ok /\ batch.n < Len(Records[batch.b])
      /\ UNCHANGED <<tried, kept, db>> /\ batch.b \in Batches
      /\ Sane(db, tried) /\ Keeps(db, kept) /\ IsContent(work) /\ Keeps(work, kept) /\ txn
    <2>1. UnderWay /\ txn
        BY DEF SqliteInsert, Database, UnderWay
    <2>2. QED
        BY <2>1 DEF SqliteInsert, Database, Autocommit, UnderWay
<1> PICK b, n, ok : b = batch.b /\ n = batch.n /\ ok = batch.ok
    OBVIOUS
<1>2. batch = [b |-> b, n |-> n, ok |-> ok] /\ n \in Nat /\ b \in Batches
    BY <1>1 DEF UnderWay
<1>3. CASE /\ work' = [work EXCEPT !.records = Append(@, <<batch.b, batch.n + 1>>)]
           /\ batch' = [batch EXCEPT !.n = @ + 1] /\ txn' = txn
    <2>1. batch' = [b |-> b, n |-> n + 1, ok |-> ok]
        BY <1>2, <1>3
    <2>2. batch' # NoBatch /\ batch'.b = b /\ batch'.n = n + 1 /\ batch'.ok = ok
          /\ batch' = [b |-> batch'.b, n |-> batch'.n, ok |-> batch'.ok]
        BY <2>1 DEF NoBatch
    <2>3. PICK d : d = work'
        OBVIOUS
    <2>4. d = Inserted(work, b, n) /\ Has(work, b, n)
        BY <1>1, <1>3, <2>3 DEF UnderWay, Inserted
    <2>5. /\ IsContent(d) /\ Has(d, b, n + 1)
          /\ \A a \in Batches \ {b} : \A m \in Nat : Has(work, a, m) => Has(d, a, m)
        BY <1>1, <1>2, <2>4, InsertedHas
    <2>6. \A a \in Batches \ {b} : WholeOrAbsent(work, a, tried) => WholeOrAbsent(d, a, tried)
        BY <2>5, WholeLength DEF WholeOrAbsent, IsAbsent, IsWhole
    <2>7. Keeps(d, kept)
        <3>1. \A a \in kept : a \in Batches \ {b}
            BY <1>1 DEF UnderWay
        <3>2. QED
            BY <1>1, <2>5, <3>1, WholeLength DEF Keeps, IsWhole
    <2>8. n + 1 \in Nat /\ n + 1 <= Len(Records[b])
        BY <1>1, <1>2, WholeLength
    <2>9. /\ b \in tried \ kept /\ IsAbsent(db, b)
          /\ \A a \in Batches \ {b} : WholeOrAbsent(d, a, tried)
        BY <1>1, <2>6 DEF UnderWay
    <2>10. UnderWay'
        BY <1>1, <1>3, <2>2, <2>3, <2>5, <2>8, <2>9 DEF UnderWay
    <2>11. QED
        BY <1>1, <1>3, <2>2, <2>3, <2>5, <2>7, <2>10 DEF Database
<1>4. CASE batch' = [batch EXCEPT !.ok = FALSE] /\ ((work' = work /\ txn' = txn) \/ (work' = db /\ txn' = FALSE))
    <2>1. batch' = [b |-> b, n |-> n, ok |-> FALSE]
        BY <1>2, <1>4
    <2>2. batch' # NoBatch /\ batch'.b = b /\ batch'.n = n /\ batch'.ok = FALSE
          /\ batch' = [b |-> batch'.b, n |-> batch'.n, ok |-> batch'.ok]
        BY <2>1 DEF NoBatch
    <2>3. IsContent(work') /\ Keeps(work', kept) /\ (~txn' => work' = db)
          /\ \A a \in Batches \ {b} : WholeOrAbsent(work', a, tried)
        BY <1>1, <1>4 DEF UnderWay, Sane
    <2>4. UnderWay'
        BY <1>1, <1>2, <2>2, <2>3 DEF UnderWay
    <2>5. QED
        BY <1>1, <2>2, <2>3, <2>4 DEF Database
<1>5. QED
    BY <1>1, <1>3, <1>4 DEF SqliteInsert, Autocommit

LEMMA SqliteEnds ==
    ASSUME Database, kept \subseteq tried, tried \subseteq Batches, SqliteEnd
    PROVE  Database' /\ kept' \subseteq tried
<1>1. /\ UnderWay /\ batch # NoBatch /\ batch' = NoBatch /\ tried' = tried /\ batch.b \in Batches
      /\ batch.b \in tried
      /\ Sane(db, tried) /\ Keeps(db, kept) /\ IsContent(work) /\ Keeps(work, kept)
    BY DEF SqliteEnd, Database, UnderWay
<1>2. ASSUME batch.ok, batch.n = Len(Records[batch.b]) PROVE Sane(work, tried) /\ IsWhole(work, batch.b) /\ txn
    <2>1. IsWhole(work, batch.b) /\ txn
        BY <1>1, <1>2 DEF UnderWay, IsWhole
    <2>2. \A b \in Batches : WholeOrAbsent(work, b, tried)
        BY <1>1, <2>1 DEF UnderWay, WholeOrAbsent
    <2>3. QED
        BY <1>1, <2>1, <2>2 DEF Sane
<1>3. CASE work' = db /\ txn' = FALSE /\ UNCHANGED <<db, kept>>
    BY <1>1, <1>3 DEF Database, Sane
<1>4. CASE batch.ok /\ batch.n = Len(Records[batch.b]) /\ UNCHANGED <<work, txn, db, kept>>
    BY <1>1, <1>2, <1>4 DEF Database
<1>5. CASE batch.ok /\ batch.n = Len(Records[batch.b]) /\ db' = work /\ txn' = FALSE /\ work' = work /\ Keep(batch.b)
    <2>1. kept' = kept \cup {batch.b} /\ Keeps(work, kept')
        BY <1>1, <1>2, <1>5 DEF Keep, Keeps
    <2>2. QED
        BY <1>1, <1>2, <1>5, <2>1 DEF Database
<1>6. QED
    BY <1>3, <1>4, <1>5 DEF SqliteEnd, Commit, Rollback
-----------------------------------------------------------------------------
(* All the steps together *)

LEMMA InitSInv == Init => SInv
<1> SUFFICES ASSUME Init PROVE SInv
    OBVIOUS
<1>1. /\ kept = {} /\ tried = {} /\ older = {} /\ save = NoSave /\ job = NoJob /\ work = Nothing
      /\ db = Nothing /\ txn = FALSE /\ batch = NoBatch /\ disk = [main |-> NoFile, tmp |-> NoFile]
    BY DEF Init, FsInit, SessionInit
<1>2. Sane(Nothing, {}) /\ Keeps(Nothing, {}) /\ IsContent(Nothing)
    BY NothingSane DEF Sane
<1>3. SessionFile
    BY <1>1 DEF SessionFile, Legible, Durable, NoFile, HasText
<1>4. SessionSave
    BY <1>1 DEF SessionSave, NoSave
<1>5. Database
    BY <1>1, <1>2 DEF Database
<1>6. QED
    BY <1>1, <1>2, <1>3, <1>4, <1>5 DEF SInv

LEMMA MemoryChanges ==
    ASSUME SInv, kind = "memory",
           \/ \E s \in Sessions : MemoryCreateSession(s) \/ MemoryClearSession(s)
           \/ \E b \in Batches : MemoryAppendRecords(b)
    PROVE  SInv'
<1>0. Sane(work, tried) /\ IsContent(work) /\ Keeps(work, kept) /\ kept \subseteq tried /\ tried \subseteq Batches
    BY DEF SInv, Sane
<1>1. ASSUME NEW s \in Sessions, MemoryCreateSession(s) PROVE SInv'
    <2>1. UNCHANGED <<kind, tried, kept>> /\ work' = Created(work, s)
        BY <1>1 DEF MemoryCreateSession, memoryRest
    <2>2. Sane(work', tried) /\ Keeps(work', kept)
        BY <1>0, <2>1, CreatedSane
    <2>3. QED
        BY <1>0, <2>1, <2>2 DEF SInv
<1>2. ASSUME NEW s \in Sessions, MemoryClearSession(s) PROVE SInv'
    <2>1. UNCHANGED <<kind, tried>> /\ work' = Cleared(work, s) /\ kept' = {b \in kept : ~OfSession(b, s)}
        BY <1>2 DEF MemoryClearSession, memoryRest, Forget
    <2>2. Sane(work', tried)
        BY <1>0, <2>1, ClearedSane
    <2>3. Keeps(work', kept')
        BY <1>0, <2>1, ClearedKeeps
    <2>4. QED
        BY <1>0, <2>1, <2>2, <2>3 DEF SInv
<1>3. ASSUME NEW b \in Batches, MemoryAppendRecords(b) PROVE SInv'
    <2>1. b \notin tried /\ tried' = tried \cup {b} /\ kind' = kind
        BY <1>3 DEF MemoryAppendRecords, memoryRest
    <2>2. CASE work' = Appended(work, b, Len(Records[b])) /\ Keep(b)
        <3>1. kept' = kept \cup {b}
            BY <2>2 DEF Keep
        <3>2. Sane(work', tried') /\ IsWhole(work', b) /\ Keeps(work', kept)
            BY <1>0, <2>1, <2>2, AppendedSane
        <3>3. Keeps(work', kept')
            BY <3>1, <3>2 DEF Keeps
        <3>4. QED
            BY <1>0, <2>1, <3>1, <3>2, <3>3 DEF SInv
    <2>3. CASE UNCHANGED <<work, kept>>
        <3>1. Sane(work, tried')
            BY <1>0, <2>1, FewerKept
        <3>2. QED
            BY <1>0, <2>1, <2>3, <3>1 DEF SInv
    <2>4. QED
        BY <1>3, <2>2, <2>3 DEF MemoryAppendRecords
<1>4. QED
    BY <1>1, <1>2, <1>3

LEMMA SqliteChanges ==
    ASSUME SInv, kind = "sqlite",
           \/ \E s \in Sessions : SqliteCreateSession(s) \/ SqliteClear(s)
           \/ \E b \in Batches : SqliteBegin(b)
           \/ SqliteInsert \/ SqliteEnd
    PROVE  SInv'
<1>0. Database /\ kept \subseteq tried /\ tried \subseteq Batches
    BY DEF SInv
<1>1. ASSUME Database', kept' \subseteq tried', tried' \subseteq Batches, kind' = kind PROVE SInv'
    BY <1>1 DEF SInv
<1>2. ASSUME NEW s \in Sessions, SqliteCreateSession(s) PROVE SInv'
    <2>1. UNCHANGED <<tried, kept, kind>>
        BY <1>2 DEF SqliteCreateSession
    <2>2. QED
        BY <1>0, <1>1, <1>2, <2>1, SqliteCreates
<1>3. ASSUME NEW s \in Sessions, SqliteClear(s) PROVE SInv'
    <2>1. UNCHANGED <<tried, kind>>
        BY <1>3 DEF SqliteClear
    <2>2. QED
        BY <1>0, <1>1, <1>3, <2>1, SqliteClears
<1>4. ASSUME NEW b \in Batches, SqliteBegin(b) PROVE SInv'
    <2>1. UNCHANGED <<kept, kind>>
        BY <1>4 DEF SqliteBegin
    <2>2. QED
        BY <1>0, <1>1, <1>4, <2>1, SqliteBegins
<1>5. CASE SqliteInsert
    <2>1. UNCHANGED <<tried, kept, kind>>
        BY <1>5 DEF SqliteInsert
    <2>2. QED
        BY <1>0, <1>1, <1>5, <2>1, SqliteInserts
<1>6. CASE SqliteEnd
    <2>1. UNCHANGED <<tried, kind>>
        BY <1>6 DEF SqliteEnd
    <2>2. QED
        BY <1>0, <1>1, <1>6, <2>1, SqliteEnds
<1>7. QED
    BY <1>2, <1>3, <1>4, <1>5, <1>6

LEMMA LeftKept ==
    ASSUME NEW d, FileKept(d), NEW e \in LeftOf(d)
    PROVE  FileKept(e)
<1>1. PICK main \in Left(d.main), tmp \in Left(d.tmp) : e = [main |-> main, tmp |-> tmp]
    BY DEF LeftOf
<1>2. CASE d.main.is = "cached"
    <2>1. main = WholeFile(d.main.data) \/ main = TornFile
        BY <1>1, <1>2 DEF Left
    <2>2. HasText(main) => Sane(main.data, tried)
        BY <1>2, <2>1 DEF FileKept, Legible, HasText, WholeFile, TornFile
    <2>3. platform # "freertos" => kept = {}
        BY <1>2 DEF FileKept, Durable
    <2>4. QED
        BY <1>1, <2>2, <2>3 DEF FileKept, Legible, Durable
<1>3. CASE d.main.is # "cached"
    <2>1. main = d.main
        BY <1>1, <1>3 DEF Left
    <2>2. QED
        BY <1>1, <2>1 DEF FileKept, Legible, Durable
<1>4. QED
    BY <1>2, <1>3

LEMMA CrashKeepsSessions ==
    ASSUME SInv, Crash
    PROVE  SInv'
<1>0. /\ SessionStops /\ save' = NoSave /\ UNCHANGED <<platform, kind, db, tried>>
      /\ job' = NoJob /\ batch' = NoBatch /\ txn' = FALSE
      /\ kept \subseteq tried /\ tried \subseteq Batches
    BY DEF Crash, FsCrash, SessionStops, SInv
<1>1. CASE kind = "json"
    <2>1. kept' = kept /\ SessionFile
        BY <1>0, <1>1 DEF SessionStops, SInv
    <2>2. \A d \in older \cup {disk} : FileKept(d)
        BY <2>1 DEF SessionFile, FileKept
    <2>3. PICK off \in BOOLEAN : FsCrash(off)
        BY DEF Crash
    <2>4. FileKept(disk') /\ (older' = {} \/ older' = older)
        <3>1. CASE off
            <4>1. PICK d \in older \cup {disk} : disk' \in LeftOf(d)
                BY <2>3, <3>1 DEF FsCrash
            <4>2. QED
                BY <2>2, <2>3, <3>1, <4>1, LeftKept DEF FsCrash
        <3>2. CASE ~off
            BY <2>2, <2>3, <3>2 DEF FsCrash
        <3>3. QED
            BY <3>1, <3>2
    <2>5. SessionFile'
        BY <1>0, <2>1, <2>2, <2>4 DEF SessionFile, FileKept
    <2>6. SessionSave'
        BY <1>0 DEF SessionSave, NoSave
    <2>7. QED
        BY <1>0, <1>1, <2>1, <2>5, <2>6 DEF SInv
<1>2. CASE kind = "sqlite"
    <2>1. kept' = kept /\ work' = db /\ Database
        BY <1>0, <1>2 DEF SessionStops, SInv
    <2>2. Database'
        BY <1>0, <2>1 DEF Database, Sane
    <2>3. QED
        BY <1>0, <1>2, <2>1, <2>2 DEF SInv
<1>3. CASE kind = "memory"
    <2>1. kept' = {} /\ work' = Nothing
        BY <1>0, <1>3 DEF SessionStops
    <2>2. QED
        BY <1>0, <1>3, <2>1, NothingSane DEF SInv
<1>4. CASE kind \notin {"memory", "json", "sqlite"}
    <2>1. kept' = kept /\ work' = Nothing
        BY <1>0, <1>4 DEF SessionStops
    <2>2. QED
        BY <1>0, <1>4, <2>1 DEF SInv
<1>5. QED
    BY <1>1, <1>2, <1>3, <1>4

(* A store of the long-term memory has no sessions. *)
LEMMA OtherStoresRest ==
    ASSUME SInv, MemoryNext, UNCHANGED sessionVars
    PROVE  SInv'
<1>1. kind \notin {"memory", "json", "sqlite"} /\ kind' = kind
    <2>1. ASSUME NEW o \in MemoryOps, InmemChange(o) \/ SqliteDelete(o) \/ JsonMemoryCall(o)
          PROVE  kind \in {"inmem", "json_memory", "sqlite_memory"} /\ kind' = kind
        BY <2>1 DEF InmemChange, SqliteDelete, JsonMemoryCall, Succeeds, atomicRest
    <2>2. ASSUME NEW k \in Keys, NEW v \in Values, SqliteSet(k, v)
          PROVE  kind \in {"inmem", "json_memory", "sqlite_memory"} /\ kind' = kind
        BY <2>2 DEF SqliteSet, Succeeds, atomicRest
    <2>3. ASSUME JsonMemorySaved \/ JsonMemoryFailed \/ OpenMemory
          PROVE  kind \in {"inmem", "json_memory", "sqlite_memory"} /\ kind' = kind
        BY <2>3 DEF JsonMemorySaved, JsonMemoryFailed, OpenMemory
    <2>4. QED
        BY <2>1, <2>2, <2>3 DEF MemoryNext
<1>2. UNCHANGED <<work, kept, tried>>
    BY DEF sessionVars
<1>3. QED
    BY <1>1, <1>2 DEF SInv

LEMMA StepSInv == SInv /\ [Next]_vars => SInv'
<1> SUFFICES ASSUME SInv, [Next]_vars PROVE SInv'
    OBVIOUS
<1>1. CASE Crash
    BY <1>1, CrashKeepsSessions
<1>2. CASE SaveNext /\ UNCHANGED <<sessionVars, memoryVars>>
    <2>1. UNCHANGED <<tried, kept, job, kind, work, db, txn, batch>>
        BY <1>2 DEF SaveNext, sessionVars
    <2>2. kind = "json" => (SessionFile /\ SessionSave)'
        BY <1>2, <2>1, SaveKeepsSessions DEF SInv
    <2>3. kind = "sqlite" => Database'
        BY <2>1 DEF SInv, Database, UnderWay
    <2>4. QED
        BY <2>1, <2>2, <2>3 DEF SInv
<1>3. CASE SessionNext
    <2>1. CASE OpenMemoryStore \/ OpenSqliteStore
        BY <2>1 DEF OpenMemoryStore, OpenSqliteStore, sessionVars, SInv, Database, UnderWay
    <2>2. ASSUME NEW s \in Sessions, MemoryCreateSession(s) \/ MemoryClearSession(s) PROVE SInv'
        <3>1. kind = "memory"
            BY <2>2 DEF MemoryCreateSession, MemoryClearSession
        <3>2. QED
            BY <2>2, <3>1, MemoryChanges
    <2>3. ASSUME NEW b \in Batches, MemoryAppendRecords(b) PROVE SInv'
        <3>1. kind = "memory"
            BY <2>3 DEF MemoryAppendRecords
        <3>2. QED
            BY <2>3, <3>1, MemoryChanges
    <2>4. ASSUME NEW s \in Sessions, JsonCreateSession(s) \/ JsonClearSession(s) PROVE SInv'
        <3>1. kind = "json"
            BY <2>4 DEF JsonCreateSession, JsonClearSession, LoadThenSave
        <3>2. QED
            BY <2>4, <3>1, JsonChanges
    <2>5. ASSUME NEW b \in Batches, JsonAppendRecords(b) PROVE SInv'
        <3>1. kind = "json"
            BY <2>5 DEF JsonAppendRecords, LoadThenSave
        <3>2. QED
            BY <2>5, <3>1, JsonChanges
    <2>6. CASE JsonLoadMessages \/ JsonReturns \/ OpenJson
        <3>1. kind = "json"
            BY <2>6 DEF JsonLoadMessages, JsonReturns, OpenJson
        <3>2. QED
            BY <2>6, <3>1, JsonReads
    <2>7. ASSUME NEW s \in Sessions, SqliteCreateSession(s) \/ SqliteClear(s) PROVE SInv'
        <3>1. kind = "sqlite"
            BY <2>7 DEF SqliteCreateSession, SqliteClear
        <3>2. QED
            BY <2>7, <3>1, SqliteChanges
    <2>8. ASSUME NEW b \in Batches, SqliteBegin(b) PROVE SInv'
        <3>1. kind = "sqlite"
            BY <2>8 DEF SqliteBegin
        <3>2. QED
            BY <2>8, <3>1, SqliteChanges
    <2>9. CASE SqliteInsert \/ SqliteEnd
        <3>1. kind = "sqlite"
            BY <2>9 DEF SqliteInsert, SqliteEnd
        <3>2. QED
            BY <2>9, <3>1, SqliteChanges
    <2>10. QED
        BY <1>3, <2>1, <2>2, <2>3, <2>4, <2>5, <2>6, <2>7, <2>8, <2>9 DEF SessionNext
<1>4. CASE MemoryNext /\ UNCHANGED sessionVars
    BY <1>4, OtherStoresRest
<1>5. CASE UNCHANGED vars
    BY <1>5 DEF vars, fsVars, sessionVars, SInv, SessionFile, SessionSave, Legible, Durable, Writing,
                Database, UnderWay
<1>6. QED
    BY <1>1, <1>2, <1>3, <1>4, <1>5 DEF Next

(* At every point between two calls of the platform or of the database,    *)
(* the files, the database, the call under way and the batches             *)
(* acknowledged are related as SInv says.                                  *)
THEOREM SessionsInvariant == Spec => []SInv
<1>1. Init => SInv
    BY InitSInv
<1>2. SInv /\ [Next]_vars => SInv'
    BY StepSInv
<1>3. QED
    BY <1>1, <1>2, PTL DEF Spec

(* A batch that append_records acknowledged is whole in what lasts until    *)
(* its session is cleared, at whatever call the process dies, the power     *)
(* goes or the platform fails (the memory, JSON and SQLite session stores). *)
THEOREM AcknowledgedBatchesStay == Spec => []AckedSurvive
<1>1. SInv => AckedSurvive
    <2> SUFFICES ASSUME SInv, platform # "freertos", NEW b \in kept PROVE IsWhole(Lasting, b)
        BY DEF AckedSurvive
    <2>1. CASE kind = "json"
        <3>1. disk.main.is = "whole" /\ Keeps(disk.main.data, kept)
            BY <2>1 DEF SInv, SessionFile, Durable
        <3>2. QED
            BY <2>1, <3>1 DEF Lasting, HasText, Keeps
    <2>2. CASE kind = "sqlite"
        BY <2>2 DEF SInv, Database, Keeps, Lasting
    <2>3. CASE kind \notin {"json", "sqlite"}
        BY <2>3 DEF SInv, Keeps, Lasting
    <2>4. QED
        BY <2>1, <2>2, <2>3
<1>2. QED
    BY <1>1, SessionsInvariant, PTL

(* Of no batch does a part last: all of its records are stored, in their    *)
(* order, or none of them is (append_records of the three stores).          *)
THEOREM BatchesAreWhole == Spec => []WholeBatches
<1>1. SInv => WholeBatches
    <2> SUFFICES ASSUME SInv PROVE Sane(Lasting, tried)
        BY DEF WholeBatches, Sane, WholeOrAbsent
    <2>1. CASE kind = "json"
        <3>1. HasText(disk.main) => Sane(disk.main.data, tried)
            BY <2>1 DEF SInv, SessionFile, Legible
        <3>2. QED
            BY <2>1, <3>1, NothingSane DEF Lasting
    <2>2. CASE kind = "sqlite"
        BY <2>2 DEF SInv, Database, Lasting
    <2>3. CASE kind \notin {"json", "sqlite"}
        BY <2>3, NothingSane DEF SInv, Lasting
    <2>4. QED
        BY <2>1, <2>2, <2>3
<1>2. QED
    BY <1>1, SessionsInvariant, PTL
=============================================================================

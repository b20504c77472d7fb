----------------------------- MODULE Filesystem -----------------------------
(***************************************************************************)
(* The files of a store that keeps its content in one file, and the way    *)
(* both JSON stores replace it: write a temporary file, sync it, move it   *)
(* over the main file, sync the directory (save_store in                   *)
(* cc_json_file_store.c, save_to_file in cc_json_file_memory_store.c),     *)
(* with the steps as each platform takes them (platforms/*/src).           *)
(*                                                                         *)
(* "disk" is what a read finds now; "older" holds the states a power loss  *)
(* may bring back, because a rename has not been followed by a directory   *)
(* sync.  A file is absent, torn (part of a write), cached (written, not   *)
(* yet durable) or whole.  "save" is the replacement under way, "faults"   *)
(* how many more calls of the platform or the database may fail; "kind" is *)
(* the store that uses the files and "up" whether it is open.              *)
(***************************************************************************)
EXTENDS Naturals, Sequences

CONSTANTS Platforms,   \* of "posix", "windows" (esp32 takes the same steps), "freertos"
          TextLimit,   \* records in a text FatFs still reads (256 KiB)
          MaxFaults

VARIABLES platform, disk, older, save, faults, kind, up

fsVars == <<platform, disk, older, save, faults>>

NoFile == [is |-> "absent"]
TornFile == [is |-> "torn"]
CachedFile(c) == [is |-> "cached", data |-> c]
WholeFile(c) == [is |-> "whole", data |-> c]

NoSave == [at |-> "idle"]

FsInit ==
    /\ platform \in Platforms
    /\ disk = [main |-> NoFile, tmp |-> NoFile]
    /\ older = {} /\ save = NoSave /\ faults = MaxFaults /\ up = FALSE

Spend == faults > 0 /\ faults' = faults - 1

(* A read gives the content of a complete file; FatFs refuses long texts.  *)
HasText(f) == f.is \in {"cached", "whole"}
Readable(f) ==
    HasText(f) /\ (platform = "freertos" => Len(f.data.records) <= TextLimit)

-----------------------------------------------------------------------------
(* Replacing the main file                                                 *)

StartSave(c) == save' = [at |-> "open", data |-> c]

Step(from, to) == save.at = from /\ save' = [save EXCEPT !.at = to]

SaveFails(from) == Step(from, "failed") /\ Spend /\ UNCHANGED <<platform, disk, older>>

(* write_text truncates the temporary file before it writes it. *)
OpenTemporary ==
    \/ /\ Step("open", "write")
       /\ disk' = [disk EXCEPT !.tmp = TornFile]
       /\ UNCHANGED <<platform, older, faults>>
    \/ SaveFails("open")

(* Closing a FatFs file writes it through. *)
WriteTemporary ==
    \/ /\ Step("write", "sync")
       /\ disk' = [disk EXCEPT !.tmp = IF platform = "freertos" THEN WholeFile(save.data)
                                       ELSE CachedFile(save.data)]
       /\ UNCHANGED <<platform, older, faults>>
    \/ SaveFails("write")

SyncTemporaryMutant ==
    /\ Step("sync", IF platform = "freertos" THEN "unlink" ELSE "replace")
    /\ UNCHANGED <<platform, disk, older, faults>>

SyncTemporary ==
    \/ /\ Step("sync", IF platform = "freertos" THEN "unlink" ELSE "replace")
       /\ disk' = [disk EXCEPT !.tmp = WholeFile(save.data)]
       /\ UNCHANGED <<platform, older, faults>>
    \/ SaveFails("sync")

Moved == [main |-> disk.tmp, tmp |-> NoFile]

(* rename, or MoveFileEx with MOVEFILE_WRITE_THROUGH.  Only the posix      *)
(* rename waits for sync_dir, which the other platforms do not support.    *)
AtomicReplace ==
    \/ /\ Step("replace", IF platform = "posix" THEN "sync_dir" ELSE "saved")
       /\ disk' = Moved
       /\ older' = IF platform = "posix" THEN older \cup {disk} ELSE {}
       /\ UNCHANGED <<platform, faults>>
    \/ SaveFails("replace")

(* f_rename does not overwrite, so the FatFs port unlinks the main file    *)
(* first and ignores whether that worked.                                  *)
UnlinkMain ==
    /\ Step("unlink", "rename")
    /\ \/ disk' = [disk EXCEPT !.main = NoFile] /\ UNCHANGED faults
       \/ disk.main # NoFile /\ Spend /\ UNCHANGED disk
    /\ UNCHANGED <<platform, older>>

RenameTemporary ==
    \/ /\ disk.main = NoFile /\ Step("rename", "saved")
       /\ disk' = Moved
       /\ UNCHANGED <<platform, older, faults>>
    \/ disk.main # NoFile /\ Step("rename", "failed") /\ UNCHANGED <<platform, disk, older, faults>>
    \/ SaveFails("rename")

SyncDirectory ==
    \/ Step("sync_dir", "saved") /\ older' = {} /\ UNCHANGED <<platform, disk, faults>>
    \/ SaveFails("sync_dir")

SaveNext ==
    /\ UNCHANGED <<kind, up>>
    /\ \/ OpenTemporary \/ WriteTemporary \/ SyncTemporary
       \/ AtomicReplace \/ UnlinkMain \/ RenameTemporary \/ SyncDirectory

-----------------------------------------------------------------------------
(* The process or the machine stops                                        *)

(* What power loss leaves of a file that was not synced. *)
Left(f) == IF f.is = "cached" THEN {WholeFile(f.data), TornFile} ELSE {f}
LeftOf(d) == [main : Left(d.main), tmp : Left(d.tmp)]

(* "off": the power is lost; otherwise only the process dies. *)
FsCrash(off) ==
    /\ save' = NoSave /\ up' = FALSE
    /\ IF off
       THEN disk' \in UNION {LeftOf(d) : d \in older \cup {disk}} /\ older' = {}
       ELSE UNCHANGED <<disk, older>>
    /\ UNCHANGED <<platform, faults, kind>>
=============================================================================

---------------------------- MODULE MemoryStores ----------------------------
(***************************************************************************)
(* The stores of the long-term memory: cc_inmem_memory_store.c ("inmem"),  *)
(* cc_json_file_memory_store.c ("json_memory") and                         *)
(* cc_sqlite_memory_store.c ("sqlite_memory").  Every operation is one     *)
(* critical section of the store's mutex; the JSON store changes its array *)
(* first, saves it, and takes the change back when that fails.             *)
(*                                                                         *)
(* "entries" is what the store answers from.  "call" is the operation      *)
(* under way with the entries to go back to.  "expected" is what the       *)
(* answers of the store since it opened say it holds, "possible" what a    *)
(* restart may find, and "spoiled" that a case outside the promise         *)
(* occurred: the file could not be read or put back at start, FatFs lost   *)
(* the main file and could not rename, or SQLite failed a delete that      *)
(* returned success.                                                       *)
(***************************************************************************)
EXTENDS Filesystem, SequencesExt

CONSTANTS Keys, Values,
          CategoryOf   \* [Values -> categories]: a value is stored under one

VARIABLES entries, call, expected, possible, spoiled

memoryVars == <<entries, call, expected, possible, spoiled>>

None == "none"
Empty == [records |-> <<>>]
NoCall == [op |-> "none"]
Nowhere == [k \in Keys |-> None]

MemoryInit ==
    /\ entries = Empty /\ call = NoCall /\ spoiled = FALSE
    /\ expected = Nowhere /\ possible = [k \in Keys |-> {None}]

At(c, k) == {i \in DOMAIN c.records : c.records[i].key = k}
ValueIn(c, k) == IF At(c, k) = {} THEN None ELSE c.records[CHOOSE i \in At(c, k) : TRUE].value
Held(c) == [k \in Keys |-> ValueIn(c, k)]

MemoryOps == [op : {"set"}, k : Keys, v : Values] \cup [op : {"delete"}, k : Keys]
                 \cup [op : {"delete_category"}, c : {CategoryOf[v] : v \in Values}]

(* A key that is there keeps its place; a new one goes to the end. *)
SetEntry(c, k, v) ==
    IF At(c, k) = {} THEN [c EXCEPT !.records = Append(@, [key |-> k, value |-> v])]
    ELSE [c EXCEPT !.records = [i \in DOMAIN @ |-> IF i \in At(c, k) THEN [key |-> k, value |-> v]
                                                   ELSE @[i]]]

Without(c, gone) == [c EXCEPT !.records = SelectSeq(@, LAMBDA e : e \notin gone)]

Applied(c, o) ==
    CASE o.op = "set" -> SetEntry(c, o.k, o.v)
      [] o.op = "delete" -> Without(c, {e \in Range(c.records) : e.key = o.k})
      [] OTHER -> Without(c, {e \in Range(c.records) : CategoryOf[e.value] = o.c})

(* delete_entry of a key that is not there returns NOT_FOUND. *)
Found(o) == o.op = "delete" => At(entries, o.k) # {}

-----------------------------------------------------------------------------
(* inmem and SQLite: a change is atomic.                                   *)

atomicRest == <<platform, disk, older, save, kind, up, call>>

Succeeds(c) ==
    /\ entries' = c
    /\ expected' = Held(c) /\ possible' = [k \in Keys |-> {ValueIn(c, k)}]
    /\ UNCHANGED <<spoiled, faults, atomicRest>>

InmemChange(o) == kind = "inmem" /\ up /\ Found(o) /\ Succeeds(Applied(entries, o))

(* SQLite may fail a statement.  A set then returns an error; the two      *)
(* deletes ignore what the step returns and report success.                *)
SqliteSet(k, v) ==
    /\ kind = "sqlite_memory" /\ up
    /\ \/ Succeeds(SetEntry(entries, k, v))
       \/ Spend /\ UNCHANGED <<entries, expected, possible, spoiled, atomicRest>>

SqliteDelete(o) ==
    /\ kind = "sqlite_memory" /\ up /\ o.op # "set"
    /\ \/ Succeeds(Applied(entries, o))
       \/ Spend /\ spoiled' = TRUE /\ UNCHANGED <<entries, expected, possible, atomicRest>>

-----------------------------------------------------------------------------
(* The JSON file store                                                     *)

JsonMemoryCall(o) ==
    /\ kind = "json_memory" /\ up /\ call = NoCall /\ Found(o)
    /\ call' = [op |-> o.op, before |-> entries]
    /\ entries' = Applied(entries, o)
    /\ StartSave(entries')
    /\ possible' = [k \in Keys |-> possible[k] \cup {ValueIn(entries', k)}]
    /\ UNCHANGED <<platform, disk, older, faults, kind, up, expected, spoiled>>

JsonMemorySaved ==
    /\ kind = "json_memory" /\ save.at = "saved"
    /\ save' = NoSave /\ call' = NoCall
    /\ expected' = Held(entries) /\ possible' = [k \in Keys |-> {ValueIn(entries, k)}]
    /\ UNCHANGED <<platform, disk, older, faults, kind, up, entries, spoiled>>

(* The entries are put back and the temporary file is removed, whatever    *)
(* that returns.                                                           *)
JsonMemoryFailedMutant ==
    /\ kind = "json_memory" /\ save.at = "failed"
    /\ save' = NoSave /\ call' = NoCall
    /\ disk' = [disk EXCEPT !.tmp = NoFile]
    /\ UNCHANGED <<platform, older, faults, kind, up, entries, expected, possible, spoiled>>

JsonMemoryFailed ==
    /\ kind = "json_memory" /\ save.at = "failed"
    /\ save' = NoSave /\ call' = NoCall /\ entries' = call.before
    /\ spoiled' = (spoiled \/ (platform = "freertos" /\ disk.main = NoFile))
    /\ \/ disk' = [disk EXCEPT !.tmp = NoFile] /\ UNCHANGED faults
       \/ Spend /\ UNCHANGED disk
    /\ UNCHANGED <<platform, older, kind, up, expected, possible>>

(* load_from_file.  A main file that can be read counts, and a leftover    *)
(* temporary file is removed.  Otherwise a temporary file that can be read *)
(* becomes the main file.  Otherwise the store is empty.                   *)
LoadsMain ==
    /\ Readable(disk.main) /\ entries' = disk.main.data
    /\ \/ disk' = [disk EXCEPT !.tmp = NoFile] /\ UNCHANGED faults
       \/ disk.tmp # NoFile /\ Spend /\ UNCHANGED disk
    /\ UNCHANGED <<older, spoiled>>

LoadsTemporaryMutant ==
    /\ ~Readable(disk.main) /\ Readable(disk.tmp) /\ entries' = Empty
    /\ UNCHANGED <<disk, older, faults, spoiled>>

LoadsTemporary ==
    /\ ~Readable(disk.main) /\ Readable(disk.tmp)
    /\ \/ /\ spoiled' = (spoiled \/ HasText(disk.main))
          /\ entries' = disk.tmp.data /\ disk' = Moved
          /\ older' \in (IF platform = "posix" THEN {{}, older \cup {disk}} ELSE {{}})
          /\ UNCHANGED faults
       \/ Spend /\ spoiled' = TRUE /\ entries' = Empty /\ UNCHANGED <<disk, older>>

LoadsNothing ==
    /\ ~Readable(disk.main) /\ ~Readable(disk.tmp)
    /\ entries' = Empty /\ spoiled' = (spoiled \/ HasText(disk.main) \/ HasText(disk.tmp))
    /\ UNCHANGED <<disk, older, faults>>

(* A read that fails: of the main file, of the temporary one, or of both. *)
ReadFails ==
    /\ HasText(disk.main) \/ HasText(disk.tmp)
    /\ Spend /\ spoiled' = TRUE
    /\ entries' \in {Empty} \cup {f.data : f \in {g \in {disk.tmp} : Readable(g)}}
    /\ disk' = IF entries' = Empty THEN disk ELSE Moved
    /\ UNCHANGED older

OpenMemory ==
    /\ kind \in {"inmem", "json_memory", "sqlite_memory"} /\ ~up /\ up' = TRUE
    /\ IF kind = "json_memory" THEN LoadsMain \/ LoadsTemporary \/ LoadsNothing \/ ReadFails
       ELSE UNCHANGED <<entries, disk, older, faults, spoiled>>
    /\ expected' = Held(entries')
    /\ UNCHANGED <<platform, save, kind, call, possible>>

(* Only a database and the JSON file outlive the process. *)
MemoryStops ==
    /\ call' = NoCall
    /\ entries' = IF kind = "sqlite_memory" THEN entries ELSE Empty
    /\ possible' = IF kind = "inmem" THEN [k \in Keys |-> {None}] ELSE possible
    /\ UNCHANGED <<expected, spoiled>>

MemoryNext ==
    \/ \E o \in MemoryOps : InmemChange(o) \/ SqliteDelete(o) \/ JsonMemoryCall(o)
    \/ \E k \in Keys, v \in Values : SqliteSet(k, v)
    \/ JsonMemorySaved \/ JsonMemoryFailed \/ OpenMemory
=============================================================================

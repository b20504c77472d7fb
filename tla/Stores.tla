------------------------------- MODULE Stores -------------------------------
(***************************************************************************)
(* One store of an instance of the program: any session store or any store *)
(* of the long-term memory, on any platform, with calls of the platform    *)
(* and the database that fail, processes that die and power that is lost.  *)
(***************************************************************************)
EXTENDS SessionStores, MemoryStores

CONSTANTS Kinds, MaxCrashes

VARIABLE crashes

vars == <<fsVars, kind, up, sessionVars, memoryVars, crashes>>

OnFiles == {"json", "json_memory"}

(* Only the stores on files differ from platform to platform. *)
Init ==
    /\ kind \in Kinds
    /\ FsInit /\ SessionInit /\ MemoryInit
    /\ kind \notin OnFiles => platform = "posix"
    /\ crashes = 0

(* The process dies or is stopped, or the power is lost.  The database of  *)
(* SQLite keeps what was committed when only the process dies.             *)
Crash ==
    /\ up /\ crashes < MaxCrashes /\ crashes' = crashes + 1
    /\ \E off \in BOOLEAN : FsCrash(off)
    /\ SessionStops /\ MemoryStops

Next ==
    \/ Crash
    \/ /\ UNCHANGED crashes
       /\ \/ SaveNext /\ UNCHANGED <<sessionVars, memoryVars>>
          \/ SessionNext /\ UNCHANGED memoryVars
          \/ MemoryNext /\ UNCHANGED sessionVars

Spec == Init /\ [][Next]_vars

-----------------------------------------------------------------------------
(* What is on the disk or in the database; the memory store has no other.  *)
Lasting ==
    CASE kind = "json" -> IF HasText(disk.main) THEN disk.main.data ELSE Nothing
      [] kind = "sqlite" -> db
      [] OTHER -> work

(* A content has the first n records of a batch, in order, and no more. *)
Has(c, b, n) ==
    LET mine == {i \in DOMAIN c.records : c.records[i][1] = b} IN
    /\ {c.records[i] : i \in mine} = {<<b, m>> : m \in 1..n}
    /\ \A i, j \in mine : i < j => c.records[i][2] < c.records[j][2]

IsWhole(c, b) == Has(c, b, Len(Records[b]))
IsAbsent(c, b) == Has(c, b, 0)

(* A batch whose append returned success is there until its session is     *)
(* cleared, whatever fails and stops in between.  FatFs is left out: it    *)
(* unlinks the file before it renames the new one, and reads no text over  *)
(* its limit.                                                              *)
AckedSurvive ==
    platform # "freertos" => \A b \in kept : IsWhole(Lasting, b)

(* No part of a batch lasts: append_records stores all of it or nothing    *)
(* (ports/include/cc/ports/cc_session_store.h).                             *)
WholeBatches == \A b \in Batches : IsWhole(Lasting, b) \/ IsAbsent(Lasting, b)

(* A load between two statements of an append shows no record of a batch   *)
(* that has already failed.  cc_session_store.h: a failed append must not  *)
(* publish part of its batch.  TLC refutes it: README, section 9.          *)
FailedBatchUnseen ==
    (batch # NoBatch /\ ~batch.ok) =>
        \A s \in Sessions :
            LET shown == SqliteLoadMessages(s)
            IN \A i \in DOMAIN shown : shown[i][1] # batch.b

(* What the long-term memory finds after any restart is, of every key, the *)
(* last value a call acknowledged or one that was being written since.     *)
MemorySurvives ==
    (kind \in {"json_memory", "sqlite_memory"} /\ up /\ call = NoCall /\ ~spoiled) =>
        \A k \in Keys : ValueIn(entries, k) \in possible[k]

(* A change that returned an error leaves no trace in what the store goes  *)
(* on answering: json_set and the two deletes restore the array exactly.   *)
FailedChangeUnseen ==
    (kind \in {"inmem", "json_memory", "sqlite_memory"} /\ up /\ call = NoCall /\ ~spoiled) =>
        Held(entries) = expected
=============================================================================

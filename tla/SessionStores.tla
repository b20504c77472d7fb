--------------------------- MODULE SessionStores ----------------------------
(***************************************************************************)
(* The session stores that keep all sessions in one place:                 *)
(* cc_memory_session_store.c ("memory"), cc_json_file_store.c ("json") and *)
(* cc_sqlite_session_store.c ("sqlite").  The segmented store has a module *)
(* of its own.                                                             *)
(*                                                                         *)
(* A batch b of append_records has the records Records[b]; each is a       *)
(* message, a tool call or a tool result with an id.  A content is the     *)
(* sessions created and the records <<batch, number>> in the order they    *)
(* were stored.  The memory and the JSON store hold their mutex for a      *)
(* whole operation, so "job" is the one under way; the SQLite store holds  *)
(* it for a statement, and "batch" is the append between two of them.      *)
(* "kept" are the batches acknowledged and not cleared since; a batch is   *)
(* appended at most once.                                                  *)
(***************************************************************************)
EXTENDS Filesystem, SequencesExt

CONSTANTS Sessions, Batches,
          SessionOf,   \* [Batches -> Sessions]
          Records      \* [Batches -> Seq([kind, id])]

ASSUME SessionAssumption ==
    /\ SessionOf \in [Batches -> Sessions]
    /\ \A b \in Batches : Len(Records[b]) \in Nat

VARIABLES root, job, db, work, txn, batch, tried, kept

sessionVars == <<root, job, db, work, txn, batch, tried, kept>>

Nothing == [sessions |-> {}, records |-> <<>>]
NoJob == [op |-> "none"]
NoBatch == [b |-> "none"]

SessionInit ==
    /\ root = "none" /\ job = NoJob
    /\ db = Nothing /\ work = Nothing /\ txn = FALSE /\ batch = NoBatch
    /\ tried = {} /\ kept = {}

Rec(r) == Records[r[1]][r[2]]
RecordsOf(b) == [n \in 1..Len(Records[b]) |-> <<b, n>>]
OfSession(b, s) == SessionOf[b] = s

Created(c, s) == [c EXCEPT !.sessions = @ \cup {s}]
Appended(c, b, n) == [c EXCEPT !.records = @ \o SubSeq(RecordsOf(b), 1, n)]
Cleared(c, s) ==
    LET left[n \in 0..Len(c.records)] ==   \* what is left of the first n records
            IF n = 0 THEN << >>
            ELSE IF OfSession(c.records[n][1], s) THEN left[n - 1]
            ELSE Append(left[n - 1], c.records[n])
    IN [c EXCEPT !.records = left[Len(c.records)]]

(* load_messages: the messages of a session, in the order stored. *)
Messages(c, s) ==
    SelectSeq(c.records, LAMBDA r : OfSession(r[1], s) /\ Rec(r).kind = "message")

Keep(b) == kept' = kept \cup {b}
Forget(s) == kept' = {b \in kept : ~OfSession(b, s)}

-----------------------------------------------------------------------------
(* The memory store: an operation is one critical section; an append       *)
(* copies its records before it takes the mutex and may fail then.         *)

memoryRest == <<platform, disk, older, save, kind, up, root, job, db, txn, batch>>

MemoryCreateSession(s) ==
    /\ kind = "memory" /\ up
    /\ work' = Created(work, s)
    /\ UNCHANGED <<memoryRest, faults, tried, kept>>

MemoryAppendRecords(b) ==
    /\ kind = "memory" /\ up /\ b \notin tried
    /\ tried' = tried \cup {b}
    /\ \/ work' = Appended(work, b, Len(Records[b])) /\ Keep(b) /\ UNCHANGED faults
       \/ Spend /\ UNCHANGED <<work, kept>>
    /\ UNCHANGED memoryRest

MemoryClearSession(s) ==
    /\ kind = "memory" /\ up
    /\ work' = Cleared(work, s) /\ Forget(s)
    /\ UNCHANGED <<memoryRest, faults, tried>>

OpenMemoryStore ==
    /\ kind = "memory" /\ ~up /\ up' = TRUE
    /\ UNCHANGED <<fsVars, kind, sessionVars>>

-----------------------------------------------------------------------------
(* The JSON file store.  load_store frees the old tree before it reads the *)
(* file and forgets to clear the pointer when the read fails: "dangling".  *)

(* ensure_file_exists writes the empty schema in place: a crash tears it,  *)
(* and the next start finds a file that exists.                            *)
OpenJson ==
    /\ kind = "json" /\ ~up
    /\ \/ disk.main # NoFile /\ up' = TRUE /\ UNCHANGED <<disk, faults>>
       \/ disk.main = NoFile /\ up' = TRUE /\ UNCHANGED faults
          /\ disk' = [disk EXCEPT !.main = CachedFile(Nothing)]
       \/ disk.main = NoFile /\ UNCHANGED up /\ Spend
          /\ disk' = [disk EXCEPT !.main = TornFile]
    /\ UNCHANGED <<platform, older, save, kind, root, job, db, work, txn, batch, tried, kept>>

LoadedMutant == IF root = "live" THEN work ELSE disk.main.data

Loaded == disk.main.data

LoadFails ==
    /\ \/ ~Readable(disk.main) /\ UNCHANGED faults
       \/ Spend
    /\ root' = "dangling" /\ work' = Nothing

(* load_store, then the new tree c, which save_store begins to write. *)
LoadThenSave(o, c) ==
    /\ kind = "json" /\ up /\ job = NoJob
    /\ \/ LoadFails /\ UNCHANGED <<save, job>>
       \/ /\ Readable(disk.main) /\ root' = "live" /\ work' = c
          /\ job' = o /\ StartSave(c)
          /\ UNCHANGED faults
    /\ UNCHANGED <<platform, disk, older, kind, up, db, txn, batch>>

(* A session that is there is not created again. *)
JsonCreateSession(s) ==
    /\ kind = "json"
    /\ Readable(disk.main) => s \notin Loaded.sessions
    /\ LoadThenSave([op |-> "create"], Created(Loaded, s))
    /\ UNCHANGED <<tried, kept>>

JsonClearSession(s) ==
    /\ LoadThenSave([op |-> "clear"], Cleared(Loaded, s))
    /\ Forget(s) /\ UNCHANGED tried

(* A record that cannot be converted ends the append; the records before   *)
(* it stay in the tree until the next load_store.                          *)
JsonAppendRecords(b) ==
    /\ b \notin tried /\ tried' = tried \cup {b} /\ UNCHANGED kept
    /\ \/ LoadThenSave([op |-> "append", b |-> b], Appended(Loaded, b, Len(Records[b])))
       \/ /\ kind = "json" /\ up /\ job = NoJob
          /\ Readable(disk.main) /\ Spend /\ root' = "live"
          /\ \E n \in 0..(Len(Records[b]) - 1) : work' = Appended(Loaded, b, n)
          /\ UNCHANGED <<platform, disk, older, save, kind, up, job, db, txn, batch>>

JsonLoadMessages ==
    /\ kind = "json" /\ up /\ job = NoJob
    /\ \/ LoadFails
       \/ Readable(disk.main) /\ root' = "live" /\ work' = Loaded /\ UNCHANGED faults
    /\ UNCHANGED <<platform, disk, older, save, kind, up, job, db, txn, batch, tried, kept>>

(* save_store has ended and the call returns. *)
JsonReturns ==
    /\ kind = "json" /\ job # NoJob /\ save.at \in {"saved", "failed"}
    /\ save' = NoSave /\ job' = NoJob
    /\ IF job.op = "append" /\ save.at = "saved" THEN Keep(job.b) ELSE UNCHANGED kept
    /\ UNCHANGED <<platform, disk, older, faults, kind, up, root, db, work, txn, batch, tried>>

-----------------------------------------------------------------------------
(* The SQLite store.  "db" is what is committed, "work" what the store's   *)
(* one connection sees, "txn" that a transaction is open on it.  A         *)
(* statement outside a transaction commits by itself.  The calls of SQLite *)
(* that fail are the environment's; the database takes back the statement  *)
(* or, for some errors, the whole transaction.                             *)

Autocommit(c) == work' = c /\ db' = IF txn THEN db ELSE c

SqliteCreateSession(s) ==
    /\ kind = "sqlite" /\ up
    /\ Autocommit(Created(work, s))
    /\ UNCHANGED <<fsVars, kind, up, root, job, txn, batch, tried, kept>>

(* append_records under batch_mutex: BEGIN IMMEDIATE, in a critical        *)
(* section of its own.  It fails while a transaction was left open.        *)
SqliteBegin(b) ==
    /\ kind = "sqlite" /\ up /\ batch = NoBatch /\ b \notin tried
    /\ tried' = tried \cup {b}
    /\ \/ ~txn /\ txn' = TRUE /\ batch' = [b |-> b, n |-> 0, ok |-> TRUE] /\ UNCHANGED faults
       \/ txn /\ UNCHANGED <<txn, batch, faults>>
       \/ Spend /\ UNCHANGED <<txn, batch>>
    /\ UNCHANGED <<platform, disk, older, save, kind, up, root, job, db, work, kept>>

(* Ids are primary keys of their tables over all sessions; the session of  *)
(* a message or a call, and the call of a result, must exist.              *)
Stored(k, id) == \E i \in DOMAIN work.records : Rec(work.records[i]) = [kind |-> k, id |-> id]

AppendMessage(b, id) == ~Stored("message", id) /\ SessionOf[b] \in work.sessions
AppendToolCall(b, id) == ~Stored("call", id) /\ SessionOf[b] \in work.sessions
AppendToolResult(id) == ~Stored("result", id) /\ Stored("call", id)

Insertable(b, n) ==
    LET r == Records[b][n] IN
    CASE r.kind = "message" -> AppendMessage(b, r.id)
      [] r.kind = "call" -> AppendToolCall(b, r.id)
      [] OTHER -> AppendToolResult(r.id)

SqliteInsert ==
    /\ kind = "sqlite" /\ batch # NoBatch /\ batch.ok /\ batch.n < Len(Records[batch.b])
    /\ \/ /\ Insertable(batch.b, batch.n + 1)
          /\ Autocommit([work EXCEPT !.records = Append(@, <<batch.b, batch.n + 1>>)])
          /\ batch' = [batch EXCEPT !.n = @ + 1]
          /\ UNCHANGED <<txn, faults>>
       \/ /\ ~Insertable(batch.b, batch.n + 1)
          /\ batch' = [batch EXCEPT !.ok = FALSE]
          /\ UNCHANGED <<work, db, txn, faults>>
       \/ /\ Spend /\ batch' = [batch EXCEPT !.ok = FALSE] /\ UNCHANGED db
          /\ UNCHANGED <<work, txn>> \/ (work' = db /\ txn' = FALSE)
    /\ UNCHANGED <<platform, disk, older, save, kind, up, root, job, tried, kept>>

(* COMMIT after the last record, ROLLBACK after a failure.  A COMMIT that  *)
(* fails returns an error and leaves the transaction as SQLite left it.    *)
Rollback == work' = db /\ txn' = FALSE /\ UNCHANGED db

Commit ==
    \/ db' = work /\ txn' = FALSE /\ UNCHANGED <<work, faults>> /\ Keep(batch.b)
    \/ Spend /\ UNCHANGED <<db, kept>> /\ (UNCHANGED <<work, txn>> \/ (work' = db /\ txn' = FALSE))

SqliteEnd ==
    /\ kind = "sqlite" /\ batch # NoBatch
    /\ \/ batch.ok /\ batch.n = Len(Records[batch.b]) /\ Commit
       \/ ~batch.ok /\ Rollback /\ UNCHANGED <<faults, kept>>
    /\ batch' = NoBatch
    /\ UNCHANGED <<platform, disk, older, save, kind, up, root, job, tried>>

(* clear_session: one critical section.  It fails while a transaction is   *)
(* open; what COMMIT returns is not looked at.                             *)
SqliteClear(s) ==
    /\ kind = "sqlite" /\ up
    /\ \/ txn /\ UNCHANGED <<db, work, txn, faults, kept>>
       \/ Spend /\ UNCHANGED <<db, work, txn, kept>>
       \/ ~txn /\ db' = Cleared(work, s) /\ work' = db' /\ Forget(s) /\ UNCHANGED <<txn, faults>>
       \/ /\ ~txn /\ Spend /\ work' = Cleared(work, s) /\ txn' = TRUE /\ Forget(s)
          /\ UNCHANGED db
    /\ UNCHANGED <<platform, disk, older, save, kind, up, root, job, batch, tried>>

(* load_messages reads the store's own connection. *)
SqliteLoadMessages(s) == Messages(work, s)

OpenSqliteStore ==
    /\ kind = "sqlite" /\ ~up /\ up' = TRUE
    /\ UNCHANGED <<fsVars, kind, sessionVars>>

-----------------------------------------------------------------------------
(* The store is destroyed, or its process dies.  An operation on a store   *)
(* whose tree is dangling frees it twice, which may end the process too.   *)
SessionStops ==
    /\ root' = "none" /\ job' = NoJob /\ batch' = NoBatch /\ txn' = FALSE
    /\ work' = IF kind = "sqlite" THEN db ELSE Nothing
    /\ kept' = IF kind = "memory" THEN {} ELSE kept
    /\ UNCHANGED <<db, tried>>

SessionNext ==
    \/ \E s \in Sessions : MemoryCreateSession(s) \/ MemoryClearSession(s)
    \/ \E b \in Batches : MemoryAppendRecords(b)
    \/ OpenMemoryStore
    \/ \E s \in Sessions : JsonCreateSession(s) \/ JsonClearSession(s)
    \/ \E b \in Batches : JsonAppendRecords(b)
    \/ JsonLoadMessages \/ JsonReturns \/ OpenJson
    \/ \E s \in Sessions : SqliteCreateSession(s) \/ SqliteClear(s)
    \/ \E b \in Batches : SqliteBegin(b)
    \/ SqliteInsert \/ SqliteEnd \/ OpenSqliteStore
=============================================================================

----------------------------- MODULE SessionLog -----------------------------
(***************************************************************************)
(* What a session store promises of one session                            *)
(* (ports/include/cc/ports/cc_session_store.h): append_records adds a      *)
(* batch as a whole or not at all, and a batch it acknowledged stays until *)
(* the session is cleared, whatever crashes in between.                    *)
(*                                                                         *)
(* "log" is what load_messages returns.  A batch in "loose" was stored by  *)
(* a call that then failed or never returned; it may still be lost, but    *)
(* only when the power fails, which "outages" counts down.  While the      *)
(* session is not "intact", because it is being cleared or a clear was     *)
(* broken off, nothing is promised of it.                                  *)
(***************************************************************************)
EXTENDS Integers, SequencesExt

CONSTANT Batches

VARIABLES log, loose, intact, outages

Stored(s) == {s[i] : i \in DOMAIN s}

(* Of a store whose appends can leave parts of lines nothing is promised.  *)
Init == log = <<>> /\ loose = {} /\ intact \in BOOLEAN /\ outages \in Nat

(* The batch is stored; its call has not returned yet. *)
Store(b) ==
    /\ intact /\ b \notin Stored(log)
    /\ log' = Append(log, b)
    /\ loose' = loose \cup {b}
    /\ UNCHANGED <<intact, outages>>

(* The call returns success. *)
Acknowledge(b) ==
    /\ intact /\ b \in Stored(log)
    /\ loose' = loose \ {b}
    /\ UNCHANGED <<log, intact, outages>>

Without(s, S) ==
    FlattenSeq([i \in 1..Len(s) |-> IF s[i] \in S THEN << >> ELSE <<s[i]>>])

(* The power fails: batches that were never acknowledged may be gone, and  *)
(* the one being stored may have made it to the disk before.               *)
Lose(S, more) ==
    /\ intact /\ S \subseteq loose
    /\ outages > 0 /\ outages' = outages - 1
    /\ log' = Without(log, S) \o more
    /\ loose' = (loose \ S) \cup Stored(more)
    /\ UNCHANGED intact

BeginClear == intact' = FALSE

Damaged == ~intact /\ UNCHANGED intact

(* clear_session returns success: the session is empty again. *)
Cleared == log' = <<>> /\ loose' = {} /\ intact' = TRUE

Next ==
    \/ \E b \in Batches : Store(b) \/ Acknowledge(b)
    \/ \E S \in SUBSET loose : \E more \in {<< >>} \cup {<<b>> : b \in Batches \ Stored(log)} :
          Lose(S, more)
    \/ BeginClear \/ Damaged \/ Cleared

LogSpec == Init /\ [][Next]_<<log, loose, intact, outages>>
=============================================================================

--------------------------- MODULE ContextBuilder ---------------------------
(***************************************************************************)
(* What of a session's history is sent to the model                        *)
(* (core/src/app/cc_context_builder.c): the last messages as far as the    *)
(* budget goes, older ones as a summary, tool messages only in complete    *)
(* groups; and the cache of summaries, in the runtime and in the memory    *)
(* store.                                                                  *)
(*                                                                         *)
(* A message is a record with the fields role, calls (ids of the tool      *)
(* calls of an assistant message), call (the id a tool message answers)    *)
(* and command (a user's control command).  A summary is the sequence of   *)
(* messages it was made of, and its size.  Fingerprints are taken to tell  *)
(* histories apart.  Left out: system messages, of which the runtime       *)
(* stores none, and a window that its reserves use up.                     *)
(***************************************************************************)
EXTENDS Integers, Sequences, FiniteSets, SequencesExt, FiniteSetsExt, Functions

CONSTANTS
    MaxLoad,        \* MAX_LOAD_MESSAGES, 500 in the code
    KeepRecent,     \* context_keep_recent
    Budget,         \* history_budget: the context window less what is reserved; 0 for no window
    CompressAbove,  \* the tokens from which on history is summarised
    CacheSlots,     \* CC_CONTEXT_SUMMARY_CACHE_SLOTS, 4 in the code
    SummarySizes,   \* tokens a summary may have
    MaxKept         \* bound on the summaries in the memory store

ASSUME ContextAssumption ==
    /\ {MaxLoad, KeepRecent, Budget, CompressAbove, CacheSlots} \subseteq Nat /\ CacheSlots > 0
    /\ SummarySizes \subseteq Nat

VARIABLES
    cache,          \* summary_cache: sequence, the most recently used last
    kept            \* summaries in the memory store

contextVars == <<cache, kept>>

ContextInit == cache = << >> /\ kept = {}

Tokens(m) == 1 + Len(m.calls)
Cost(ms) ==
    LET cost[n \in 0..Len(ms)] == IF n = 0 THEN 0 ELSE cost[n - 1] + Tokens(ms[n]) IN cost[Len(ms)]
From(ms, i) == SubSeq(ms, i, Len(ms))

(* load_messages: the last messages of the session *)
Loaded(history) == From(history, Max({1, Len(history) - MaxLoad + 1}))
-----------------------------------------------------------------------------
(* append_history_range_sanitized, append_valid_tool_group *)

(* The tool messages that follow i *)
GroupOf(ms, i) == {j \in (i + 1)..Len(ms) : \A k \in (i + 1)..j : ms[k].role = "tool"}

(* The messages of a group that answer a call not yet answered *)
Answers(ms, i) ==
    {j \in GroupOf(ms, i) : /\ ms[j].call \in Range(ms[i].calls)
                            /\ \A k \in GroupOf(ms, i) : k < j => ms[k].call # ms[j].call}

CompleteGroup(ms, i) == IsInjective(ms[i].calls) /\ Cardinality(Answers(ms, i)) = Len(ms[i].calls)

SentMutant(ms, i) == ~(ms[i].role = "user" /\ ms[i].command)
Sent(ms, i) ==
    \/ ms[i].role = "user" /\ ~ms[i].command
    \/ ms[i].role = "assistant" /\ (ms[i].calls = << >> \/ CompleteGroup(ms, i))
    \/ \E a \in 1..(i - 1) : ms[a].role = "assistant" /\ CompleteGroup(ms, a) /\ i \in Answers(ms, a)

(* The indices of the messages that are sent, first to last *)
SentIndices(ms) ==
    LET sent[n \in 0..Len(ms)] ==
            IF n = 0 THEN << >> ELSE IF Sent(ms, n) THEN Append(sent[n - 1], n) ELSE sent[n - 1] IN
    sent[Len(ms)]

Sanitized(ms) == LET is == SentIndices(ms) IN [n \in 1..Len(is) |-> ms[is[n]]]
-----------------------------------------------------------------------------
(* Which messages, and what stands for the others *)

WantsSummary(ms) ==
    Budget > 0 /\ Cost(ms) > CompressAbove /\ Len(ms) > KeepRecent + 2

(* The messages a summary is to replace *)
Older(ms) == SubSeq(ms, 1, Len(ms) - KeepRecent)

NoSummary == [of |-> << >>, size |-> 0]
Fits(ms, summary) == summary.size <= Budget /\ Cost(From(ms, Len(Older(ms)) + 1)) <= Budget - summary.size

(* Without a summary, the longest end of the history the budget allows *)
FirstAffordable(ms) == Min({i \in 1..(Len(ms) + 1) : Cost(From(ms, i)) <= Budget})

Request(ms, summary) ==
    IF summary # NoSummary /\ Fits(ms, summary)
    THEN [summary |-> summary, loaded |-> ms, first |-> Len(Older(ms)) + 1,
          messages |-> Sanitized(From(ms, Len(Older(ms)) + 1))]
    ELSE LET first == IF Budget > 0 /\ Cost(ms) > Budget THEN FirstAffordable(ms) ELSE 1 IN
         [summary |-> NoSummary, loaded |-> ms, first |-> first,
          messages |-> Sanitized(From(ms, first))]
-----------------------------------------------------------------------------
(* The cache *)

(* summary_cache_lookup: session, number of messages and fingerprint agree *)
HitMutant(summary, older) == Len(summary.of) = Len(older)
Hit(summary, older) == summary.of = older

InCache(older) == \E i \in 1..Len(cache) : Hit(cache[i], older)
CacheSlot(older) == CHOOSE i \in 1..Len(cache) : Hit(cache[i], older)
Cached(older) == cache[CacheSlot(older)]

(* A lookup makes the entry the most recently used *)
Touch(i) == cache' = Append(RemoveAt(cache, i), cache[i])

(* summary_cache_store: in place of the same, in a free slot or in place of *)
(* the one used least recently                                              *)
Remember(summary) ==
    LET others == IF InCache(summary.of) THEN RemoveAt(cache, CacheSlot(summary.of))
                  ELSE IF Len(cache) < CacheSlots THEN cache ELSE Tail(cache) IN
    cache' = Append(others, summary)

(* summary_persistent_lookup *)
InStore(older) == \E s \in kept : Hit(s, older)
Stored(older) == CHOOSE s \in kept : Hit(s, older)

(* summary_persistent_predecessor: the longest summary of a beginning *)
Beginnings(older) == {s \in kept : Len(s.of) >= 3 /\ Len(s.of) < Len(older) /\ IsPrefix(s.of, older)}
Predecessor(older) ==
    IF Beginnings(older) = {} THEN NoSummary
    ELSE CHOOSE s \in Beginnings(older) : \A q \in Beginnings(older) : Len(q.of) <= Len(s.of)

(* try_compress_history: asked for only if there is something to gain; the  *)
(* model may fail to answer                                                 *)
Summaries(older) ==
    LET before == Predecessor(older) IN
    IF before = NoSummary /\ Len(older) <= 2 THEN {NoSummary}
    ELSE {NoSummary} \cup {[of |-> before.of \o From(older, Len(before.of) + 1), size |-> n] :
                           n \in SummarySizes}

(* summary_persistent_store replaces the one under the same key, and may fail *)
Persist(summary) ==
    LET others == {s \in kept : s.of # summary.of} IN
    \/ kept' = kept
    \/ Cardinality(others) < MaxKept /\ kept' = others \cup {summary}
=============================================================================

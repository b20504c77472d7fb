------------------------- MODULE AgentRuntimeProofs -------------------------
(***************************************************************************)
(* Proofs about the agent loop: what a run stores of its answer, in which  *)
(* order it executes tools, what a summary stands for, and that requests   *)
(* are well-formed, for any number of runs that share a session; and about *)
(* the answers of the model it asks: that an exchange of the HTTP client   *)
(* owns its handle, and that the chunks of a streamed answer reach the     *)
(* runtime in order, each once, and that a call that succeeds has given it *)
(* what it can use, for any server, body and cut of it.                    *)
(***************************************************************************)
EXTENDS AgentRuntime, LlmStream, FiniteSetTheorems, SequenceTheorems, WellFoundedInduction, TLAPS

IsSequence(s) == s \in Seq(Range(s))
IsMessages(ms) == IsSequence(ms) /\ \A i \in 1..Len(ms) : IsSequence(ms[i].calls)
IsSummary(s) == IsSequence(s.of) /\ s.size \in Nat
IsCache(c) == IsSequence(c) /\ \A s \in Range(c) : s.size \in Nat

(* The parts of a run *)
IsRequest(q) == q = [summary |-> q.summary, loaded |-> q.loaded, first |-> q.first, messages |-> q.messages]
IsRun(x) ==
    /\ x = [at |-> x.at, step |-> x.step, stop |-> x.stop, ctx |-> x.ctx, slot |-> x.slot, ran |-> x.ran,
            request |-> x.request, outcome |-> x.outcome, remembered |-> x.remembered]
    /\ x.step \in Nat /\ x.slot \in Nat \ {0} /\ x.ran \in Seq(Nat \X Nat)
    /\ IsRequest(x.request)

(* The tools a run has executed: of earlier steps, or the ones of this step *)
(* before the one in hand                                                   *)
Earlier(x) == \A i \in 1..Len(x.ran) : x.ran[i][1] < x.step
Progress(x) ==
    /\ \A i \in 1..Len(x.ran) : x.ran[i][1] <= x.step
    /\ x.at \in {"building", "summarising", "asking", "answered"} => x.slot = 1 /\ Earlier(x)
    /\ x.at = "executing" =>
          IF x.slot = 1 THEN Earlier(x) ELSE x.ran # << >> /\ Last(x.ran) = <<x.step, x.slot - 1>>
    /\ x.at = "observing" => x.ran # << >> /\ Last(x.ran) = <<x.step, x.slot>>

Ended(x) ==
    /\ x.at \notin {"leaving", "out"} => x.outcome = "none"
    /\ x.outcome # "final" => ~x.remembered

Standing(q) == q.summary # NoSummary => q.summary.of = SubSeq(q.loaded, 1, q.first - 1)

(* Tool messages answer the calls of an assistant message, one for one      *)
Paired(ms) ==
    \A i \in 1..Len(ms) :
        /\ ms[i].role = "tool" => \E a \in 1..(i - 1) : i \in Answers(ms, a) /\ ms[a].role = "assistant"
        /\ ms[i].role = "assistant" => Cardinality(Answers(ms, i)) = Len(ms[i].calls)

WellFormed(q) == Paired(q.messages) /\ (Budget > 0 => Cost(q.messages) + q.summary.size <= Budget)

Summarised(x) ==
    /\ x.at = "summarising" => IsMessages(x.request.loaded) /\ WantsSummary(x.request.loaded)
    /\ x.at = "asking" => Standing(x.request) /\ WellFormed(x.request)

Fine(x) == IsRun(x) /\ Progress(x) /\ Ended(x) /\ Summarised(x)

(* A final answer in the session was returned, or the store reported an     *)
(* error for it, and nothing of its run comes after it                      *)
LeftAnswer(x) == x.outcome \in {"final", "unsure"}

Finals ==
    \A r \in Runs : \A i \in 1..Len(history) : FinalOf(r, history[i]) =>
        /\ LeftAnswer(run[r])
        /\ \A j \in (i + 1)..Len(history) : history[j].run # r

IInv ==
    /\ run = [r \in Runs |-> run[r]]
    /\ \A r \in Runs : Fine(run[r])
    /\ IsMessages(history)
    /\ IsCache(cache)
    /\ \A s \in kept : IsSummary(s)
    /\ Finals
-----------------------------------------------------------------------------
(* Sequences *)

LEMMA SequencesAre ==
    ASSUME NEW S, NEW s \in Seq(S)
    PROVE  IsSequence(s)
<1>1. \A i \in 1..Len(s) : s[i] \in Range(s)
    BY DEF Range
<1>2. QED
    BY <1>1 DEF IsSequence

LEMMA ConcatenationIs ==
    ASSUME NEW s, NEW t, IsSequence(s), IsSequence(t)
    PROVE  /\ IsSequence(s \o t) /\ Len(s \o t) = Len(s) + Len(t)
           /\ \A i \in 1..Len(s) : (s \o t)[i] = s[i]
           /\ \A i \in 1..Len(t) : (s \o t)[Len(s) + i] = t[i]
<1>1. PICK A : s \in Seq(A)
    BY DEF IsSequence
<1>2. PICK B : t \in Seq(B)
    BY DEF IsSequence
<1>3. s \in Seq(A \cup B) /\ t \in Seq(A \cup B)
    BY <1>1, <1>2
<1>4. s \o t \in Seq(A \cup B)
    BY <1>3
<1>5. IsSequence(s \o t)
    BY <1>4, SequencesAre
<1>6. QED
    BY <1>3, <1>5

LEMMA PartIs ==
    ASSUME NEW s, IsSequence(s), NEW i \in Nat \ {0}, NEW j \in Int, j <= Len(s)
    PROVE  /\ IsSequence(SubSeq(s, i, j))
           /\ Len(SubSeq(s, i, j)) = IF i <= j THEN j - i + 1 ELSE 0
           /\ \A k \in 1..(j - i + 1) : SubSeq(s, i, j)[k] = s[i + k - 1]
<1>1. PICK A : s \in Seq(A)
    BY DEF IsSequence
<1>2. /\ SubSeq(s, i, j) \in Seq(A)
      /\ Len(SubSeq(s, i, j)) = IF i <= j THEN j - i + 1 ELSE 0
      /\ \A k \in 1..(j - i + 1) : SubSeq(s, i, j)[k] = s[i + k - 1]
    BY <1>1
<1>3. QED
    BY <1>2, SequencesAre

LEMMA SameSequence ==
    ASSUME NEW s, NEW t, IsSequence(s), IsSequence(t), Len(s) = Len(t),
           \A i \in 1..Len(s) : s[i] = t[i]
    PROVE  s = t
<1>1. PICK A : s \in Seq(A)
    BY DEF IsSequence
<1>2. PICK B : t \in Seq(B)
    BY DEF IsSequence
<1>3. QED
    BY <1>1, <1>2
-----------------------------------------------------------------------------
(* Summaries *)

LEMMA OlderIs ==
    ASSUME NEW ms, IsSequence(ms), WantsSummary(ms)
    PROVE  /\ IsSequence(Older(ms)) /\ Len(Older(ms)) = Len(ms) - KeepRecent
           /\ Older(ms) = SubSeq(ms, 1, Len(Older(ms)))
<1>1. Len(ms) \in Nat /\ KeepRecent \in Nat /\ Len(ms) > KeepRecent + 2
    <2>1. PICK A : ms \in Seq(A)
        BY DEF IsSequence
    <2>2. QED
        BY <2>1, ContextAssumption DEF WantsSummary
<1>2. IsSequence(Older(ms)) /\ Len(Older(ms)) = Len(ms) - KeepRecent
    BY <1>1, PartIs DEF Older
<1>3. QED
    BY <1>2 DEF Older

(* What is asked of the model with a summary of the older messages          *)
LEMMA RequestStands ==
    ASSUME NEW ms, IsSequence(ms), NEW summary,
           summary = NoSummary \/ (WantsSummary(ms) /\ summary.of = Older(ms))
    PROVE  IsRequest(Request(ms, summary)) /\ Standing(Request(ms, summary))
<1> DEFINE request == Request(ms, summary)
<1>1. CASE summary # NoSummary /\ Fits(ms, summary)
    <2>1. /\ request.summary = summary /\ request.loaded = ms /\ request.first = Len(Older(ms)) + 1
          /\ IsRequest(request)
        BY <1>1 DEF Request, IsRequest
    <2>2. Len(Older(ms)) \in Nat /\ Older(ms) = SubSeq(ms, 1, Len(Older(ms)))
        <3>1. PICK A : Older(ms) \in Seq(A)
            BY <1>1, OlderIs DEF IsSequence
        <3>2. QED
            BY <1>1, <3>1, OlderIs
    <2>3. request.first - 1 = Len(Older(ms)) /\ summary.of = Older(ms)
        BY <1>1, <2>1, <2>2
    <2>4. QED
        BY <2>1, <2>2, <2>3 DEF Standing
<1>2. CASE ~(summary # NoSummary /\ Fits(ms, summary))
    <2>1. request.summary = NoSummary /\ IsRequest(request)
        BY <1>2 DEF Request, IsRequest
    <2>2. QED
        BY <2>1 DEF Standing
<1>3. QED
    BY <1>1, <1>2

(* Of the summaries of a beginning one is the longest                       *)
LEMMA PredecessorIs ==
    ASSUME NEW older, Len(older) \in Nat, Beginnings(older) # {}, \A s \in kept : IsSequence(s.of)
    PROVE  Predecessor(older) \in Beginnings(older)
<1> DEFINE B == Beginnings(older)
           gaps == {Len(older) - Len(s.of) : s \in B}
<1>1. \A s \in B : Len(s.of) \in Nat /\ Len(older) - Len(s.of) \in Nat
    <2> TAKE s \in B
    <2>1. IsSequence(s.of) /\ Len(s.of) < Len(older)
        BY DEF Beginnings
    <2>2. PICK A : s.of \in Seq(A)
        BY <2>1 DEF IsSequence
    <2>3. QED
        BY <2>1, <2>2
<1>2. gaps \subseteq Nat /\ gaps # {}
    BY <1>1
<1>3. PICK gap \in gaps : \A g \in gaps : <<g, gap>> \notin OpToRel(<, Nat)
    BY <1>2, WFMin, NatLessThanWellFounded, Zenon
<1>4. PICK s \in B : gap = Len(older) - Len(s.of)
    BY <1>3
<1>5. \A q \in B : Len(q.of) <= Len(s.of)
    <2> TAKE q \in B
    <2>1. Len(older) - Len(q.of) \in gaps
        OBVIOUS
    <2> HIDE DEF gaps, B
    <2>2. Len(older) - Len(q.of) \in Nat /\ gap \in Nat /\ ~(Len(older) - Len(q.of) < gap)
        BY <1>2, <1>3, <2>1, Zenon DEF OpToRel
    <2>3. QED
        BY <1>1, <1>4, <2>2
<1>6. Predecessor(older) = CHOOSE p \in B : \A q \in B : Len(q.of) <= Len(p.of)
    BY DEF Predecessor
<1> HIDE DEF B
<1>7. QED
    BY <1>4, <1>5, <1>6 DEF B

LEMMA SummariesAre ==
    ASSUME NEW older, IsSequence(older), \A s \in kept : IsSequence(s.of),
           NEW summary \in Summaries(older)
    PROVE  summary = NoSummary \/ (summary.of = older /\ summary.size \in Nat)
<1> DEFINE before == Predecessor(older)
<1>1. Len(older) \in Nat /\ IsSequence(<< >>) /\ Len(<< >>) = 0
    <2>1. PICK A : older \in Seq(A)
        BY DEF IsSequence
    <2>2. << >> \in Seq({})
        OBVIOUS
    <2>3. IsSequence(<< >>)
        BY <2>2, SequencesAre, Zenon
    <2>4. QED
        BY <2>1, <2>3
<1>2. /\ IsSequence(before.of) /\ Len(before.of) \in Nat /\ Len(before.of) <= Len(older)
      /\ \A i \in 1..Len(before.of) : before.of[i] = older[i]
    <2>1. CASE Beginnings(older) = {}
        <3>1. before.of = << >>
            BY <2>1 DEF Predecessor, NoSummary
        <3>2. QED
            BY <1>1, <3>1
    <2>2. CASE Beginnings(older) # {}
        <3>1. before \in kept /\ Len(before.of) < Len(older) /\ IsPrefix(before.of, older)
            BY <1>1, <2>2, PredecessorIs DEF Beginnings
        <3>2. IsSequence(before.of)
            BY <3>1
        <3> DEFINE s == before.of
        <3>3. IsSequence(s) /\ Len(s) < Len(older) /\ SubSeq(s, 1, Len(s)) = SubSeq(older, 1, Len(s))
            BY <3>1, <3>2 DEF IsPrefix
        <3> HIDE DEF s
        <3>4. PICK A : s \in Seq(A)
            BY <3>3 DEF IsSequence
        <3>5. Len(s) \in Nat /\ \A i \in 1..Len(s) : s[i] = SubSeq(s, 1, Len(s))[i]
            BY <3>4
        <3>6. \A i \in 1..Len(s) : SubSeq(older, 1, Len(s))[i] = older[i]
            <4>1. PICK C : older \in Seq(C)
                BY DEF IsSequence
            <4>2. QED
                BY <1>1, <3>3, <3>5, <4>1
        <3>7. QED
            BY <1>1, <3>3, <3>5, <3>6 DEF s
    <2>3. QED
        BY <2>1, <2>2
<1>3. ASSUME NEW n \in SummarySizes, summary = [of |-> before.of \o From(older, Len(before.of) + 1), size |-> n]
      PROVE  summary.of = older
    <2> DEFINE s == before.of
               t == From(older, Len(s) + 1)
    <2>1. summary.of = s \o t
        BY <1>3
    <2>2. IsSequence(s) /\ Len(s) \in Nat /\ Len(s) <= Len(older) /\ \A i \in 1..Len(s) : s[i] = older[i]
        BY <1>2
    <2> HIDE DEF s
    <2>3. /\ IsSequence(t) /\ Len(t) = Len(older) - Len(s)
          /\ \A k \in 1..Len(t) : t[k] = older[Len(s) + k]
        <3>1. Len(s) + 1 \in Nat \ {0} /\ Len(older) \in Int /\ Len(older) <= Len(older)
            BY <1>1, <2>2
        <3>2. /\ IsSequence(t) /\ Len(t) = IF Len(s) + 1 <= Len(older) THEN Len(older) - (Len(s) + 1) + 1 ELSE 0
              /\ \A k \in 1..(Len(older) - (Len(s) + 1) + 1) : t[k] = older[Len(s) + 1 + k - 1]
            BY <3>1, PartIs DEF From
        <3> HIDE DEF t
        <3>3. Len(t) = Len(older) - Len(s)
            BY <1>1, <2>2, <3>2
        <3>4. \A k \in 1..Len(t) : t[k] = older[Len(s) + k]
            <4> TAKE k \in 1..Len(t)
            <4>1. k \in 1..(Len(older) - (Len(s) + 1) + 1) /\ Len(s) + 1 + k - 1 = Len(s) + k
                BY <1>1, <2>2, <3>3
            <4>2. QED
                BY <3>2, <4>1
        <3>5. QED
            BY <3>2, <3>3, <3>4
    <2> HIDE DEF t
    <2>4. /\ IsSequence(s \o t) /\ Len(s \o t) = Len(older)
          /\ \A i \in 1..Len(s) : (s \o t)[i] = s[i]
          /\ \A i \in 1..Len(t) : (s \o t)[Len(s) + i] = t[i]
        BY <1>1, <2>2, <2>3, ConcatenationIs
    <2>5. \A i \in 1..Len(s \o t) : (s \o t)[i] = older[i]
        <3> TAKE i \in 1..Len(s \o t)
        <3>1. CASE i <= Len(s)
            BY <1>1, <2>2, <2>4, <3>1
        <3>2. CASE i > Len(s)
            <4>1. i - Len(s) \in 1..Len(t) /\ Len(s) + (i - Len(s)) = i
                BY <1>1, <2>2, <2>3, <2>4, <3>2
            <4>2. QED
                BY <2>3, <2>4, <4>1
        <3>3. QED
            BY <1>1, <2>2, <2>4, <3>1, <3>2
    <2>6. QED
        BY <2>1, <2>4, <2>5, SameSequence
<1>4. CASE summary = NoSummary
    BY <1>4
<1>5. CASE summary # NoSummary
    <2>1. PICK n \in SummarySizes : summary = [of |-> before.of \o From(older, Len(before.of) + 1), size |-> n]
        BY <1>5 DEF Summaries
    <2>2. summary.of = older
        BY <1>3, <2>1
    <2>3. summary.size \in Nat
        BY <2>1, ContextAssumption
    <2>4. QED
        BY <2>2, <2>3
<1>6. QED
    BY <1>4, <1>5
-----------------------------------------------------------------------------
(* Induction up to a bound, over a set of the numbers a fact holds for, and *)
(* what a recursion over them defines                                       *)
LEMMA UpTo ==
    ASSUME NEW N \in Nat, NEW S, 0 \in S, \A n \in 1..N : n - 1 \in S => n \in S
    PROVE  \A n \in 0..N : n \in S
<1> DEFINE M == {n \in 0..N : n \notin S}
<1> SUFFICES ASSUME M # {} PROVE FALSE
    OBVIOUS
<1>1. M \subseteq Nat
    OBVIOUS
<1>2. PICK n \in M : \A m \in M : <<m, n>> \notin OpToRel(<, Nat)
    BY <1>1, WFMin, NatLessThanWellFounded, Zenon
<1>3. n \in 0..N /\ n \notin S /\ n # 0
    OBVIOUS
<1>4. n - 1 \in S
    <2>1. n - 1 \in Nat /\ n \in Nat /\ n - 1 < n
        BY <1>3
    <2>2. <<n - 1, n>> \in OpToRel(<, Nat)
        BY <2>1 DEF OpToRel
    <2>3. n - 1 \notin M
        BY <1>2, <2>2
    <2>4. QED
        BY <1>3, <2>3
<1>5. QED
    BY <1>3, <1>4

Follows(f, start, step, N) == f[0] = start /\ \A n \in 1..N : f[n] = step[n][f[n - 1]]

LEMMA RecursionDefines ==
    ASSUME NEW N \in Nat, NEW V, NEW start \in V, NEW step \in [1..N -> [V -> V]]
    PROVE  \E f \in [0..N -> V] : Follows(f, start, step, N)
<1> DEFINE S == {n \in 0..N : \E f \in [0..n -> V] : Follows(f, start, step, n)}
<1>1. 0 \in S
    <2> DEFINE f == [m \in 0..0 |-> start]
    <2>1. f \in [0..0 -> V] /\ f[0] = start /\ \A m \in 1..0 : f[m] = step[m][f[m - 1]]
        OBVIOUS
    <2>2. \E g \in [0..0 -> V] : Follows(g, start, step, 0)
        BY <2>1 DEF Follows
    <2>3. QED
        BY <2>2
<1>2. \A n \in 1..N : n - 1 \in S => n \in S
    <2> SUFFICES ASSUME NEW n \in 1..N, n - 1 \in S PROVE n \in S
        OBVIOUS
    <2>1. PICK f \in [0..(n - 1) -> V] : Follows(f, start, step, n - 1)
        OBVIOUS
    <2> DEFINE g == [m \in 0..n |-> IF m = n THEN step[n][f[n - 1]] ELSE f[m]]
    <2>2. f[n - 1] \in V /\ step[n][f[n - 1]] \in V
        OBVIOUS
    <2>3. g \in [0..n -> V]
        BY <2>2
    <2>4. g[0] = start /\ \A m \in 1..n : g[m] = step[m][g[m - 1]]
        <3>1. g[0] = start
            BY <2>1 DEF Follows
        <3>2. ASSUME NEW m \in 1..n PROVE g[m] = step[m][g[m - 1]]
            <4>1. g[m - 1] = f[m - 1]
                OBVIOUS
            <4>2. CASE m = n
                BY <4>1, <4>2
            <4>3. CASE m # n
                <5>1. m \in 1..(n - 1)
                    BY <4>3
                <5>2. f[m] = step[m][f[m - 1]]
                    BY <2>1, <5>1 DEF Follows
                <5>3. g[m] = f[m]
                    BY <4>3
                <5>4. QED
                    BY <4>1, <5>2, <5>3
            <4>4. QED
                BY <4>2, <4>3
        <3>3. QED
            BY <3>1, <3>2
    <2> HIDE DEF g
    <2>5. Follows(g, start, step, n)
        BY <2>4 DEF Follows
    <2>6. QED
        BY <2>3, <2>5
<1>3. N \in S
    <2> HIDE DEF S
    <2>1. \A n \in 0..N : n \in S
        BY <1>1, <1>2, UpTo, Zenon
    <2>2. QED
        BY <2>1
<1>4. QED
    BY <1>3
-----------------------------------------------------------------------------
(* What messages cost *)

LEMMA MessagesAre ==
    ASSUME NEW ms, IsMessages(ms)
    PROVE  /\ Len(ms) \in Nat /\ ms = [i \in 1..Len(ms) |-> ms[i]]
           /\ \A i \in 1..Len(ms) : Len(ms[i].calls) \in Nat /\ Tokens(ms[i]) \in Nat
<1>1. PICK A : ms \in Seq(A)
    BY DEF IsMessages, IsSequence
<1>2. ASSUME NEW i \in 1..Len(ms) PROVE Len(ms[i].calls) \in Nat
    <2>1. PICK C : ms[i].calls \in Seq(C)
        BY DEF IsMessages, IsSequence
    <2>2. QED
        BY <2>1
<1>3. QED
    BY <1>1, <1>2 DEF Tokens

LEMMA PartOfMessages ==
    ASSUME NEW ms, IsMessages(ms), NEW i \in 1..(Len(ms) + 1)
    PROVE  /\ IsMessages(From(ms, i)) /\ Len(From(ms, i)) = Len(ms) - i + 1
           /\ \A k \in 1..Len(From(ms, i)) : From(ms, i)[k] = ms[i + k - 1]
<1>1. Len(ms) \in Nat /\ IsSequence(ms) /\ i \in Nat \ {0}
    BY MessagesAre DEF IsMessages
<1>2. /\ IsSequence(From(ms, i)) /\ Len(From(ms, i)) = IF i <= Len(ms) THEN Len(ms) - i + 1 ELSE 0
      /\ \A k \in 1..(Len(ms) - i + 1) : From(ms, i)[k] = ms[i + k - 1]
    BY <1>1, PartIs DEF From
<1>3. Len(From(ms, i)) = Len(ms) - i + 1
    BY <1>1, <1>2
<1>4. ASSUME NEW k \in 1..Len(From(ms, i)) PROVE IsSequence(From(ms, i)[k].calls)
    <2>1. From(ms, i)[k] = ms[i + k - 1] /\ i + k - 1 \in 1..Len(ms)
        BY <1>1, <1>2, <1>3
    <2>2. QED
        BY <2>1 DEF IsMessages
<1>5. QED
    BY <1>2, <1>3, <1>4 DEF IsMessages

CostsOf(ms) == CHOOSE f : f = [n \in 0..Len(ms) |-> IF n = 0 THEN 0 ELSE f[n - 1] + Tokens(ms[n])]

LEMMA CostsAre ==
    ASSUME NEW ms, IsMessages(ms)
    PROVE  /\ Cost(ms) = CostsOf(ms)[Len(ms)] /\ CostsOf(ms)[0] = 0
           /\ \A n \in 0..Len(ms) : CostsOf(ms)[n] \in Nat
           /\ \A n \in 1..Len(ms) : CostsOf(ms)[n] = CostsOf(ms)[n - 1] + Tokens(ms[n])
<1> DEFINE N == Len(ms)
           c == CostsOf(ms)
<1>1. N \in Nat /\ \A n \in 1..N : Tokens(ms[n]) \in Nat
    BY MessagesAre
<1>2. \E f : f = [n \in 0..N |-> IF n = 0 THEN 0 ELSE f[n - 1] + Tokens(ms[n])]
    <2> DEFINE step == [n \in 1..N |-> [v \in Nat |-> v + Tokens(ms[n])]]
    <2>1. step \in [1..N -> [Nat -> Nat]]
        BY <1>1
    <2> HIDE DEF step, N
    <2>2. PICK f \in [0..N -> Nat] : Follows(f, 0, step, N)
        <3>1. 0 \in Nat /\ N \in Nat
            BY <1>1
        <3>2. QED
            BY <2>1, <3>1, RecursionDefines, Zenon
    <2>3. ASSUME NEW n \in 0..N PROVE f[n] = IF n = 0 THEN 0 ELSE f[n - 1] + Tokens(ms[n])
        <3>1. CASE n = 0
            BY <2>2, <3>1 DEF Follows
        <3>2. CASE n # 0
            <4>1. n \in 1..N /\ f[n - 1] \in Nat
                BY <1>1, <3>2
            <4>2. step[n][f[n - 1]] = f[n - 1] + Tokens(ms[n])
                BY <4>1 DEF step
            <4>3. QED
                BY <2>2, <3>2, <4>1, <4>2 DEF Follows
        <3>3. QED
            BY <3>1, <3>2
    <2>4. f = [n \in 0..N |-> IF n = 0 THEN 0 ELSE f[n - 1] + Tokens(ms[n])]
        BY <2>3
    <2>5. QED
        BY <2>4
<1>3. c = [n \in 0..N |-> IF n = 0 THEN 0 ELSE c[n - 1] + Tokens(ms[n])]
    BY <1>2 DEF CostsOf
<1>4. Cost(ms) = c[N]
    BY DEF Cost, CostsOf
<1> HIDE DEF c, N
<1>5. c[0] = 0 /\ \A n \in 1..N : c[n] = c[n - 1] + Tokens(ms[n])
    <2>1. c[0] = 0
        BY <1>1, <1>3
    <2>2. ASSUME NEW n \in 1..N PROVE c[n] = c[n - 1] + Tokens(ms[n])
        <3>1. n \in 0..N /\ n # 0
            BY <1>1
        <3>2. QED
            BY <1>3, <3>1
    <2>3. QED
        BY <2>1, <2>2
<1>6. \A n \in 0..N : c[n] \in Nat
    <2> DEFINE S == {n \in 0..N : c[n] \in Nat}
    <2>1. 0 \in S
        BY <1>1, <1>5
    <2>2. \A n \in 1..N : n - 1 \in S => n \in S
        BY <1>1, <1>5
    <2> HIDE DEF S
    <2>3. \A n \in 0..N : n \in S
        BY <1>1, <2>1, <2>2, UpTo, Zenon
    <2>4. QED
        BY <2>3 DEF S
<1>7. QED
    BY <1>4, <1>5, <1>6 DEF c, N

(* The messages picked from a sequence, in its order, cost no more than it  *)
Rising(is) == \A j, k \in 1..Len(is) : j < k => is[j] < is[k]

LEMMA PickedMessages ==
    ASSUME NEW ms, IsMessages(ms), NEW is \in Seq(1..Len(ms)), NEW out, out = [n \in 1..Len(is) |-> ms[is[n]]]
    PROVE  /\ IsMessages(out) /\ Len(out) = Len(is)
           /\ \A n \in 1..Len(is) : is[n] \in 1..Len(ms) /\ out[n] = ms[is[n]]
<1>1. PICK A : ms \in Seq(A)
    BY DEF IsMessages, IsSequence
<1>2. Len(is) \in Nat /\ \A n \in 1..Len(is) : is[n] \in 1..Len(ms) /\ out[n] = ms[is[n]] /\ out[n] \in A
    BY <1>1
<1>3. out \in Seq(A) /\ Len(out) = Len(is)
    BY <1>2
<1>4. QED
    BY <1>2, <1>3, SequencesAre DEF IsMessages

LEMMA PickedCostNoMore ==
    ASSUME NEW ms, IsMessages(ms), NEW is \in Seq(1..Len(ms)), Rising(is),
           NEW out, out = [n \in 1..Len(is) |-> ms[is[n]]]
    PROVE  Cost(out) <= Cost(ms) /\ Cost(out) \in Nat
<1> DEFINE c == CostsOf(ms)
           d == CostsOf(out)
<1>1. /\ IsMessages(out) /\ Len(out) = Len(is) /\ Len(is) \in Nat /\ Len(ms) \in Nat
      /\ \A n \in 1..Len(is) : is[n] \in 1..Len(ms) /\ out[n] = ms[is[n]]
    BY PickedMessages, MessagesAre
<1>2. /\ Cost(ms) = c[Len(ms)] /\ c[0] = 0
      /\ \A n \in 0..Len(ms) : c[n] \in Nat
      /\ \A n \in 1..Len(ms) : Tokens(ms[n]) \in Nat /\ c[n] = c[n - 1] + Tokens(ms[n])
    BY CostsAre, MessagesAre
<1>3. /\ Cost(out) = d[Len(is)] /\ d[0] = 0
      /\ \A n \in 0..Len(is) : d[n] \in Nat
      /\ \A n \in 1..Len(is) : d[n] = d[n - 1] + Tokens(ms[is[n]])
    <2>1. /\ Cost(out) = d[Len(out)] /\ d[0] = 0
          /\ \A n \in 0..Len(out) : d[n] \in Nat
          /\ \A n \in 1..Len(out) : d[n] = d[n - 1] + Tokens(out[n])
        BY <1>1, CostsAre
    <2> HIDE DEF d
    <2>2. QED
        BY <1>1, <2>1
<1> HIDE DEF c, d
<1>4. \A n \in 0..Len(ms) : \A m \in 0..n : c[m] <= c[n]
    <2> DEFINE S == {n \in 0..Len(ms) : \A m \in 0..n : c[m] <= c[n]}
    <2>1. 0 \in S
        BY <1>1, <1>2
    <2>2. ASSUME NEW n \in 1..Len(ms), n - 1 \in S PROVE n \in S
        <3>1. c[n - 1] \in Nat /\ c[n] \in Nat /\ c[n - 1] <= c[n]
            BY <1>1, <1>2
        <3>2. ASSUME NEW m \in 0..n PROVE c[m] <= c[n]
            <4>1. c[m] \in Nat
                BY <1>1, <1>2
            <4>2. CASE m = n
                BY <4>1, <4>2
            <4>3. CASE m # n
                <5>1. m \in 0..(n - 1) /\ c[m] <= c[n - 1]
                    BY <2>2, <4>3
                <5>2. QED
                    BY <3>1, <4>1, <5>1
            <4>4. QED
                BY <4>2, <4>3
        <3>3. QED
            BY <3>2
    <2> HIDE DEF S
    <2>3. \A n \in 1..Len(ms) : n - 1 \in S => n \in S
        BY <2>2
    <2>4. \A n \in 0..Len(ms) : n \in S
        BY <1>1, <2>1, <2>3, UpTo, Zenon
    <2>5. QED
        BY <2>4 DEF S
<1>5. \A n \in 0..Len(is) : d[n] <= IF n = 0 THEN 0 ELSE c[is[n]]
    <2> DEFINE S == {n \in 0..Len(is) : d[n] <= IF n = 0 THEN 0 ELSE c[is[n]]}
    <2>1. 0 \in S
        BY <1>1, <1>3
    <2>2. ASSUME NEW n \in 1..Len(is), n - 1 \in S PROVE n \in S
        <3>1. is[n] \in 1..Len(ms) /\ is[n] - 1 \in 0..Len(ms) /\ Tokens(ms[is[n]]) \in Nat
            BY <1>1, <1>2
        <3>2. d[n - 1] <= c[is[n] - 1] /\ d[n - 1] \in Nat
            <4>1. d[n - 1] \in Nat /\ c[is[n] - 1] \in Nat
                <5>1. n - 1 \in 0..Len(is)
                    BY <1>1
                <5>2. QED
                    BY <1>2, <1>3, <3>1, <5>1
            <4>2. CASE n = 1
                BY <1>3, <4>1, <4>2
            <4>3. CASE n # 1
                <5>1. n - 1 \in 1..Len(is) /\ n - 1 < n /\ d[n - 1] <= c[is[n - 1]]
                    BY <2>2, <4>3
                <5>2. is[n - 1] < is[n] /\ is[n - 1] \in 1..Len(ms)
                    BY <1>1, <5>1 DEF Rising
                <5>3. is[n - 1] \in 0..(is[n] - 1)
                    BY <3>1, <5>2, SMTT(30)
                <5>4. c[is[n - 1]] <= c[is[n] - 1] /\ c[is[n - 1]] \in Nat
                    <6>1. is[n - 1] \in 0..Len(ms)
                        BY <1>1, <5>2
                    <6>2. QED
                        BY <1>2, <1>4, <3>1, <5>3, <6>1
                <5>5. QED
                    BY <4>1, <5>1, <5>4, SMTT(30)
            <4>4. QED
                BY <4>2, <4>3
        <3>3. d[n] = d[n - 1] + Tokens(ms[is[n]]) /\ c[is[n]] = c[is[n] - 1] + Tokens(ms[is[n]])
            BY <1>2, <1>3, <3>1
        <3>4. c[is[n] - 1] \in Nat
            BY <1>2, <3>1
        <3>5. QED
            BY <3>1, <3>2, <3>3, <3>4, SMTT(30)
    <2> HIDE DEF S
    <2>3. \A n \in 1..Len(is) : n - 1 \in S => n \in S
        BY <2>2
    <2>4. \A n \in 0..Len(is) : n \in S
        BY <1>1, <2>1, <2>3, UpTo, Zenon
    <2>5. QED
        BY <2>4 DEF S
<1>6. CASE Len(is) = 0
    <2>1. c[Len(ms)] \in Nat
        BY <1>1, <1>2
    <2>2. QED
        BY <1>2, <1>3, <1>6, <2>1
<1>7. CASE Len(is) # 0
    <2>1. Len(is) \in 1..Len(is) /\ Len(is) \in 0..Len(is) /\ is[Len(is)] \in 1..Len(ms)
        BY <1>1, <1>7
    <2>2. d[Len(is)] <= c[is[Len(is)]] /\ d[Len(is)] \in Nat
        BY <1>3, <1>5, <1>7, <2>1
    <2>3. Len(ms) \in 0..Len(ms) /\ is[Len(is)] \in 0..Len(ms)
        BY <1>1, <2>1
    <2>4. c[is[Len(is)]] <= c[Len(ms)] /\ c[is[Len(is)]] \in Nat /\ c[Len(ms)] \in Nat
        BY <1>2, <1>4, <2>3
    <2>5. QED
        BY <1>2, <1>3, <2>2, <2>4
<1>8. QED
    BY <1>6, <1>7
-----------------------------------------------------------------------------
(* The messages of a request: rising indices of exactly those to be sent    *)

ChosenUpTo(ms, is, n) ==
    /\ is \in Seq(1..Len(ms)) /\ Rising(is)
    /\ \A k \in 1..Len(is) : is[k] <= n
    /\ \A i \in 1..n : Sent(ms, i) <=> \E k \in 1..Len(is) : is[k] = i

SentsOf(ms) ==
    CHOOSE f : f = [n \in 0..Len(ms) |->
        IF n = 0 THEN << >> ELSE IF Sent(ms, n) THEN Append(f[n - 1], n) ELSE f[n - 1]]

LEMMA SentIndicesAre ==
    ASSUME NEW ms, IsMessages(ms)
    PROVE  ChosenUpTo(ms, SentIndices(ms), Len(ms))
<1> DEFINE N == Len(ms)
           g == SentsOf(ms)
           V == Seq(Nat)
<1>1. N \in Nat
    BY MessagesAre
<1>2. \E f : f = [n \in 0..N |->
           IF n = 0 THEN << >> ELSE IF Sent(ms, n) THEN Append(f[n - 1], n) ELSE f[n - 1]]
    <2> DEFINE step == [n \in 1..N |-> [v \in V |-> IF Sent(ms, n) THEN Append(v, n) ELSE v]]
    <2>1. step \in [1..N -> [V -> V]]
        <3>1. ASSUME NEW n \in 1..N, NEW v \in V PROVE (IF Sent(ms, n) THEN Append(v, n) ELSE v) \in V
            <4>1. n \in Nat
                BY <1>1
            <4>2. Append(v, n) \in V
                BY <4>1
            <4>3. QED
                BY <4>2
        <3>2. QED
            BY <3>1
    <2>2. << >> \in V
        OBVIOUS
    <2> HIDE DEF step, N, V
    <2>3. PICK f \in [0..N -> V] : Follows(f, << >>, step, N)
        BY <1>1, <2>1, <2>2, RecursionDefines, Zenon
    <2>4. ASSUME NEW n \in 0..N
          PROVE  f[n] = IF n = 0 THEN << >> ELSE IF Sent(ms, n) THEN Append(f[n - 1], n) ELSE f[n - 1]
        <3>1. CASE n = 0
            BY <2>3, <3>1 DEF Follows
        <3>2. CASE n # 0
            <4>1. n \in 1..N /\ n - 1 \in 0..N
                BY <1>1, <3>2
            <4>2. f[n - 1] \in V
                BY <4>1
            <4>3. step[n][f[n - 1]] = IF Sent(ms, n) THEN Append(f[n - 1], n) ELSE f[n - 1]
                BY <4>1, <4>2 DEF step
            <4>4. f[n] = step[n][f[n - 1]]
                BY <2>3, <4>1 DEF Follows
            <4>5. QED
                BY <3>2, <4>3, <4>4
        <3>3. QED
            BY <3>1, <3>2
    <2>5. f = [n \in 0..N |->
              IF n = 0 THEN << >> ELSE IF Sent(ms, n) THEN Append(f[n - 1], n) ELSE f[n - 1]]
        BY <2>4
    <2>6. QED
        BY <2>5
<1>3. g = [n \in 0..N |-> IF n = 0 THEN << >> ELSE IF Sent(ms, n) THEN Append(g[n - 1], n) ELSE g[n - 1]]
    BY <1>2 DEF SentsOf
<1>4. SentIndices(ms) = g[N]
    BY DEF SentIndices, SentsOf
<1> DEFINE S == {n \in 0..N : ChosenUpTo(ms, g[n], n)}
<1> HIDE DEF g
<1>5. 0 \in S
    <2>1. g[0] = << >>
        BY <1>1, <1>3
    <2>2. ChosenUpTo(ms, << >>, 0)
        BY DEF ChosenUpTo, Rising
    <2>3. QED
        BY <1>1, <2>1, <2>2
<1>6. ASSUME NEW n \in 1..N, n - 1 \in S PROVE n \in S
    <2> DEFINE is == g[n - 1]
    <2>1. ChosenUpTo(ms, is, n - 1)
        BY <1>6
    <2>2. g[n] = IF Sent(ms, n) THEN Append(is, n) ELSE is
        <3>1. n \in 0..N /\ n # 0
            BY <1>1
        <3>2. QED
            BY <1>3, <3>1
    <2> HIDE DEF is
    <2>3. /\ is \in Seq(1..Len(ms)) /\ Len(is) \in Nat /\ Rising(is)
          /\ \A k \in 1..Len(is) : is[k] \in 1..Len(ms) /\ is[k] <= n - 1
          /\ \A i \in 1..(n - 1) : Sent(ms, i) <=> \E k \in 1..Len(is) : is[k] = i
        BY <2>1 DEF ChosenUpTo
    <2>4. CASE ~Sent(ms, n)
        <3>1. \A k \in 1..Len(is) : is[k] <= n /\ is[k] # n
            BY <1>1, <2>3
        <3>2. ASSUME NEW i \in 1..n PROVE Sent(ms, i) <=> \E k \in 1..Len(is) : is[k] = i
            <4>1. CASE i = n
                BY <2>4, <3>1, <4>1
            <4>2. CASE i # n
                <5>1. i \in 1..(n - 1)
                    BY <1>1, <4>2
                <5>2. QED
                    BY <2>3, <5>1
            <4>3. QED
                BY <4>1, <4>2
        <3>3. ChosenUpTo(ms, is, n)
            BY <2>3, <3>1, <3>2 DEF ChosenUpTo
        <3>4. QED
            BY <1>1, <2>2, <2>4, <3>3
    <2>5. CASE Sent(ms, n)
        <3> DEFINE t == Append(is, n)
        <3>1. /\ t \in Seq(1..Len(ms)) /\ Len(t) = Len(is) + 1 /\ t[Len(t)] = n
              /\ \A k \in 1..Len(is) : t[k] = is[k]
            <4>1. n \in 1..Len(ms)
                OBVIOUS
            <4>2. QED
                BY <2>3, <4>1
        <3> HIDE DEF t
        <3>2. Rising(t)
            <4> SUFFICES ASSUME NEW j \in 1..Len(t), NEW k \in 1..Len(t), j < k PROVE t[j] < t[k]
                BY DEF Rising
            <4>1. j \in 1..Len(is) /\ t[j] = is[j]
                BY <2>3, <3>1, SMTT(30)
            <4>2. CASE k = Len(t)
                BY <1>1, <2>3, <3>1, <4>1, <4>2
            <4>3. CASE k # Len(t)
                <5>1. k \in 1..Len(is)
                    <6>1. Len(t) = Len(is) + 1 /\ Len(is) \in Nat
                        BY <2>3, <3>1
                    <6>2. QED
                        BY <4>3, <6>1
                <5>2. t[k] = is[k]
                    BY <3>1, <5>1
                <5>3. QED
                    BY <2>3, <4>1, <5>1, <5>2 DEF Rising
            <4>4. QED
                BY <4>2, <4>3
        <3>3. \A k \in 1..Len(t) : t[k] <= n
            <4> TAKE k \in 1..Len(t)
            <4>1. CASE k = Len(t)
                BY <1>1, <3>1, <4>1
            <4>2. CASE k # Len(t)
                <5>1. k \in 1..Len(is)
                    BY <2>3, <3>1, <4>2
                <5>2. QED
                    BY <1>1, <2>3, <3>1, <5>1
            <4>3. QED
                BY <4>1, <4>2
        <3>4. ASSUME NEW i \in 1..n PROVE Sent(ms, i) <=> \E k \in 1..Len(t) : t[k] = i
            <4>1. CASE i = n
                <5>1. Len(t) \in 1..Len(t)
                    BY <2>3, <3>1
                <5>2. QED
                    BY <2>5, <3>1, <4>1, <5>1
            <4>2. CASE i # n
                <5>1. i \in 1..(n - 1)
                    BY <1>1, <4>2
                <5>2. ASSUME NEW k \in 1..Len(t), t[k] = i PROVE \E m \in 1..Len(is) : is[m] = i
                    <6>1. k \in 1..Len(is)
                        BY <2>3, <3>1, <4>2, <5>2
                    <6>2. QED
                        BY <3>1, <5>2, <6>1
                <5>3. ASSUME NEW m \in 1..Len(is), is[m] = i PROVE \E k \in 1..Len(t) : t[k] = i
                    <6>1. m \in 1..Len(t)
                        BY <2>3, <3>1
                    <6>2. QED
                        BY <3>1, <5>3, <6>1
                <5>4. QED
                    BY <2>3, <5>1, <5>2, <5>3
            <4>3. QED
                BY <4>1, <4>2
        <3>5. ChosenUpTo(ms, t, n)
            BY <3>1, <3>2, <3>3, <3>4 DEF ChosenUpTo
        <3>6. t = g[n]
            BY <2>2, <2>5 DEF t
        <3>7. n \in 0..N
            BY <1>1
        <3>8. QED
            BY <3>5, <3>6, <3>7, Zenon
    <2>6. QED
        BY <2>4, <2>5
<1> HIDE DEF S, N
<1>7. \A n \in 0..N : n \in S
    <2>1. \A n \in 1..N : n - 1 \in S => n \in S
        BY <1>6
    <2>2. QED
        BY <1>1, <1>5, <2>1, UpTo, Zenon
<1>8. N \in S
    BY <1>1, <1>7
<1>9. QED
    BY <1>4, <1>8 DEF S, N
-----------------------------------------------------------------------------
(* Tool messages and the calls they answer                                  *)

Assistant(ms, a) == a \in 1..Len(ms) /\ ms[a].role = "assistant"

LEMMA AnswersAre ==
    ASSUME NEW ms, NEW a, NEW j \in Answers(ms, a)
    PROVE  j \in GroupOf(ms, a) /\ ms[j].call \in Range(ms[a].calls)
    BY DEF Answers

LEMMA GroupsAre ==
    ASSUME NEW ms, Len(ms) \in Nat, NEW a \in Nat, NEW j
    PROVE  j \in GroupOf(ms, a)
              <=> j \in 1..Len(ms) /\ a < j /\ \A k \in (a + 1)..j : ms[k].role = "tool"
    BY DEF GroupOf

(* A tool message that is sent answers a complete group                     *)
LEMMA SentToolAnswers ==
    ASSUME NEW ms, IsMessages(ms), NEW i \in 1..Len(ms), Sent(ms, i), ms[i].role = "tool"
    PROVE  \E a \in 1..(i - 1) : /\ Assistant(ms, a) /\ CompleteGroup(ms, a) /\ Sent(ms, a)
                                 /\ i \in Answers(ms, a)
<1>1. PICK a \in 1..(i - 1) : ms[a].role = "assistant" /\ CompleteGroup(ms, a) /\ i \in Answers(ms, a)
    BY DEF Sent
<1>2. Sent(ms, a)
    BY <1>1 DEF Sent
<1>3. a \in 1..Len(ms)
    BY MessagesAre
<1>4. QED
    BY <1>1, <1>2, <1>3 DEF Assistant

(* Which messages of a request follow an assistant message whose group is   *)
(* complete: the ones that answer it, and no others                         *)
LEMMA AnswersArePicked ==
    ASSUME NEW ms, IsMessages(ms), NEW is, ChosenUpTo(ms, is, Len(ms)),
           NEW out, out = [k \in 1..Len(is) |-> ms[is[k]]],
           NEW p \in 1..Len(is), Assistant(ms, is[p]), CompleteGroup(ms, is[p])
    PROVE  \A k \in 1..Len(is) : k \in Answers(out, p) <=> is[k] \in Answers(ms, is[p])
<1> DEFINE a == is[p]
<1>1. /\ Len(ms) \in Nat /\ is \in Seq(1..Len(ms)) /\ Len(is) \in Nat /\ Rising(is)
      /\ \A i \in 1..Len(ms) : Sent(ms, i) <=> \E k \in 1..Len(is) : is[k] = i
    BY MessagesAre DEF ChosenUpTo
<1>2. /\ IsMessages(out) /\ Len(out) = Len(is)
      /\ \A k \in 1..Len(is) : is[k] \in 1..Len(ms) /\ out[k] = ms[is[k]]
    BY <1>1, PickedMessages
<1>3. \A k, l \in 1..Len(is) : (k < l <=> is[k] < is[l])
    <2> TAKE k, l \in 1..Len(is)
    <2>1. is[k] \in Nat /\ is[l] \in Nat /\ (k < l => is[k] < is[l]) /\ (l < k => is[l] < is[k])
        BY <1>1, <1>2 DEF Rising
    <2>2. k \in Nat /\ l \in Nat /\ (k = l => is[k] = is[l])
        BY <1>1
    <2>3. QED
        BY <2>1, <2>2
<1>4. a \in 1..Len(ms) /\ ms[a].role = "assistant" /\ out[p] = ms[a]
    BY <1>2 DEF Assistant
<1> HIDE DEF a
<1>5. ASSUME NEW k \in 1..Len(is), is[k] \in Answers(ms, a) PROVE k \in GroupOf(out, p)
    <2>1. is[k] \in GroupOf(ms, a) /\ is[k] \in 1..Len(ms)
        BY <1>2, <1>5, AnswersAre
    <2>2. a < is[k] /\ \A j \in (a + 1)..is[k] : ms[j].role = "tool"
        BY <1>1, <1>4, <2>1, GroupsAre
    <2>3. p < k
        BY <1>3, <2>2 DEF a
    <2>4. ASSUME NEW l \in (p + 1)..k PROVE out[l].role = "tool"
        <3>1. l \in 1..Len(is) /\ p < l /\ (l = k \/ l < k)
            BY <1>1
        <3>2. is[l] \in 1..Len(ms) /\ out[l] = ms[is[l]] /\ a < is[l] /\ (l = k \/ is[l] < is[k])
            BY <1>2, <1>3, <3>1 DEF a
        <3>3. is[l] \in (a + 1)..is[k]
            BY <1>4, <2>1, <3>2
        <3>4. QED
            BY <2>2, <3>2, <3>3
    <2>5. p \in Nat /\ k \in 1..Len(out) /\ Len(out) \in Nat
        BY <1>1, <1>2
    <2>6. QED
        BY <2>3, <2>4, <2>5, GroupsAre
<1>6. ASSUME NEW k \in GroupOf(out, p) PROVE k \in 1..Len(is) /\ is[k] \in Answers(ms, a)
    <2>1. k \in 1..Len(is) /\ p < k /\ \A l \in (p + 1)..k : out[l].role = "tool"
        BY <1>1, <1>2, GroupsAre
    <2>2. is[k] \in 1..Len(ms) /\ ms[is[k]].role = "tool" /\ Sent(ms, is[k])
        <3>1. k \in (p + 1)..k
            BY <1>1, <2>1
        <3>2. is[k] \in 1..Len(ms) /\ out[k] = ms[is[k]] /\ out[k].role = "tool"
            BY <1>2, <2>1, <3>1
        <3>3. QED
            BY <1>1, <2>1, <3>2
    <2>3. PICK b \in 1..(is[k] - 1) : /\ Assistant(ms, b) /\ CompleteGroup(ms, b) /\ Sent(ms, b)
                                      /\ is[k] \in Answers(ms, b)
        BY <2>2, SentToolAnswers
    <2>4. b \in 1..Len(ms) /\ b < is[k] /\ ms[b].role = "assistant"
        BY <2>2, <2>3 DEF Assistant
    <2>5. PICK q \in 1..Len(is) : is[q] = b
        BY <1>1, <2>3, <2>4
    <2>6. is[k] \in GroupOf(ms, b)
        BY <2>3, AnswersAre
    <2>7. \A j \in (b + 1)..is[k] : ms[j].role = "tool"
        <3>1. b \in Nat
            BY <2>4
        <3>2. QED
            BY <1>1, <2>6, <3>1, GroupsAre
    <2>8. a < is[k]
        BY <1>3, <2>1 DEF a
    <2>9. ~(b < a)
        <3>1. b < a => a \in (b + 1)..is[k]
            BY <1>4, <2>2, <2>4, <2>8
        <3>2. QED
            BY <1>4, <2>7, <3>1
    <2>10. ~(a < b)
        <3>1. a < b => p < q
            BY <1>3, <2>5 DEF a
        <3>2. q < k
            BY <1>3, <2>1, <2>4, <2>5
        <3>3. a < b => q \in (p + 1)..k
            BY <1>1, <2>1, <3>1, <3>2
        <3>4. out[q].role = "assistant"
            BY <1>2, <2>4, <2>5
        <3>5. QED
            BY <2>1, <3>3, <3>4
    <2>11. a = b
        BY <1>4, <2>4, <2>9, <2>10
    <2>12. QED
        BY <2>1, <2>3, <2>11
<1>7. ASSUME NEW k \in 1..Len(is), is[k] \in Answers(ms, a) PROVE k \in Answers(out, p)
    <2>1. k \in GroupOf(out, p) /\ out[k] = ms[is[k]]
        BY <1>2, <1>5, <1>7
    <2>2. out[k].call \in Range(out[p].calls)
        BY <1>4, <1>7, <2>1, AnswersAre
    <2>3. ASSUME NEW l \in GroupOf(out, p), l < k PROVE out[l].call # out[k].call
        <3>1. l \in 1..Len(is) /\ is[l] \in Answers(ms, a)
            BY <1>6
        <3>2. is[l] \in GroupOf(ms, a) /\ is[l] < is[k] /\ out[l] = ms[is[l]]
            BY <1>2, <1>3, <2>3, <3>1, AnswersAre
        <3>3. ms[is[l]].call # ms[is[k]].call
            BY <1>7, <3>2 DEF Answers
        <3>4. QED
            BY <2>1, <3>2, <3>3
    <2>4. QED
        BY <2>1, <2>2, <2>3 DEF Answers
<1>8. ASSUME NEW k \in 1..Len(is), k \in Answers(out, p) PROVE is[k] \in Answers(ms, a)
    BY <1>6, <1>8, AnswersAre
<1>9. QED
    BY <1>7, <1>8 DEF a

LEMMA AnswersAllPicked ==
    ASSUME NEW ms, IsMessages(ms), NEW is, ChosenUpTo(ms, is, Len(ms)),
           NEW out, out = [k \in 1..Len(is) |-> ms[is[k]]],
           NEW p \in 1..Len(is), Assistant(ms, is[p])
    PROVE  Cardinality(Answers(out, p)) = Len(out[p].calls)
<1> DEFINE a == is[p]
           A == Answers(out, p)
           B == Answers(ms, a)
<1>1. /\ Len(ms) \in Nat /\ is \in Seq(1..Len(ms)) /\ Len(is) \in Nat /\ Rising(is)
      /\ \A i \in 1..Len(ms) : Sent(ms, i) <=> \E k \in 1..Len(is) : is[k] = i
    BY MessagesAre DEF ChosenUpTo
<1>2. /\ IsMessages(out) /\ Len(out) = Len(is)
      /\ \A k \in 1..Len(is) : is[k] \in 1..Len(ms) /\ out[k] = ms[is[k]]
    BY <1>1, PickedMessages
<1>3. a \in 1..Len(ms) /\ ms[a].role = "assistant" /\ out[p] = ms[a] /\ Sent(ms, a)
    BY <1>1, <1>2 DEF Assistant
<1>4. ms[a].calls = << >> \/ CompleteGroup(ms, a)
    <2>1. ASSUME NEW b \in 1..(a - 1), a \in Answers(ms, b) PROVE FALSE
        <3>1. a \in GroupOf(ms, b) /\ b \in Nat
            BY <2>1, AnswersAre
        <3>2. ms[a].role = "tool"
            BY <1>3, <3>1 DEF GroupOf
        <3>3. QED
            BY <1>3, <3>2
    <2>2. QED
        BY <1>3, <2>1 DEF Sent
<1>5. CASE ms[a].calls = << >>
    <2>1. Range(out[p].calls) = {}
        BY <1>3, <1>5 DEF Range
    <2>2. A = {}
        BY <2>1 DEF Answers
    <2>3. Cardinality(A) = 0 /\ Len(out[p].calls) = 0
        BY <1>3, <1>5, <2>2, FS_EmptySet
    <2>4. QED
        BY <2>3
<1>6. CASE CompleteGroup(ms, a)
    <2> DEFINE f == [k \in A |-> is[k]]
    <2>1. \A k \in 1..Len(is) : k \in A <=> is[k] \in B
        BY <1>6, AnswersArePicked
    <2>2. A \subseteq 1..Len(is)
        <3>1. p \in Nat /\ Len(out) \in Nat
            BY <1>1, <1>2
        <3>2. A \subseteq GroupOf(out, p)
            BY DEF Answers
        <3>3. GroupOf(out, p) \subseteq 1..Len(is)
            BY <1>2, <3>1, GroupsAre
        <3>4. QED
            BY <3>2, <3>3
    <2>3. B \subseteq 1..Len(ms) /\ \A i \in B : Sent(ms, i)
        <3>1. B \subseteq 1..Len(ms)
            BY <1>1, <1>3 DEF Answers, GroupOf
        <3>2. ASSUME NEW i \in B PROVE Sent(ms, i)
            <4>1. i \in GroupOf(ms, a)
                BY AnswersAre
            <4>2. a \in 1..(i - 1)
                BY <1>1, <1>3, <4>1, GroupsAre
            <4>3. QED
                BY <1>3, <1>6, <4>2 DEF Sent
        <3>3. QED
            BY <3>1, <3>2
    <2> HIDE DEF A, B, a
    <2>4. f \in Bijection(A, B)
        <3>1. f \in [A -> B]
            BY <2>1, <2>2
        <3>2. \A j, k \in A : f[j] = f[k] => j = k
            <4> TAKE j, k \in A
            <4>1. j \in 1..Len(is) /\ k \in 1..Len(is) /\ is[j] \in Nat /\ is[k] \in Nat
                BY <1>2, <2>2
            <4>2. (j < k => is[j] < is[k]) /\ (k < j => is[k] < is[j])
                BY <1>1, <4>1 DEF Rising
            <4>3. QED
                BY <4>1, <4>2
        <3>3. \A i \in B : \E k \in A : f[k] = i
            BY <1>1, <2>1, <2>3
        <3>4. QED
            <4>1. f \in Injection(A, B)
                BY <3>1, <3>2 DEF Injection, IsInjective
            <4>2. f \in Surjection(A, B)
                BY <3>1, <3>3 DEF Surjection
            <4>3. QED
                BY <4>1, <4>2 DEF Bijection
    <2>5. IsFiniteSet(A)
        <3>1. IsFiniteSet(1..Len(is))
            BY <1>1, FS_Interval
        <3>2. QED
            BY <2>2, <3>1, FS_Subset
    <2>6. Cardinality(A) = Cardinality(B)
        BY <2>4, <2>5, FS_Bijection DEF ExistsBijection
    <2>7. Cardinality(B) = Len(ms[a].calls)
        BY <1>6 DEF B, CompleteGroup
    <2>8. QED
        BY <1>3, <2>6, <2>7 DEF A
<1>7. QED
    BY <1>4, <1>5, <1>6
-----------------------------------------------------------------------------
(* Requests *)

LEMMA SanitizedIs ==
    ASSUME NEW ms, IsMessages(ms)
    PROVE  Paired(Sanitized(ms)) /\ Cost(Sanitized(ms)) <= Cost(ms) /\ Cost(Sanitized(ms)) \in Nat
<1> DEFINE is == SentIndices(ms)
           out == Sanitized(ms)
<1>1. ChosenUpTo(ms, is, Len(ms))
    BY SentIndicesAre
<1>2. out = [k \in 1..Len(is) |-> ms[is[k]]]
    BY DEF Sanitized
<1> HIDE DEF is, out
<1>3. /\ Len(ms) \in Nat /\ is \in Seq(1..Len(ms)) /\ Len(is) \in Nat /\ Rising(is)
      /\ \A i \in 1..Len(ms) : Sent(ms, i) <=> \E k \in 1..Len(is) : is[k] = i
    BY <1>1, MessagesAre DEF ChosenUpTo
<1>4. /\ Len(out) = Len(is)
      /\ \A k \in 1..Len(is) : is[k] \in 1..Len(ms) /\ out[k] = ms[is[k]]
    BY <1>2, <1>3, PickedMessages
<1>5. ASSUME NEW k \in 1..Len(is), out[k].role = "tool"
      PROVE  \E p \in 1..(k - 1) : k \in Answers(out, p) /\ out[p].role = "assistant"
    <2>1. is[k] \in 1..Len(ms) /\ ms[is[k]].role = "tool" /\ Sent(ms, is[k])
        BY <1>3, <1>4, <1>5
    <2>2. PICK a \in 1..(is[k] - 1) : /\ Assistant(ms, a) /\ CompleteGroup(ms, a) /\ Sent(ms, a)
                                      /\ is[k] \in Answers(ms, a)
        BY <2>1, SentToolAnswers
    <2>3. PICK p \in 1..Len(is) : is[p] = a
        BY <1>3, <2>2 DEF Assistant
    <2>4. k \in Answers(out, p)
        BY <1>1, <1>2, <2>2, <2>3, AnswersArePicked
    <2>5. k \in GroupOf(out, p)
        BY <2>4, AnswersAre
    <2>6. p < k
        <3>1. p \in Nat /\ Len(out) \in Nat
            BY <1>3, <1>4
        <3>2. QED
            BY <2>5, <3>1, GroupsAre
    <2>7. p \in 1..(k - 1)
        BY <1>3, <2>6
    <2>8. out[p].role = "assistant"
        BY <1>4, <2>2, <2>3 DEF Assistant
    <2>9. QED
        BY <2>4, <2>7, <2>8
<1>6. ASSUME NEW k \in 1..Len(is), out[k].role = "assistant"
      PROVE  Cardinality(Answers(out, k)) = Len(out[k].calls)
    <2>1. Assistant(ms, is[k])
        BY <1>4, <1>6 DEF Assistant
    <2>2. QED
        BY <1>1, <1>2, <2>1, AnswersAllPicked
<1>7. Paired(out)
    BY <1>4, <1>5, <1>6 DEF Paired
<1>8. Cost(out) <= Cost(ms) /\ Cost(out) \in Nat
    BY <1>2, <1>3, PickedCostNoMore
<1>9. QED
    BY <1>7, <1>8 DEF out

(* The end of the history that fits in the budget, if only nothing          *)
LEMMA AffordableIs ==
    ASSUME NEW ms, IsMessages(ms)
    PROVE  FirstAffordable(ms) \in 1..(Len(ms) + 1) /\ Cost(From(ms, FirstAffordable(ms))) <= Budget
<1> DEFINE F == {i \in 1..(Len(ms) + 1) : Cost(From(ms, i)) <= Budget}
<1>1. Len(ms) \in Nat /\ Budget \in Nat
    BY MessagesAre, ContextAssumption
<1>2. Len(ms) + 1 \in F
    <2> DEFINE n == Len(ms) + 1
    <2>1. n \in 1..n
        BY <1>1
    <2>2. IsMessages(From(ms, n)) /\ Len(From(ms, n)) = Len(ms) - n + 1
        BY <2>1, PartOfMessages
    <2>3. Len(From(ms, n)) = 0
        BY <1>1, <2>2
    <2>4. Cost(From(ms, n)) = 0
        BY <2>2, <2>3, CostsAre
    <2>5. QED
        BY <1>1, <2>1, <2>4
<1>3. F \subseteq Nat /\ F # {}
    BY <1>2
<1>4. PICK i \in F : \A j \in F : <<j, i>> \notin OpToRel(<, Nat)
    BY <1>3, WFMin, NatLessThanWellFounded, Zenon
<1> HIDE DEF F
<1>5. \A j \in F : i <= j
    <2> TAKE j \in F
    <2>1. i \in Nat /\ j \in Nat /\ ~(j < i)
        BY <1>3, <1>4 DEF OpToRel
    <2>2. QED
        BY <2>1
<1>6. FirstAffordable(ms) = Min(F)
    BY DEF FirstAffordable, F
<1>7. Min(F) \in F
    BY <1>4, <1>5 DEF Min
<1>8. QED
    BY <1>6, <1>7 DEF F

LEMMA RequestIsFormed ==
    ASSUME NEW ms, IsMessages(ms), NEW summary,
           summary = NoSummary \/ (WantsSummary(ms) /\ summary.size \in Nat)
    PROVE  WellFormed(Request(ms, summary))
<1> DEFINE request == Request(ms, summary)
<1>1. Len(ms) \in Nat /\ Budget \in Nat /\ KeepRecent \in Nat
    BY MessagesAre, ContextAssumption
<1>2. ASSUME NEW i \in 1..(Len(ms) + 1)
      PROVE  /\ IsMessages(From(ms, i)) /\ Paired(Sanitized(From(ms, i)))
             /\ Cost(From(ms, i)) \in Nat /\ Cost(Sanitized(From(ms, i))) \in Nat
             /\ Cost(Sanitized(From(ms, i))) <= Cost(From(ms, i))
    <2>1. IsMessages(From(ms, i))
        BY PartOfMessages
    <2> DEFINE part == From(ms, i)
    <2> HIDE DEF part
    <2>2. Len(part) \in Nat /\ IsMessages(part)
        BY <2>1, MessagesAre DEF part
    <2>3. Cost(part) \in Nat
        <3>1. Len(part) \in 0..Len(part)
            BY <2>2
        <3>2. QED
            BY <2>2, <3>1, CostsAre
    <2>4. QED
        BY <2>2, <2>3, SanitizedIs DEF part
<1>3. CASE summary # NoSummary /\ Fits(ms, summary)
    <2>1. IsSequence(ms) /\ WantsSummary(ms) /\ summary.size \in Nat
        BY <1>3 DEF IsMessages
    <2> DEFINE i == Len(Older(ms)) + 1
    <2>2. Len(Older(ms)) = Len(ms) - KeepRecent
        BY <2>1, OlderIs
    <2>3. i \in 1..(Len(ms) + 1)
        BY <1>1, <2>1, <2>2 DEF WantsSummary
    <2>4. /\ request.summary = summary /\ request.messages = Sanitized(From(ms, i))
        BY <1>3 DEF Request
    <2>5. Cost(From(ms, i)) <= Budget - summary.size
        BY <1>3 DEF Fits
    <2> HIDE DEF i
    <2>6. /\ Paired(Sanitized(From(ms, i)))
          /\ Cost(From(ms, i)) \in Nat /\ Cost(Sanitized(From(ms, i))) \in Nat
          /\ Cost(Sanitized(From(ms, i))) <= Cost(From(ms, i))
        BY <1>2, <2>3
    <2>7. Cost(Sanitized(From(ms, i))) + summary.size <= Budget
        BY <1>1, <2>1, <2>5, <2>6
    <2>8. QED
        BY <2>4, <2>6, <2>7 DEF WellFormed
<1>4. CASE ~(summary # NoSummary /\ Fits(ms, summary))
    <2> DEFINE i == IF Budget > 0 /\ Cost(ms) > Budget THEN FirstAffordable(ms) ELSE 1
    <2>1. request.summary = NoSummary /\ request.messages = Sanitized(From(ms, i))
        BY <1>4 DEF Request
    <2>2. i \in 1..(Len(ms) + 1) /\ (Budget > 0 => Cost(From(ms, i)) <= Budget)
        <3>1. CASE Budget > 0 /\ Cost(ms) > Budget
            BY <3>1, AffordableIs
        <3>2. CASE ~(Budget > 0 /\ Cost(ms) > Budget)
            <4>1. i = 1 /\ 1 \in 1..(Len(ms) + 1)
                BY <1>1, <3>2
            <4>2. From(ms, 1) = ms
                <5>1. IsSequence(ms) /\ IsSequence(From(ms, 1)) /\ Len(From(ms, 1)) = Len(ms) - 1 + 1
                    BY <4>1, PartOfMessages DEF IsMessages
                <5>2. Len(From(ms, 1)) = Len(ms)
                    BY <1>1, <5>1
                <5>3. \A k \in 1..Len(From(ms, 1)) : From(ms, 1)[k] = ms[1 + k - 1]
                    BY <4>1, PartOfMessages
                <5>4. \A k \in 1..Len(ms) : From(ms, 1)[k] = ms[k]
                    <6> TAKE k \in 1..Len(ms)
                    <6>1. 1 + k - 1 = k
                        BY <1>1
                    <6>2. QED
                        BY <5>2, <5>3, <6>1
                <5>5. QED
                    BY <5>1, <5>2, <5>4, SameSequence
            <4>3. Budget > 0 => Cost(ms) <= Budget
                <5>1. Cost(ms) \in Nat
                    BY <1>2, <4>1, <4>2
                <5>2. QED
                    BY <1>1, <3>2, <5>1
            <4>4. QED
                BY <4>1, <4>2, <4>3
        <3>3. QED
            BY <3>1, <3>2
    <2> HIDE DEF i
    <2>3. /\ Paired(Sanitized(From(ms, i)))
          /\ Cost(From(ms, i)) \in Nat /\ Cost(Sanitized(From(ms, i))) \in Nat
          /\ Cost(Sanitized(From(ms, i))) <= Cost(From(ms, i))
        BY <1>2, <2>2
    <2>4. NoSummary.size = 0
        BY DEF NoSummary
    <2>5. Budget > 0 => Cost(Sanitized(From(ms, i))) + 0 <= Budget
        BY <1>1, <2>2, <2>3
    <2>6. QED
        BY <2>1, <2>3, <2>4, <2>5 DEF WellFormed
<1>5. QED
    BY <1>3, <1>4
-----------------------------------------------------------------------------
(* The runs, one by one *)

LEMMA OneRun ==
    ASSUME run = [q \in Runs |-> run[q]], NEW r \in Runs, NEW y, run' = [run EXCEPT ![r] = y]
    PROVE  /\ run' = [q \in Runs |-> run'[q]] /\ run'[r] = y
           /\ \A q \in Runs : q # r => run'[q] = run[q]
    OBVIOUS

(* A run that is new or has ended has nothing in hand                       *)
LEMMA NewRunIs ==
    /\ NewRun = [at |-> "new", step |-> 0, stop |-> "no", ctx |-> NewContext, slot |-> 1, ran |-> << >>,
                 request |-> NoRequest, outcome |-> "none", remembered |-> FALSE]
    /\ NoRequest = [summary |-> NoRequest.summary, loaded |-> NoRequest.loaded,
                    first |-> NoRequest.first, messages |-> NoRequest.messages]
    BY DEF NewRun, NoRequest

LEMMA LeavesFine ==
    ASSUME NEW y, NEW outcome, NEW remembered, remembered => outcome = "final",
           y = [NewRun EXCEPT !.at = "leaving", !.outcome = outcome, !.remembered = remembered]
    PROVE  Fine(y) /\ y.outcome = outcome /\ y.ran = << >> /\ y.at = "leaving"
<1>1. /\ y = [y EXCEPT !.at = "leaving"]
      /\ y.at = "leaving" /\ y.step = 0 /\ y.slot = 1 /\ y.ran = << >> /\ y.request = NoRequest
      /\ y.outcome = outcome /\ y.remembered = remembered
      /\ y = [at |-> y.at, step |-> y.step, stop |-> y.stop, ctx |-> y.ctx, slot |-> y.slot, ran |-> y.ran,
              request |-> y.request, outcome |-> y.outcome, remembered |-> y.remembered]
    BY NewRunIs
<1>2. IsRun(y)
    BY <1>1, NewRunIs DEF IsRun, IsRequest
<1>3. Progress(y) /\ Ended(y) /\ Summarised(y)
    BY <1>1 DEF Progress, Ended, Summarised
<1>4. QED
    BY <1>1, <1>2, <1>3 DEF Fine

LEMMA InitFine == Fine(NewRun)
<1> PICK y : y = NewRun
    OBVIOUS
<1>1. IsRun(y)
    BY NewRunIs DEF IsRun, IsRequest
<1>2. Progress(y) /\ Ended(y) /\ Summarised(y)
    BY NewRunIs DEF Progress, Ended, Summarised
<1>3. QED
    BY <1>1, <1>2 DEF Fine

(* How a run ends without a final answer                                    *)
LEMMA LeaveIs ==
    ASSUME run = [q \in Runs |-> run[q]], NEW r \in Runs, NEW outcome, Leave(r, outcome)
    PROVE  /\ run' = [q \in Runs |-> run'[q]] /\ \A q \in Runs : q # r => run'[q] = run[q]
           /\ Fine(run'[r]) /\ run'[r].outcome = outcome /\ run'[r].ran = << >>
<1> PICK y : y = [NewRun EXCEPT !.at = "leaving", !.outcome = outcome]
    OBVIOUS
<1>1. y = [NewRun EXCEPT !.at = "leaving", !.outcome = outcome, !.remembered = FALSE]
    <2>1. ASSUME NEW z, IsRun(z), z.remembered = FALSE
          PROVE  [z EXCEPT !.at = "leaving", !.outcome = outcome]
                    = [z EXCEPT !.at = "leaving", !.outcome = outcome, !.remembered = FALSE]
        BY <2>1 DEF IsRun
    <2>2. IsRun(NewRun) /\ NewRun.remembered = FALSE
        BY InitFine, NewRunIs DEF Fine
    <2>3. QED
        BY <2>1, <2>2
<1>2. Fine(y) /\ y.outcome = outcome /\ y.ran = << >>
    BY <1>1, LeavesFine
<1>3. run' = [run EXCEPT ![r] = y]
    BY DEF Leave
<1>4. QED
    BY <1>2, <1>3, OneRun

(* The place of a run changes, and the tools it has executed with it        *)
LEMMA MovesFine ==
    ASSUME NEW x, NEW y, Fine(x), IsRun(y), y.outcome = x.outcome, y.remembered = x.remembered,
           x.at \notin {"leaving", "out"}, y.at # "summarising", y.at # "asking", Progress(y)
    PROVE  Fine(y)
<1>1. Ended(y)
    BY DEF Fine, Ended
<1>2. Summarised(y)
    BY DEF Summarised
<1>3. QED
    BY <1>1, <1>2 DEF Fine

(* A step of a run that is neither its end nor the request of an answer:    *)
(* it goes on in another place                                              *)
LEMMA MovesTo ==
    ASSUME run = [q \in Runs |-> run[q]], NEW r \in Runs, Fine(run[r]), run[r].at \notin {"leaving", "out"},
           NEW y, run' = [run EXCEPT ![r] = y],
           IsRun(y), y.outcome = run[r].outcome, y.remembered = run[r].remembered,
           y.at \notin {"summarising", "asking"}, Progress(y)
    PROVE  /\ run' = [q \in Runs |-> run'[q]] /\ \A q \in Runs : q # r => run'[q] = run[q]
           /\ Fine(run'[r]) /\ run'[r].outcome = run[r].outcome
    BY OneRun, MovesFine

Kept(r) ==
    /\ run' = [q \in Runs |-> run'[q]] /\ \A q \in Runs : q # r => run'[q] = run[q]
    /\ Fine(run'[r])
    /\ LeftAnswer(run[r]) => LeftAnswer(run'[r])

TheRun(at, step, stop, ctx, slot, ran, request, outcome, remembered) ==
    [at |-> at, step |-> step, stop |-> stop, ctx |-> ctx, slot |-> slot, ran |-> ran,
     request |-> request, outcome |-> outcome, remembered |-> remembered]

LEMMA MakesRun ==
    ASSUME NEW at, NEW step \in Nat, NEW stop, NEW ctx, NEW slot \in Nat \ {0}, NEW ran \in Seq(Nat \X Nat),
           NEW request, IsRequest(request), NEW outcome, NEW remembered,
           NEW y, y = TheRun(at, step, stop, ctx, slot, ran, request, outcome, remembered)
    PROVE  /\ IsRun(y) /\ y.at = at /\ y.step = step /\ y.slot = slot /\ y.ran = ran /\ y.request = request
           /\ y.outcome = outcome /\ y.remembered = remembered /\ y.stop = stop /\ y.ctx = ctx
<1>1. /\ y.at = at /\ y.step = step /\ y.slot = slot /\ y.ran = ran /\ y.request = request
      /\ y.outcome = outcome /\ y.remembered = remembered /\ y.stop = stop /\ y.ctx = ctx
    BY DEF TheRun
<1>2. y = [at |-> y.at, step |-> y.step, stop |-> y.stop, ctx |-> y.ctx, slot |-> y.slot,
           ran |-> y.ran, request |-> y.request, outcome |-> y.outcome, remembered |-> y.remembered]
    BY <1>1 DEF TheRun
<1>3. y.step \in Nat /\ y.slot \in Nat \ {0} /\ y.ran \in Seq(Nat \X Nat) /\ IsRequest(y.request)
    BY <1>1
<1>4. QED
    BY <1>1, <1>2, <1>3 DEF IsRun

LEMMA NextStep ==
    ASSUME NEW ran \in Seq(Nat \X Nat), NEW n \in Nat, \A i \in 1..Len(ran) : ran[i][1] <= n
    PROVE  \A i \in 1..Len(ran) : ran[i][1] < n + 1 /\ ran[i][1] <= n + 1
<1> TAKE i \in 1..Len(ran)
<1>1. ran[i] \in Nat \X Nat /\ ran[i][1] <= n
    OBVIOUS
<1>2. PICK m : m = ran[i][1]
    OBVIOUS
<1>3. m \in Nat /\ m <= n
    BY <1>1, <1>2
<1>4. m < n + 1 /\ m <= n + 1
    BY <1>3
<1>5. QED
    BY <1>2, <1>4

LEMMA EntryKeeps ==
    ASSUME IInv, NEW r \in Runs,
           EnterRun(r) \/ Reject(r) \/ StoreInput(r) \/ MaxStepsReached(r) \/ StepBegins(r)
    PROVE  Kept(r)
<1>0. run = [q \in Runs |-> run[q]]
    BY DEF IInv
<1> PICK x : x = run[r]
    OBVIOUS
<1>1. /\ Fine(x) /\ IsRun(x) /\ Progress(x) /\ Ended(x)
      /\ x.step \in Nat /\ x.slot \in Nat /\ x.ran \in Seq(Nat \X Nat)
    BY DEF IInv, Fine, IsRun
<1>2. ASSUME NEW outcome, Leave(r, outcome), ~LeftAnswer(x) PROVE Kept(r)
    BY <1>0, <1>2, LeaveIs DEF Kept
<1>3. ASSUME At(r, "entered") \/ At(r, "stepping"), Fail(r) PROVE Kept(r)
    BY <1>1, <1>2, <1>3 DEF At, Fail, Ended, LeftAnswer
<1>4. ASSUME At(r, "new") \/ At(r, "entered"), NEW place \in {"entered", "stepping"}, Go(r, place)
      PROVE  Kept(r)
    <2> PICK y : y = [x EXCEPT !.at = place]
        OBVIOUS
    <2>1. /\ y.at = place /\ y.step = x.step /\ y.slot = x.slot /\ y.ran = x.ran /\ y.request = x.request
          /\ y.outcome = x.outcome /\ y.remembered = x.remembered /\ IsRun(y)
        BY <1>1 DEF IsRun
    <2>2. Progress(y)
        BY <1>1, <2>1 DEF Progress
    <2>3. run' = [run EXCEPT ![r] = y]
        BY <1>4 DEF Go
    <2>4. x.at \notin {"leaving", "out"}
        BY <1>4 DEF At
    <2>5. QED
        BY <1>0, <1>1, <2>1, <2>2, <2>3, <2>4, MovesTo DEF Kept, LeftAnswer
<1>5. CASE EnterRun(r)
    <2>1. CASE run' = [run EXCEPT ![r].at = "out", ![r].outcome = "error"]
        <3> PICK y : y = [x EXCEPT !.at = "out", !.outcome = "error"]
            OBVIOUS
        <3>1. /\ y.at = "out" /\ y.step = x.step /\ y.ran = x.ran /\ y.request = x.request
              /\ y.outcome = "error" /\ y.remembered = x.remembered /\ IsRun(y)
            BY <1>1 DEF IsRun
        <3>2. Fine(y)
            BY <1>1, <1>5, <3>1 DEF Fine, Progress, Ended, Summarised, EnterRun, At
        <3>3. run' = [run EXCEPT ![r] = y]
            BY <2>1
        <3>4. ~LeftAnswer(x)
            BY <1>1, <1>5 DEF EnterRun, At, Ended, LeftAnswer
        <3>5. QED
            BY <1>0, <3>2, <3>3, <3>4, OneRun DEF Kept
    <2>2. CASE Go(r, "entered")
        BY <1>4, <1>5, <2>2 DEF EnterRun
    <2>3. QED
        BY <1>5, <2>1, <2>2 DEF EnterRun
<1>6. CASE Reject(r)
    BY <1>3, <1>6 DEF Reject
<1>7. CASE StoreInput(r)
    BY <1>3, <1>4, <1>7 DEF StoreInput
<1>8. CASE MaxStepsReached(r)
    BY <1>1, <1>2, <1>8 DEF MaxStepsReached, At, Ended, LeftAnswer
<1>9. CASE StepBegins(r)
    <2>1. CASE Fail(r)
        BY <1>3, <1>9, <2>1 DEF StepBegins
    <2>2. CASE run' = [run EXCEPT ![r].at = "building", ![r].step = @ + 1, ![r].slot = 1,
                               ![r].ctx = [NewContext EXCEPT !.bytes = run[r].ctx.bytes]]
        <3> PICK ctx : ctx = [NewContext EXCEPT !.bytes = run[r].ctx.bytes]
            OBVIOUS
        <3> PICK step : step = x.step + 1
            OBVIOUS
        <3> PICK y : y = [x EXCEPT !.at = "building", !.step = step, !.slot = 1, !.ctx = ctx]
            OBVIOUS
        <3>1. y = TheRun("building", step, x.stop, ctx, 1, x.ran, x.request, x.outcome, x.remembered)
            BY <1>1 DEF IsRun, TheRun
        <3>2. /\ IsRun(y) /\ y.at = "building" /\ y.step = step /\ y.slot = 1 /\ y.ran = x.ran
              /\ y.request = x.request /\ y.outcome = x.outcome /\ y.remembered = x.remembered
            <4>1. step \in Nat /\ 1 \in Nat \ {0} /\ x.ran \in Seq(Nat \X Nat) /\ IsRequest(x.request)
                BY <1>1 DEF IsRun
            <4>2. QED
                BY <3>1, <4>1, MakesRun
        <3>3. Progress(y)
            <4>1. x.step \in Nat /\ x.ran \in Seq(Nat \X Nat) /\ \A i \in 1..Len(x.ran) : x.ran[i][1] <= x.step
                BY <1>1 DEF Progress
            <4>2. \A i \in 1..Len(x.ran) : x.ran[i][1] < step /\ x.ran[i][1] <= step
                BY <4>1, NextStep
            <4>3. QED
                BY <3>2, <4>2 DEF Progress, Earlier
        <3>4. run' = [run EXCEPT ![r] = y]
            BY <2>2
        <3>5. x.at \notin {"leaving", "out"}
            BY <1>9 DEF At, StepBegins
        <3>6. QED
            BY <1>0, <1>1, <3>2, <3>3, <3>4, <3>5, MovesTo DEF Kept, LeftAnswer
    <2>3. QED
        BY <1>9, <2>1, <2>2 DEF StepBegins
<1>10. QED
    BY <1>5, <1>6, <1>7, <1>8, <1>9

(* A request is built, well-formed, and its summary, if any, stands for     *)
(* what is left out                                                         *)
LEMMA RequestedKeeps ==
    ASSUME IInv, NEW r \in Runs, run[r].at \in {"building", "summarising"},
           NEW request, IsRequest(request), Standing(request), WellFormed(request), Requested(r, request)
    PROVE  Kept(r)
<1>0. run = [q \in Runs |-> run[q]]
    BY DEF IInv
<1> PICK x : x = run[r]
    OBVIOUS
<1>1. Fine(x) /\ IsRun(x) /\ Progress(x) /\ Ended(x)
    BY DEF IInv, Fine
<1> PICK y : y = [x EXCEPT !.at = "asking", !.request = request]
    OBVIOUS
<1>2. y = TheRun("asking", x.step, x.stop, x.ctx, x.slot, x.ran, request, x.outcome, x.remembered)
    BY <1>1 DEF IsRun, TheRun
<1>3. x.step \in Nat /\ x.slot \in Nat \ {0} /\ x.ran \in Seq(Nat \X Nat)
    BY <1>1 DEF IsRun
<1>4. /\ IsRun(y) /\ y.at = "asking" /\ y.step = x.step /\ y.slot = x.slot /\ y.ran = x.ran
      /\ y.request = request /\ y.outcome = x.outcome /\ y.remembered = x.remembered
    BY <1>2, <1>3, MakesRun
<1>5. Progress(y) /\ Ended(y)
    BY <1>1, <1>4 DEF Progress, Ended, Earlier
<1>6. Summarised(y)
    BY <1>4 DEF Summarised
<1>7. run' = [run EXCEPT ![r] = y]
    BY DEF Requested
<1>8. ~LeftAnswer(x)
    BY <1>1 DEF Ended, LeftAnswer
<1>9. QED
    BY <1>0, <1>4, <1>5, <1>6, <1>7, <1>8, OneRun DEF Kept, Fine

LEMMA LoadedIs ==
    ASSUME IsMessages(history)
    PROVE  IsMessages(Loaded(history))
<1> DEFINE n == Len(history) - MaxLoad + 1
           first == Max({1, n})
<1>1. Len(history) \in Nat /\ MaxLoad \in Nat /\ n \in Int /\ n <= Len(history) + 1
    BY MessagesAre, ContextAssumption
<1> HIDE DEF n
<1>2. first \in 1..(Len(history) + 1)
    <2>1. \E p \in {1, n} : \A q \in {1, n} : p >= q
        BY <1>1
    <2>2. first \in {1, n} /\ first >= 1
        BY <1>1, <2>1 DEF Max
    <2>3. QED
        BY <1>1, <2>2
<1>3. Loaded(history) = From(history, first)
    BY DEF Loaded, n
<1> HIDE DEF first
<1>4. QED
    BY <1>2, <1>3, PartOfMessages

LEMMA BuildKeeps ==
    ASSUME IInv, NEW r \in Runs, BuildFails(r) \/ Build(r) \/ Summarise(r)
    PROVE  Kept(r)
<1>0. run = [q \in Runs |-> run[q]]
    BY DEF IInv
<1> PICK x : x = run[r]
    OBVIOUS
<1>1. Fine(x) /\ IsRun(x) /\ Progress(x) /\ Ended(x) /\ Summarised(x)
    BY DEF IInv, Fine
<1>2. ASSUME At(r, "building") \/ At(r, "summarising"), Fail(r) PROVE Kept(r)
    <2>1. ~LeftAnswer(x)
        BY <1>1, <1>2 DEF At, Ended, LeftAnswer
    <2>2. QED
        BY <1>0, <1>2, <2>1, LeaveIs DEF Kept, Fail
<1>3. CASE BuildFails(r)
    BY <1>2, <1>3 DEF BuildFails
<1>4. CASE Build(r)
    <2> DEFINE ms == Loaded(history)
               older == Older(ms)
    <2>1. IsMessages(ms) /\ IsSequence(ms)
        BY LoadedIs DEF IInv, IsMessages
    <2>2. run[r].at \in {"building", "summarising"}
        BY <1>4 DEF Build, At
    <2>3. ASSUME NEW summary,
                 summary = NoSummary \/ (WantsSummary(ms) /\ summary.of = older /\ summary.size \in Nat),
                 Requested(r, Request(ms, summary))
          PROVE  Kept(r)
        <3> PICK request : request = Request(ms, summary)
            OBVIOUS
        <3>1. IsRequest(request) /\ Standing(request) /\ WellFormed(request)
            BY <2>1, <2>3, RequestStands, RequestIsFormed
        <3>2. Requested(r, request)
            BY <2>3
        <3>3. QED
            BY <2>2, <3>1, <3>2, RequestedKeeps
    <2>4. CASE Requested(r, Request(ms, NoSummary))
        BY <2>3, <2>4
    <2>5. CASE WantsSummary(ms) /\ InCache(older) /\ Requested(r, Request(ms, Cached(older)))
        <3>1. Hit(Cached(older), older) /\ CacheSlot(older) \in 1..Len(cache)
            BY <2>5 DEF InCache, Cached, CacheSlot
        <3>2. Cached(older).size \in Nat
            <4>1. Cached(older) \in Range(cache)
                <5>1. PICK A : cache \in Seq(A)
                    BY DEF IInv, IsCache, IsSequence
                <5>2. QED
                    BY <3>1, <5>1 DEF Cached, Range
            <4>2. QED
                BY <4>1 DEF IInv, IsCache
        <3>3. QED
            BY <2>3, <2>5, <3>1, <3>2 DEF Hit
    <2>6. CASE WantsSummary(ms) /\ InStore(older) /\ Requested(r, Request(ms, Stored(older)))
        <3>1. Hit(Stored(older), older) /\ Stored(older) \in kept
            BY <2>6 DEF InStore, Stored
        <3>2. Stored(older).size \in Nat
            BY <3>1 DEF IInv, IsSummary
        <3>3. QED
            BY <2>3, <2>6, <3>1, <3>2 DEF Hit
    <2>7. CASE WantsSummary(ms) /\ run' = [run EXCEPT ![r].at = "summarising", ![r].request.loaded = ms]
        <3> PICK msgs : msgs = ms
            OBVIOUS
        <3> PICK request : request = [x.request EXCEPT !.loaded = msgs]
            OBVIOUS
        <3>1. IsRequest(request) /\ request.loaded = msgs
            BY <1>1 DEF IsRun, IsRequest
        <3> PICK y : y = [x EXCEPT !.at = "summarising", !.request = request]
            OBVIOUS
        <3>2. y = TheRun("summarising", x.step, x.stop, x.ctx, x.slot, x.ran, request, x.outcome,
                         x.remembered)
            BY <1>1 DEF IsRun, TheRun
        <3>3. x.step \in Nat /\ x.slot \in Nat \ {0} /\ x.ran \in Seq(Nat \X Nat)
            BY <1>1 DEF IsRun
        <3>4. /\ IsRun(y) /\ y.at = "summarising" /\ y.step = x.step /\ y.slot = x.slot /\ y.ran = x.ran
              /\ y.request = request /\ y.outcome = x.outcome /\ y.remembered = x.remembered
            BY <3>1, <3>2, <3>3, MakesRun
        <3>5. Progress(y) /\ Ended(y)
            BY <1>1, <2>2, <3>4 DEF Progress, Ended, Earlier
        <3>6. Summarised(y)
            BY <2>1, <2>7, <3>1, <3>4 DEF Summarised
        <3>7. run' = [run EXCEPT ![r] = y]
            BY <2>7
        <3>8. ~LeftAnswer(x)
            BY <1>1, <2>2 DEF Ended, LeftAnswer
        <3>9. QED
            BY <1>0, <3>4, <3>5, <3>6, <3>7, <3>8, OneRun DEF Kept, Fine
    <2>8. QED
        BY <1>4, <2>4, <2>5, <2>6, <2>7 DEF Build
<1>5. CASE Summarise(r)
    <2> DEFINE ms == run[r].request.loaded
    <2>1. IsMessages(ms) /\ IsSequence(ms) /\ WantsSummary(ms)
        BY <1>1, <1>5 DEF Summarise, At, Summarised, IsMessages
    <2>2. PICK summary \in Summaries(Older(ms)) :
              IF run[r].stop = "cancelled" THEN Fail(r) ELSE Requested(r, Request(ms, summary))
        BY <1>5 DEF Summarise
    <2>3. run[r].at \in {"building", "summarising"} /\ At(r, "summarising")
        BY <1>5 DEF Summarise, At
    <2>4. IsSequence(Older(ms))
        BY <2>1, OlderIs
    <2>5. summary = NoSummary \/ (summary.of = Older(ms) /\ summary.size \in Nat)
        BY <2>4, SummariesAre DEF IInv, IsSummary
    <2>6. CASE Fail(r)
        BY <1>2, <2>3, <2>6
    <2>7. CASE Requested(r, Request(ms, summary))
        <3> PICK request : request = Request(ms, summary)
            OBVIOUS
        <3>1. IsRequest(request) /\ Standing(request) /\ WellFormed(request)
            BY <2>1, <2>5, RequestStands, RequestIsFormed
        <3>2. Requested(r, request)
            BY <2>7
        <3>3. QED
            BY <2>3, <3>1, <3>2, RequestedKeeps
    <2>8. QED
        BY <2>2, <2>6, <2>7
<1>6. QED
    BY <1>3, <1>4, <1>5

(* A run that answers goes on to the tools of its answer, or ends           *)
LEMMA AnswerKeeps ==
    ASSUME IInv, NEW r \in Runs, Ask(r) \/ StoppedAfterAnswer(r) \/ StoreFinal(r) \/ CheckTools(r)
    PROVE  Kept(r)
<1>0. run = [q \in Runs |-> run[q]]
    BY DEF IInv
<1> PICK x : x = run[r]
    OBVIOUS
<1>1. /\ Fine(x) /\ IsRun(x) /\ Progress(x) /\ Ended(x)
      /\ x.step \in Nat /\ x.slot \in Nat \ {0} /\ x.ran \in Seq(Nat \X Nat) /\ IsRequest(x.request)
    BY DEF IInv, Fine, IsRun
<1>2. x.at \in {"asking", "answered"}
    BY DEF Ask, StoppedAfterAnswer, StoreFinal, CheckTools, At
<1>3. ~LeftAnswer(x)
    BY <1>1, <1>2 DEF Ended, LeftAnswer
<1>4. ASSUME Fail(r) PROVE Kept(r)
    BY <1>0, <1>3, <1>4, LeaveIs DEF Kept, Fail
<1>5. IsRequest(NoRequest)
    BY NewRunIs DEF IsRequest
<1>6. ASSUME NEW at \in {"answered", "executing"}, NEW ctx, NEW request, IsRequest(request),
             run' = [run EXCEPT ![r].at = at, ![r].ctx = ctx, ![r].request = request]
      PROVE  Kept(r)
    <2> PICK y : y = [x EXCEPT !.at = at, !.ctx = ctx, !.request = request]
        OBVIOUS
    <2>1. y = TheRun(at, x.step, x.stop, ctx, x.slot, x.ran, request, x.outcome, x.remembered)
        BY <1>1 DEF IsRun, TheRun
    <2>2. /\ IsRun(y) /\ y.at = at /\ y.step = x.step /\ y.slot = x.slot /\ y.ran = x.ran
          /\ y.outcome = x.outcome /\ y.remembered = x.remembered
        BY <1>1, <1>6, <2>1, MakesRun
    <2>3. Progress(y)
        BY <1>1, <1>2, <2>2 DEF Progress, Earlier
    <2>4. run' = [run EXCEPT ![r] = y]
        BY <1>6
    <2>5. QED
        BY <1>0, <1>1, <1>2, <1>3, <2>2, <2>3, <2>4, MovesTo DEF Kept
<1>7. CASE Ask(r)
    <2>1. CASE Fail(r)
        BY <1>4, <2>1
    <2>2. CASE \E ctx \in (IF run[r].stop = "cancelled" THEN AnswersToCancelled ELSE AnswersInTime)
                       [run[r].ctx.bytes] :
             run' = [run EXCEPT ![r].at = "answered", ![r].ctx = ctx, ![r].request = NoRequest]
        BY <1>5, <1>6, <2>2
    <2>3. QED
        BY <1>7, <2>1, <2>2 DEF Ask
<1>8. CASE StoppedAfterAnswer(r)
    BY <1>4, <1>8 DEF StoppedAfterAnswer
<1>9. CASE StoreFinal(r)
    <2>1. CASE Fail(r) \/ Leave(r, "unsure")
        BY <1>0, <1>3, <1>4, <2>1, LeaveIs DEF Kept
    <2>2. CASE Remembers(r)
        <3>1. PICK remembered \in BOOLEAN :
                  run' = [run EXCEPT ![r] = [NewRun EXCEPT !.at = "leaving", !.outcome = "final",
                                                           !.remembered = remembered]]
            BY <2>2 DEF Remembers
        <3> PICK y : y = [NewRun EXCEPT !.at = "leaving", !.outcome = "final", !.remembered = remembered]
            OBVIOUS
        <3>2. Fine(y)
            BY LeavesFine
        <3>3. run' = [run EXCEPT ![r] = y]
            BY <3>1
        <3>4. QED
            BY <1>0, <1>3, <3>2, <3>3, OneRun DEF Kept
    <2>3. QED
        BY <1>9, <2>1, <2>2 DEF StoreFinal
<1>10. CASE CheckTools(r)
    <2>1. CASE Fail(r)
        BY <1>4, <2>1
    <2>2. CASE run' = [run EXCEPT ![r].at = "executing", ![r].ctx.slots = Parsed(@)]
        <3> PICK ctx : ctx = [x.ctx EXCEPT !.slots = Parsed(@)]
            OBVIOUS
        <3>1. [x EXCEPT !.at = "executing", !.ctx = ctx]
                 = [x EXCEPT !.at = "executing", !.ctx = ctx, !.request = x.request]
            BY <1>1 DEF IsRun
        <3>2. run' = [run EXCEPT ![r] = [x EXCEPT !.at = "executing", !.ctx = ctx]]
            BY <2>2
        <3>3. run' = [run EXCEPT ![r].at = "executing", ![r].ctx = ctx, ![r].request = x.request]
            BY <3>1, <3>2, ZenonT(30)
        <3>4. QED
            BY <1>1, <1>6, <3>3
    <2>3. QED
        BY <1>10, <2>1, <2>2 DEF CheckTools
<1>11. QED
    BY <1>7, <1>8, <1>9, <1>10

(* The tools one after the other                                            *)
LEMMA ToolsKeep ==
    ASSUME IInv, NEW r \in Runs, ExecuteTool(r) \/ Observe(r) \/ StepOver(r)
    PROVE  Kept(r)
<1>0. run = [q \in Runs |-> run[q]]
    BY DEF IInv
<1> PICK x : x = run[r]
    OBVIOUS
<1>1. /\ Fine(x) /\ IsRun(x) /\ Progress(x) /\ Ended(x)
      /\ x.step \in Nat /\ x.slot \in Nat \ {0} /\ x.ran \in Seq(Nat \X Nat) /\ IsRequest(x.request)
    BY DEF IInv, Fine, IsRun
<1>2. x.at \in {"executing", "observing"}
    BY DEF ExecuteTool, Observe, StepOver, At
<1>3. ~LeftAnswer(x)
    BY <1>1, <1>2 DEF Ended, LeftAnswer
<1>4. ASSUME Fail(r) PROVE Kept(r)
    BY <1>0, <1>3, <1>4, LeaveIs DEF Kept, Fail
<1>5. ASSUME x.at = "executing", run' = [run EXCEPT ![r].at = "observing", ![r].ran = Ran(r)]
      PROVE  Kept(r)
    <2>0. PICK ran : ran = Append(x.ran, <<x.step, x.slot>>)
        OBVIOUS
    <2>1. ran \in Seq(Nat \X Nat)
        BY <1>1, <2>0
    <2>2. /\ Len(ran) = Len(x.ran) + 1 /\ Len(x.ran) \in Nat
          /\ \A i \in 1..Len(x.ran) : ran[i] = x.ran[i]
          /\ ran[Len(x.ran) + 1] = <<x.step, x.slot>>
        BY <1>1, <2>0
    <2> PICK y : y = [x EXCEPT !.at = "observing", !.ran = ran]
        OBVIOUS
    <2>3. y = TheRun("observing", x.step, x.stop, x.ctx, x.slot, ran, x.request, x.outcome, x.remembered)
        BY <1>1 DEF IsRun, TheRun
    <2>4. /\ IsRun(y) /\ y.at = "observing" /\ y.step = x.step /\ y.slot = x.slot /\ y.ran = ran
          /\ y.outcome = x.outcome /\ y.remembered = x.remembered
        BY <1>1, <2>1, <2>3, MakesRun
    <2>5. \A i \in 1..Len(ran) : ran[i][1] <= x.step
        <3> TAKE i \in 1..Len(ran)
        <3>1. CASE i \in 1..Len(x.ran)
            BY <1>1, <2>2, <3>1 DEF Progress
        <3>2. CASE i = Len(x.ran) + 1
            BY <1>1, <2>2, <3>2
        <3>3. i \in 1..Len(x.ran) \/ i = Len(x.ran) + 1
            BY <2>2
        <3>4. QED
            BY <3>1, <3>2, <3>3
    <2>6. ran # << >> /\ Last(ran) = <<x.step, x.slot>>
        BY <2>2 DEF Last
    <2>7. Progress(y)
        BY <2>4, <2>5, <2>6 DEF Progress
    <2>8. run' = [run EXCEPT ![r] = y]
        BY <1>5, <2>0 DEF Ran
    <2>9. QED
        BY <1>0, <1>1, <1>2, <1>3, <2>4, <2>7, <2>8, MovesTo DEF Kept
<1>6. CASE ExecuteTool(r)
    BY <1>4, <1>5, <1>6 DEF ExecuteTool, At
<1>7. CASE Observe(r)
    <2>1. CASE Fail(r)
        BY <1>4, <2>1
    <2>2. CASE run' = [run EXCEPT ![r].at = "executing", ![r].slot = @ + 1]
        <3> PICK slot : slot = x.slot + 1
            OBVIOUS
        <3>1. slot \in Nat \ {0} /\ slot # 1 /\ slot - 1 = x.slot
            BY <1>1
        <3> PICK y : y = [x EXCEPT !.at = "executing", !.slot = slot]
            OBVIOUS
        <3>2. y = TheRun("executing", x.step, x.stop, x.ctx, slot, x.ran, x.request, x.outcome, x.remembered)
            BY <1>1 DEF IsRun, TheRun
        <3>3. /\ IsRun(y) /\ y.at = "executing" /\ y.step = x.step /\ y.slot = slot /\ y.ran = x.ran
              /\ y.outcome = x.outcome /\ y.remembered = x.remembered
            BY <1>1, <3>1, <3>2, MakesRun
        <3>4. Progress(y)
            BY <1>1, <1>7, <3>1, <3>3 DEF Progress, Observe, At
        <3>5. run' = [run EXCEPT ![r] = y]
            BY <2>2
        <3>6. QED
            BY <1>0, <1>1, <1>2, <1>3, <3>3, <3>4, <3>5, MovesTo DEF Kept
    <2>3. QED
        BY <1>7, <2>1, <2>2 DEF Observe
<1>8. CASE StepOver(r)
    <2> PICK y : y = [x EXCEPT !.at = "stepping"]
        OBVIOUS
    <2>1. y = TheRun("stepping", x.step, x.stop, x.ctx, x.slot, x.ran, x.request, x.outcome, x.remembered)
        BY <1>1 DEF IsRun, TheRun
    <2>2. /\ IsRun(y) /\ y.at = "stepping" /\ y.step = x.step /\ y.slot = x.slot /\ y.ran = x.ran
          /\ y.outcome = x.outcome /\ y.remembered = x.remembered
        BY <1>1, <2>1, MakesRun
    <2>3. Progress(y)
        BY <1>1, <2>2 DEF Progress
    <2>4. run' = [run EXCEPT ![r] = y]
        BY <1>8 DEF StepOver, Go
    <2>5. QED
        BY <1>0, <1>1, <1>2, <1>3, <2>2, <2>3, <2>4, MovesTo DEF Kept
<1>9. QED
    BY <1>6, <1>7, <1>8

LEMMA LeaveOrStopKeeps ==
    ASSUME IInv, NEW r \in Runs, LeaveRun(r) \/ Stop(r)
    PROVE  Kept(r)
<1>0. run = [q \in Runs |-> run[q]]
    BY DEF IInv
<1> PICK x : x = run[r]
    OBVIOUS
<1>1. /\ Fine(x) /\ IsRun(x) /\ Progress(x) /\ Ended(x) /\ Summarised(x)
      /\ x.step \in Nat /\ x.slot \in Nat \ {0} /\ x.ran \in Seq(Nat \X Nat) /\ IsRequest(x.request)
    BY DEF IInv, Fine, IsRun
<1>2. PICK at, stop : /\ run' = [run EXCEPT ![r] = [x EXCEPT !.at = at, !.stop = stop]]
                      /\ \/ at = "out" /\ x.at = "leaving"
                         \/ at = x.at /\ x.at \notin {"leaving", "out"}
    <2>1. CASE LeaveRun(r)
        <3>1. [x EXCEPT !.at = "out"] = [x EXCEPT !.at = "out", !.stop = x.stop]
            BY <1>1 DEF IsRun
        <3>2. QED
            BY <2>1, <3>1 DEF LeaveRun, Go, At
    <2>2. CASE Stop(r)
        <3>1. PICK why : run' = [run EXCEPT ![r].stop = why]
            BY <2>2 DEF Stop
        <3>2. [x EXCEPT !.stop = why] = [x EXCEPT !.at = x.at, !.stop = why]
            BY <1>1 DEF IsRun
        <3>3. QED
            BY <2>2, <3>1, <3>2 DEF Stop
    <2>3. QED
        BY <2>1, <2>2
<1> PICK y : y = [x EXCEPT !.at = at, !.stop = stop]
    OBVIOUS
<1>3. y = TheRun(at, x.step, stop, x.ctx, x.slot, x.ran, x.request, x.outcome, x.remembered)
    BY <1>1 DEF IsRun, TheRun
<1>4. /\ IsRun(y) /\ y.at = at /\ y.step = x.step /\ y.slot = x.slot /\ y.ran = x.ran
      /\ y.request = x.request /\ y.outcome = x.outcome /\ y.remembered = x.remembered
    BY <1>1, <1>3, MakesRun
<1>5. Progress(y) /\ Ended(y) /\ Summarised(y)
    BY <1>1, <1>2, <1>4 DEF Progress, Ended, Summarised, Earlier
<1>6. LeftAnswer(x) => LeftAnswer(y)
    BY <1>4 DEF LeftAnswer
<1>7. QED
    BY <1>0, <1>2, <1>4, <1>5, <1>6, OneRun DEF Kept, Fine
-----------------------------------------------------------------------------
(* The session and the summaries *)

LEMMA LengthIs ==
    ASSUME NEW s, IsSequence(s)
    PROVE  Len(s) \in Nat
<1>1. PICK A : s \in Seq(A)
    BY DEF IsSequence
<1>2. QED
    BY <1>1

LEMMA OneMessage ==
    ASSUME NEW m, IsSequence(m.calls)
    PROVE  IsMessages(<<m>>) /\ Len(<<m>>) = 1 /\ <<m>>[1] = m
<1>1. <<m>> \in Seq({m}) /\ Len(<<m>>) = 1 /\ <<m>>[1] = m
    OBVIOUS
<1>2. IsSequence(<<m>>)
    BY <1>1, SequencesAre, Zenon
<1>3. QED
    BY <1>1, <1>2 DEF IsMessages

LEMMA TwoMessages ==
    ASSUME NEW m, NEW n, IsSequence(m.calls), IsSequence(n.calls)
    PROVE  IsMessages(<<m, n>>) /\ Len(<<m, n>>) = 2 /\ <<m, n>>[1] = m /\ <<m, n>>[2] = n
<1>1. <<m, n>> \in Seq({m, n}) /\ Len(<<m, n>>) = 2 /\ <<m, n>>[1] = m /\ <<m, n>>[2] = n
    OBVIOUS
<1>2. IsSequence(<<m, n>>)
    BY <1>1, SequencesAre, Zenon
<1>3. QED
    BY <1>1, <1>2 DEF IsMessages

(* The calls of a message are none, or the one of a tool                    *)
LEMMA CallsAre == IsSequence(<< >>) /\ \A id : IsSequence(<<id>>)
<1>1. << >> \in Seq({}) /\ \A id : <<id>> \in Seq({id})
    OBVIOUS
<1>2. IsSequence(<< >>)
    BY <1>1, SequencesAre, Zenon
<1>3. ASSUME NEW id PROVE IsSequence(<<id>>)
    BY <1>1, SequencesAre, Zenon
<1>4. QED
    BY <1>2, <1>3

LEMMA AppendKeeps ==
    ASSUME IInv, NEW w, NEW ms, IsMessages(ms), Store(ms),
           \A k \in 1..Len(ms) : ms[k].run = w,
           w \in Runs => ~LeftAnswer(run[w]),
           \A q \in Runs : LeftAnswer(run[q]) => LeftAnswer(run'[q]),
           w \in Runs => \A k \in 1..Len(ms) : FinalOf(w, ms[k]) => LeftAnswer(run'[w]) /\ k = Len(ms)
    PROVE  IsMessages(history)' /\ Finals'
<1>1. PICK h : h = history'
    OBVIOUS
<1>2. /\ h = history \o ms /\ IsSequence(history) /\ IsSequence(ms)
      /\ Len(history) \in Nat /\ Len(ms) \in Nat
    BY <1>1, LengthIs DEF Store, IInv, IsMessages
<1>3. /\ IsSequence(h) /\ Len(h) = Len(history) + Len(ms)
      /\ \A i \in 1..Len(history) : h[i] = history[i]
      /\ \A i \in 1..Len(ms) : h[Len(history) + i] = ms[i]
    BY <1>2, ConcatenationIs
<1>4. ASSUME NEW i \in 1..Len(h)
      PROVE  i \in 1..Len(history) \/ \E k \in 1..Len(ms) : i = Len(history) + k
    <2>1. CASE i <= Len(history)
        BY <1>2, <1>3, <2>1
    <2>2. CASE i > Len(history)
        <3>1. i - Len(history) \in 1..Len(ms) /\ i = Len(history) + (i - Len(history))
            BY <1>2, <1>3, <2>2
        <3>2. QED
            BY <3>1
    <2>3. QED
        BY <1>2, <1>3, <2>1, <2>2
<1>5. ASSUME NEW r \in Runs, NEW i \in 1..Len(h), FinalOf(r, h[i])
      PROVE  LeftAnswer(run'[r]) /\ \A j \in (i + 1)..Len(h) : h[j].run # r
    <2>1. CASE i \in 1..Len(history)
        <3>1. FinalOf(r, history[i])
            BY <1>3, <1>5, <2>1
        <3>2. LeftAnswer(run[r]) /\ \A j \in (i + 1)..Len(history) : history[j].run # r
            BY <2>1, <3>1 DEF IInv, Finals
        <3>3. r # w
            BY <3>2
        <3>4. ASSUME NEW j \in (i + 1)..Len(h) PROVE h[j].run # r
            <4>0. j \in 1..Len(h)
                BY <2>1, <1>2, <1>3
            <4>1. CASE j \in 1..Len(history)
                <5>1. j \in (i + 1)..Len(history)
                    BY <4>1, <2>1
                <5>2. QED
                    BY <1>3, <3>2, <4>1, <5>1
            <4>2. CASE \E k \in 1..Len(ms) : j = Len(history) + k
                BY <1>3, <3>3, <4>2
            <4>3. QED
                BY <1>4, <4>0, <4>1, <4>2
        <3>5. QED
            BY <3>2, <3>4
    <2>2. CASE \E k \in 1..Len(ms) : i = Len(history) + k
        <3>1. PICK k \in 1..Len(ms) : i = Len(history) + k
            BY <2>2
        <3>2. h[i] = ms[k]
            BY <1>3, <3>1
        <3>3. r = w
            BY <1>5, <3>2 DEF FinalOf
        <3>4. LeftAnswer(run'[r]) /\ k = Len(ms)
            BY <1>5, <3>2, <3>3
        <3>5. (i + 1)..Len(h) = {}
            BY <1>2, <1>3, <3>1, <3>4
        <3>6. QED
            BY <3>4, <3>5
    <2>3. QED
        BY <1>4, <2>1, <2>2
<1>6. IsMessages(history)'
    <2>1. ASSUME NEW i \in 1..Len(h) PROVE IsSequence(h[i].calls)
        <3>1. CASE i \in 1..Len(history)
            BY <1>3, <3>1 DEF IInv, IsMessages
        <3>2. CASE \E k \in 1..Len(ms) : i = Len(history) + k
            BY <1>3, <3>2 DEF IsMessages
        <3>3. QED
            BY <1>4, <2>1, <3>1, <3>2
    <2>2. IsMessages(h)
        BY <1>3, <2>1 DEF IsMessages
    <2>3. h \in Seq(Range(h)) /\ \A i \in 1..Len(h) : h[i].calls \in Seq(Range(h[i].calls))
        BY <2>2 DEF IsMessages, IsSequence
    <2>4. /\ history' \in Seq(Range(history'))
          /\ \A i \in 1..Len(history') : history'[i].calls \in Seq(Range(history'[i].calls))
        BY <1>1, <2>3, Zenon
    <2>5. QED
        BY <2>4 DEF IsMessages, IsSequence, Range
<1>7. Finals'
    BY <1>1, <1>5 DEF Finals, FinalOf, LeftAnswer
<1>8. QED
    BY <1>6, <1>7

LEMMA SameHistory ==
    ASSUME IInv, history' = history,
           \A q \in Runs : LeftAnswer(run[q]) => LeftAnswer(run'[q])
    PROVE  IsMessages(history)' /\ Finals'
<1>1. IsMessages(history)'
    BY DEF IInv, IsMessages, IsSequence, Range
<1>2. Finals'
    BY DEF IInv, Finals, FinalOf, LeftAnswer
<1>3. QED
    BY <1>1, <1>2

(* A run that has not ended stores messages of its own, and a final answer  *)
(* only as it ends with it                                                  *)
LEMMA StoreKeeps ==
    ASSUME IInv, NEW r \in Runs, Kept(r), RunStep(r) \/ Stop(r)
    PROVE  IsMessages(history)' /\ Finals'
<1>1. \A q \in Runs : LeftAnswer(run[q]) => LeftAnswer(run'[q])
    BY DEF Kept
<1>2. ASSUME run[r].at \notin {"leaving", "out"}, NEW ms, IsMessages(ms), Store(ms),
             \A k \in 1..Len(ms) : ms[k].run = r,
             \A k \in 1..Len(ms) : FinalOf(r, ms[k]) => LeftAnswer(run'[r]) /\ k = Len(ms)
      PROVE  IsMessages(history)' /\ Finals'
    <2>1. ~LeftAnswer(run[r])
        BY <1>2 DEF IInv, Fine, Ended, LeftAnswer
    <2>2. QED
        BY <1>1, <1>2, <2>1, AppendKeeps
<1>3. ASSUME NEW m, IsSequence(m.calls) PROVE IsMessages(<<m>>) /\ Len(<<m>>) = 1 /\ <<m>>[1] = m
    BY <1>3, OneMessage
<1>4. ASSUME NEW m, NEW n, IsSequence(m.calls), IsSequence(n.calls)
      PROVE  IsMessages(<<m, n>>) /\ Len(<<m, n>>) = 2 /\ <<m, n>>[1] = m /\ <<m, n>>[2] = n
    BY <1>4, TwoMessages
<1>5. ASSUME history' = history PROVE IsMessages(history)' /\ Finals'
    BY <1>1, <1>5, SameHistory
<1>6. ASSUME run[r].at \notin {"leaving", "out"}, Store(<<Message(r, "user", << >>, NoId)>>)
      PROVE  IsMessages(history)' /\ Finals'
    <2>1. PICK m : m = Message(r, "user", << >>, NoId)
        OBVIOUS
    <2>2. m.run = r /\ m.role = "user" /\ IsSequence(m.calls)
        BY <2>1, CallsAre DEF Message
    <2>3. Store(<<m>>)
        BY <1>6, <2>1
    <2>4. ~FinalOf(r, m)
        BY <2>2 DEF FinalOf
    <2>5. \A k \in 1..Len(<<m>>) : <<m>>[k] = m
        BY <1>3, <2>2
    <2>6. QED
        BY <1>2, <1>3, <1>6, <2>2, <2>3, <2>4, <2>5
<1>7. CASE StoreInput(r)
    BY <1>5, <1>6, <1>7 DEF StoreInput, StoreFails, At
<1>8. CASE Observe(r)
    BY <1>5, <1>6, <1>8 DEF Observe, StoreFails, At
<1>9. CASE StoreFinal(r)
    <2>1. CASE UNCHANGED history
        BY <1>5, <2>1
    <2>2. CASE Store(Final(r)) /\ (Remembers(r) \/ Leave(r, "unsure"))
        <3>1. PICK m : m = Message(r, "assistant", << >>, NoId)
            OBVIOUS
        <3>2. m.run = r /\ IsSequence(m.calls)
            BY <3>1, CallsAre DEF Message
        <3>3. Store(<<m>>)
            BY <2>2, <3>1 DEF Final
        <3>4. LeftAnswer(run'[r])
            <4>1. CASE Leave(r, "unsure")
                BY <4>1, LeaveIs DEF IInv, LeftAnswer
            <4>2. CASE Remembers(r)
                <5>1. PICK remembered \in BOOLEAN :
                          run' = [run EXCEPT ![r] = [NewRun EXCEPT !.at = "leaving", !.outcome = "final",
                                                                   !.remembered = remembered]]
                    BY <4>2 DEF Remembers
                <5> PICK y : y = [NewRun EXCEPT !.at = "leaving", !.outcome = "final", !.remembered = remembered]
                    OBVIOUS
                <5>2. LeftAnswer(y)
                    BY NewRunIs DEF LeftAnswer
                <5>3. run'[r] = y
                    BY <5>1, OneRun DEF IInv
                <5>4. QED
                    BY <5>2, <5>3
            <4>3. QED
                BY <2>2, <4>1, <4>2
        <3>5. \A k \in 1..Len(<<m>>) : <<m>>[k] = m /\ k = Len(<<m>>)
            BY <1>3, <3>2
        <3>6. run[r].at \notin {"leaving", "out"}
            BY <1>9 DEF StoreFinal, At
        <3>7. QED
            BY <1>2, <1>3, <3>2, <3>3, <3>4, <3>5, <3>6
    <2>3. QED
        BY <1>9, <2>1, <2>2 DEF StoreFinal, StoreFails
<1>10. CASE ExecuteTool(r)
    <2>1. CASE UNCHANGED history
        BY <1>5, <2>1
    <2>2. CASE Store(Batch(r))
        <3>1. PICK m : m = Message(r, "assistant", <<CurrentSlot(r).id>>, NoId)
            OBVIOUS
        <3>2. PICK n : n = Message(r, "tool", << >>, CurrentSlot(r).id)
            OBVIOUS
        <3>3. /\ m.run = r /\ n.run = r /\ n.role = "tool" /\ m.calls # << >>
              /\ IsSequence(m.calls) /\ IsSequence(n.calls)
            BY <3>1, <3>2, CallsAre DEF Message
        <3>4. Store(<<m, n>>)
            BY <2>2, <3>1, <3>2 DEF Batch
        <3>5. ~FinalOf(r, m) /\ ~FinalOf(r, n)
            BY <3>3 DEF FinalOf
        <3>6. \A k \in 1..Len(<<m, n>>) : <<m, n>>[k] \in {m, n}
            BY <1>4, <3>3
        <3>7. run[r].at \notin {"leaving", "out"}
            BY <1>10 DEF ExecuteTool, At
        <3>8. QED
            BY <1>2, <1>4, <3>3, <3>4, <3>5, <3>6, <3>7
    <2>3. QED
        BY <1>10, <2>1, <2>2 DEF ExecuteTool, StoreFails
<1>11. CASE ~(StoreInput(r) \/ Observe(r) \/ StoreFinal(r) \/ ExecuteTool(r))
    <2>1. history' = history
        BY <1>11 DEF RunStep, Stop, EnterRun, Reject, MaxStepsReached, StepBegins, BuildFails, Build,
                     Summarise, Ask, StoppedAfterAnswer, CheckTools, StepOver, LeaveRun
    <2>2. QED
        BY <1>5, <2>1
<1>12. QED
    BY <1>7, <1>8, <1>9, <1>10, <1>11

(* The summaries in the memory store are of sequences of messages, and      *)
(* their sizes, like those in the cache, are numbers                        *)
LEMMA SummariesKeep ==
    ASSUME IInv, NEW r \in Runs, RunStep(r) \/ Stop(r)
    PROVE  (\A s \in kept : IsSummary(s))'
<1>1. ASSUME kept' = kept PROVE (\A s \in kept : IsSummary(s))'
    BY <1>1 DEF IInv, IsSummary, IsSequence, Range
<1>2. CASE Summarise(r)
    <2> DEFINE ms == run[r].request.loaded
    <2>1. IsSequence(ms) /\ WantsSummary(ms)
        BY <1>2 DEF Summarise, At, IInv, Fine, Summarised, IsMessages
    <2>2. IsSequence(Older(ms))
        BY <2>1, OlderIs
    <2>3. PICK summary \in Summaries(Older(ms)) :
              IF summary # NoSummary /\ run[r].stop # "cancelled"
              THEN Remember(summary) /\ Persist(summary) ELSE UNCHANGED contextVars
        BY <1>2 DEF Summarise
    <2>4. CASE UNCHANGED contextVars
        BY <1>1, <2>4 DEF contextVars
    <2>5. CASE summary # NoSummary /\ Persist(summary)
        <3>1. summary.of = Older(ms) /\ summary.size \in Nat
            BY <2>2, <2>5, SummariesAre DEF IInv, IsSummary
        <3>2. \A s \in kept' : s \in kept \/ s = summary
            BY <2>5 DEF Persist
        <3>3. \A s \in kept' : IsSummary(s)
            BY <2>2, <3>1, <3>2 DEF IInv, IsSummary
        <3>4. QED
            BY <3>3 DEF IsSummary, IsSequence, Range
    <2>6. QED
        BY <2>3, <2>4, <2>5
<1>3. CASE ~Summarise(r)
    <2>1. kept' = kept
        BY <1>3 DEF RunStep, Stop, EnterRun, Reject, StoreInput, MaxStepsReached, StepBegins, BuildFails, Build,
                    Ask, StoppedAfterAnswer, StoreFinal, CheckTools, ExecuteTool, Observe, StepOver,
                    LeaveRun, contextVars
    <2>2. QED
        BY <1>1, <2>1
<1>4. QED
    BY <1>2, <1>3
LEMMA CacheAppends ==
    ASSUME NEW c, IsCache(c), NEW others \in Seq(Range(c)), NEW summary, summary.size \in Nat
    PROVE  IsCache(Append(others, summary))
<1> DEFINE S == Range(c) \cup {summary}
           d == Append(others, summary)
<1>1. others \in Seq(S) /\ summary \in S /\ \A s \in S : s.size \in Nat
    BY DEF IsCache
<1> HIDE DEF S
<1>2. d \in Seq(S)
    BY <1>1
<1> HIDE DEF d
<1>3. \A s \in Range(d) : s \in S
    BY <1>2 DEF Range
<1>4. IsSequence(d)
    BY <1>2, SequencesAre
<1>5. IsCache(d)
    BY <1>1, <1>3, <1>4 DEF IsCache
<1>6. QED
    BY <1>5 DEF d

LEMMA CacheRemoves ==
    ASSUME NEW S, NEW c \in Seq(S), NEW i \in 1..Len(c)
    PROVE  RemoveAt(c, i) \in Seq(S)
<1>1. SubSeq(c, 1, i - 1) \in Seq(S) /\ SubSeq(c, i + 1, Len(c)) \in Seq(S)
    OBVIOUS
<1>2. QED
    BY <1>1 DEF RemoveAt

LEMMA CacheKeeps ==
    ASSUME IInv, NEW r \in Runs, RunStep(r) \/ Stop(r)
    PROVE  IsCache(cache)'
<1>1. ASSUME cache' = cache PROVE IsCache(cache)'
    BY <1>1 DEF IInv, IsCache, IsSequence, Range
<1>2. ASSUME NEW others \in Seq(Range(cache)), NEW summary, summary.size \in Nat,
             cache' = Append(others, summary)
      PROVE  IsCache(cache)'
    <2>1. PICK c : c = cache'
        OBVIOUS
    <2>2. IsCache(c)
        BY <1>2, <2>1, CacheAppends DEF IInv
    <2>3. QED
        BY <2>1, <2>2 DEF IsCache, IsSequence, Range
<1>3. cache \in Seq(Range(cache)) /\ Len(cache) \in Nat
    BY LengthIs DEF IInv, IsCache, IsSequence
<1>4. ASSUME NEW summary, summary.size \in Nat, Remember(summary) PROVE IsCache(cache)'
    <2> DEFINE others == IF InCache(summary.of) THEN RemoveAt(cache, CacheSlot(summary.of))
                         ELSE IF Len(cache) < CacheSlots THEN cache ELSE Tail(cache)
    <2>1. CASE InCache(summary.of)
        <3>1. CacheSlot(summary.of) \in 1..Len(cache)
            BY <2>1 DEF InCache, CacheSlot
        <3>2. QED
            BY <1>2, <1>3, <1>4, <2>1, <3>1, CacheRemoves DEF Remember
    <2>2. CASE ~InCache(summary.of) /\ Len(cache) < CacheSlots
        BY <1>2, <1>3, <1>4, <2>2 DEF Remember
    <2>3. CASE ~InCache(summary.of) /\ ~(Len(cache) < CacheSlots)
        <3>1. cache # << >>
            BY <1>3, <2>3, ContextAssumption
        <3>2. Tail(cache) \in Seq(Range(cache))
            BY <1>3, <3>1
        <3>3. QED
            BY <1>2, <1>4, <2>3, <3>2 DEF Remember
    <2>4. QED
        BY <2>1, <2>2, <2>3
<1>5. CASE Build(r)
    <2> DEFINE older == Older(Loaded(history))
    <2>1. CASE UNCHANGED cache
        BY <1>1, <2>1
    <2>2. CASE InCache(older) /\ Touch(CacheSlot(older))
        <3>1. CacheSlot(older) \in 1..Len(cache)
            BY <2>2 DEF InCache, CacheSlot
        <3>2. cache[CacheSlot(older)] \in Range(cache)
            BY <1>3, <3>1 DEF Range
        <3>3. cache[CacheSlot(older)].size \in Nat
            BY <3>2 DEF IInv, IsCache
        <3>4. RemoveAt(cache, CacheSlot(older)) \in Seq(Range(cache))
            BY <1>3, <3>1, CacheRemoves
        <3>5. QED
            BY <1>2, <2>2, <3>3, <3>4 DEF Touch
    <2>3. CASE InStore(older) /\ Remember(Stored(older))
        <3>1. Stored(older) \in kept
            BY <2>3 DEF InStore, Stored
        <3>2. QED
            BY <1>4, <2>3, <3>1 DEF IInv, IsSummary
    <2>4. QED
        BY <1>5, <2>1, <2>2, <2>3 DEF Build, contextVars
<1>6. CASE Summarise(r)
    <2> DEFINE ms == run[r].request.loaded
    <2>1. IsSequence(ms) /\ WantsSummary(ms)
        BY <1>6 DEF Summarise, At, IInv, Fine, Summarised, IsMessages
    <2>2. IsSequence(Older(ms))
        BY <2>1, OlderIs
    <2>3. PICK summary \in Summaries(Older(ms)) :
              IF summary # NoSummary /\ run[r].stop # "cancelled"
              THEN Remember(summary) /\ Persist(summary) ELSE UNCHANGED contextVars
        BY <1>6 DEF Summarise
    <2>4. CASE UNCHANGED contextVars
        BY <1>1, <2>4 DEF contextVars
    <2>5. CASE summary # NoSummary /\ Remember(summary)
        <3>1. summary.size \in Nat
            BY <2>2, <2>5, SummariesAre DEF IInv, IsSummary
        <3>2. QED
            BY <1>4, <2>5, <3>1
    <2>6. QED
        BY <2>3, <2>4, <2>5
<1>7. CASE ~(Build(r) \/ Summarise(r))
    <2>1. cache' = cache
        BY <1>7 DEF RunStep, Stop, EnterRun, Reject, StoreInput, MaxStepsReached, StepBegins, BuildFails,
                    Ask, StoppedAfterAnswer, StoreFinal, CheckTools, ExecuteTool, Observe, StepOver,
                    LeaveRun, contextVars
    <2>2. QED
        BY <1>1, <2>1
<1>8. QED
    BY <1>5, <1>6, <1>7
-----------------------------------------------------------------------------
(* The invariant *)

LEMMA InitKeeps == Init => IInv
<1> SUFFICES ASSUME Init PROVE IInv
    OBVIOUS
<1>1. /\ run = [r \in Runs |-> NewRun] /\ history = << >> /\ cache = << >> /\ kept = {}
    BY DEF Init, ContextInit
<1>2. << >> \in Seq({})
    OBVIOUS
<1>3. IsSequence(<< >>) /\ Len(<< >>) = 0
    <2>1. IsSequence(<< >>)
        BY <1>2, SequencesAre, Zenon
    <2>2. QED
        BY <2>1
<1>4. \A r \in Runs : Fine(run[r])
    BY <1>1, InitFine
<1>5. run = [r \in Runs |-> run[r]]
    BY <1>1
<1>6. Finals
    BY <1>1, <1>3 DEF Finals
<1>7. IsMessages(<< >>) /\ IsCache(<< >>)
    <2>1. Range(<< >>) = {}
        BY DEF Range
    <2>2. QED
        BY <1>3, <2>1 DEF IsMessages, IsCache
<1>8. QED
    BY <1>1, <1>4, <1>5, <1>6, <1>7 DEF IInv

LEMMA RunKept ==
    ASSUME IInv, NEW r \in Runs, RunStep(r) \/ Stop(r)
    PROVE  Kept(r)
    BY EntryKeeps, BuildKeeps, AnswerKeeps, ToolsKeep, LeaveOrStopKeeps DEF RunStep

LEMMA NextKeeps ==
    ASSUME IInv, [Next]_vars
    PROVE  IInv'
<1>1. ASSUME NEW r \in Runs, RunStep(r) \/ Stop(r) PROVE IInv'
    <2>1. Kept(r)
        BY <1>1, RunKept
    <2>2. \A q \in Runs : Fine(run'[q])
        BY <2>1 DEF Kept, IInv
    <2>3. IsMessages(history)' /\ Finals'
        BY <1>1, <2>1, StoreKeeps
    <2>4. (\A s \in kept : IsSummary(s))' /\ IsCache(cache)'
        BY <1>1, SummariesKeep, CacheKeeps
    <2>5. run' = [q \in Runs |-> run'[q]]
        BY <2>1 DEF Kept
    <2>6. (\A q \in Runs : Fine(run[q]))'
        BY <2>2
    <2>7. QED
        BY <2>3, <2>4, <2>5, <2>6 DEF IInv
<1>2. ASSUME run' = run, kept' = kept, cache' = cache, (IsMessages(history) /\ Finals)' PROVE IInv'
    <2>1. (\A q \in Runs : Fine(run[q]))'
        BY <1>2 DEF IInv
    <2>2. (\A s \in kept : IsSummary(s))'
        BY <1>2 DEF IInv, IsSummary, IsSequence, Range
    <2>3. IsCache(cache)'
        BY <1>2 DEF IInv, IsCache, IsSequence, Range
    <2>4. QED
        BY <1>2, <2>1, <2>2, <2>3 DEF IInv
<1>3. CASE ClearSession
    <2>1. run' = run /\ kept' = kept /\ cache' = cache /\ history' = << >>
        BY <1>3 DEF ClearSession, contextVars
    <2>2. << >> \in Seq({})
        OBVIOUS
    <2>3. IsSequence(<< >>)
        BY <2>2, SequencesAre, Zenon
    <2>4. Len(<< >>) = 0
        OBVIOUS
    <2>5. IsMessages(history)'
        BY <2>1, <2>3, <2>4 DEF IsMessages, IsSequence, Range
    <2>6. Finals'
        BY <2>1, <2>4 DEF Finals
    <2>7. QED
        BY <1>2, <2>1, <2>5, <2>6
<1>4. CASE OtherRuntime
    <2>1. PICK m : m = Message(Other, "assistant", <<"b">>, NoId)
        OBVIOUS
    <2>2. PICK n : n = Message(Other, "tool", << >>, "b")
        OBVIOUS
    <2>3. m.run = Other /\ n.run = Other /\ IsSequence(m.calls) /\ IsSequence(n.calls)
        BY <2>1, <2>2, CallsAre DEF Message
    <2>4. Store(<<m, n>>) /\ run' = run /\ kept' = kept /\ cache' = cache
        BY <1>4, <2>1, <2>2 DEF OtherRuntime, contextVars
    <2>5. IsMessages(<<m, n>>)
        BY <2>3, TwoMessages
    <2>6. \A k \in 1..Len(<<m, n>>) : <<m, n>>[k].run = Other
        <3>1. Len(<<m, n>>) = 2 /\ <<m, n>>[1] = m /\ <<m, n>>[2] = n
            OBVIOUS
        <3>2. QED
            BY <2>3, <3>1
    <2>7. IsMessages(history)' /\ Finals'
        BY <2>4, <2>5, <2>6, AppendKeeps, RuntimeAssumption
    <2>8. QED
        BY <1>2, <2>4, <2>7
<1>5. CASE UNCHANGED vars
    <2>1. run' = run /\ kept' = kept /\ cache' = cache /\ history' = history
        BY <1>5 DEF vars, runVars, contextVars
    <2>2. QED
        BY <1>2, <2>1, SameHistory
<1>6. QED
    BY <1>1, <1>3, <1>4, <1>5 DEF Next

(* Every run is where its executed tools, its request and its outcome say   *)
(* it is, and the session holds a final answer of it only if it ended with  *)
(* one or its store reported an error, as the last of its messages.         *)
THEOREM AgentInvariant == Spec => []IInv
<1>1. IInv /\ [Next]_vars => IInv'
    BY NextKeeps
<1>2. QED
    BY InitKeeps, <1>1, PTL DEF Spec

(* However runs that share a session fail, are cancelled or reach a limit,  *)
(* a final answer in the history is of a run that returned it or to which   *)
(* the store of it reported an error, and nothing of that run is after it   *)
(* (cc_agent_runtime_handle_message_internal).                              *)
THEOREM FinalAnswersReturned == Spec => []FinalOnlyIfReturned
<1>1. ASSUME IInv PROVE FinalOnlyIfReturned
    <2>1. \A r \in Runs : run[r].remembered => run[r].outcome = "final"
        BY <1>1 DEF IInv, Fine, Ended
    <2>2. QED
        BY <1>1, <2>1 DEF IInv, Finals, FinalOnlyIfReturned, LeftAnswer
<1>2. QED
    BY AgentInvariant, <1>1, PTL

(* A summary that is sent stands for exactly the messages that are left     *)
(* out, whether it was cached, stored, or made of the longest one of a      *)
(* beginning (summary_cache_lookup, summary_persistent_predecessor).        *)
THEOREM SummariesStand == Spec => []SummaryIsOfWhatIsLeftOut
<1>1. ASSUME IInv PROVE SummaryIsOfWhatIsLeftOut
    BY <1>1 DEF IInv, Fine, Summarised, Standing, SummaryIsOfWhatIsLeftOut, At
<1>2. QED
    BY AgentInvariant, <1>1, PTL

(* However failures, cuts by the budget and clears meet, the tool messages  *)
(* of a request answer, one for one, the calls of the assistant message     *)
(* right before them, and what is sent fits in the budget                   *)
(* (append_history_range_sanitized, cc_context_builder_build_messages).     *)
THEOREM RequestsAreWellFormed == Spec => []RequestIsWellFormed
<1>1. ASSUME IInv PROVE RequestIsWellFormed
    BY <1>1 DEF IInv, Fine, Summarised, WellFormed, Paired, RequestIsWellFormed, At
<1>2. QED
    BY AgentInvariant, <1>1, PTL
-----------------------------------------------------------------------------
(* Tools are executed once *)

(* Only the execution of a tool adds to what a run has executed             *)
LEMMA NothingElseRuns ==
    ASSUME IInv, NEW r \in Runs, RunStep(r) \/ Stop(r),
           ~(ExecuteTool(r) /\ Store(Batch(r)) /\ run' = [run EXCEPT ![r].at = "observing", ![r].ran = Ran(r)])
    PROVE  run'[r].ran = run[r].ran \/ run'[r].ran = << >>
<1>0. run = [q \in Runs |-> run[q]] /\ IsRun(run[r])
    BY DEF IInv, Fine
<1>1. ASSUME NEW outcome, Leave(r, outcome) PROVE run'[r].ran = << >>
    BY <1>0, <1>1, LeaveIs
<1>2. ASSUME Fail(r) PROVE run'[r].ran = << >>
    BY <1>1, <1>2 DEF Fail
<1>3. ASSUME NEW place, Go(r, place) PROVE run'[r].ran = run[r].ran
    BY <1>0, <1>3 DEF Go, IsRun
<1>4. ASSUME NEW request, Requested(r, request) PROVE run'[r].ran = run[r].ran
    BY <1>0, <1>4 DEF Requested, IsRun
<1>5. CASE EnterRun(r)
    BY <1>0, <1>3, <1>5 DEF EnterRun, IsRun
<1>6. CASE Reject(r) \/ StoreInput(r) \/ MaxStepsReached(r) \/ BuildFails(r) \/ StoppedAfterAnswer(r)
           \/ StepOver(r) \/ LeaveRun(r)
    BY <1>1, <1>2, <1>3, <1>6 DEF Reject, StoreInput, MaxStepsReached, BuildFails, StoppedAfterAnswer,
                                  StepOver, LeaveRun
<1>7. CASE StepBegins(r)
    BY <1>0, <1>2, <1>7 DEF StepBegins, IsRun
<1>8. CASE Build(r)
    BY <1>0, <1>4, <1>8 DEF Build, IsRun
<1>9. CASE Summarise(r)
    BY <1>2, <1>4, <1>9 DEF Summarise
<1>10. CASE Ask(r)
    <2>1. ASSUME NEW ctx, run' = [run EXCEPT ![r].at = "answered", ![r].ctx = ctx, ![r].request = NoRequest]
          PROVE  run'[r].ran = run[r].ran
        BY <1>0, <2>1 DEF IsRun
    <2>2. QED
        BY <1>2, <1>10, <2>1 DEF Ask
<1>11. CASE StoreFinal(r)
    <2>1. ASSUME Remembers(r) PROVE run'[r].ran = << >>
        <3>1. PICK remembered \in BOOLEAN :
                  run' = [run EXCEPT ![r] = [NewRun EXCEPT !.at = "leaving", !.outcome = "final",
                                                           !.remembered = remembered]]
            BY <2>1 DEF Remembers
        <3>2. [NewRun EXCEPT !.at = "leaving", !.outcome = "final", !.remembered = remembered].ran = << >>
            BY NewRunIs
        <3>3. QED
            BY <1>0, <3>1, <3>2
    <2>2. QED
        BY <1>1, <1>2, <1>11, <2>1 DEF StoreFinal
<1>12. CASE CheckTools(r)
    BY <1>0, <1>2, <1>12 DEF CheckTools, IsRun
<1>13. CASE ExecuteTool(r)
    BY <1>2, <1>13 DEF ExecuteTool
<1>14. CASE Observe(r)
    BY <1>0, <1>2, <1>14 DEF Observe, IsRun
<1>15. CASE Stop(r)
    BY <1>0, <1>15 DEF Stop, IsRun
<1>16. QED
    BY <1>5, <1>6, <1>7, <1>8, <1>9, <1>10, <1>11, <1>12, <1>13, <1>14, <1>15 DEF RunStep

InOrder(r) ==
    Len(run'[r].ran) > Len(run[r].ran) =>
          /\ history' = history \o Batch(r)
          /\ LET next == Last(run'[r].ran) IN
                \/ next = <<run[r].step, 1>> /\ \A i \in 1..Len(run[r].ran) : run[r].ran[i][1] < next[1]
                \/ run[r].ran # << >> /\ next = <<run[r].step, Last(run[r].ran)[2] + 1>>

LEMMA ToolsInOrder ==
    ASSUME IInv, [Next]_vars, NEW r \in Runs
    PROVE  InOrder(r)
<1>0. run = [q \in Runs |-> run[q]] /\ Fine(run[r]) /\ IsRun(run[r])
    BY DEF IInv, Fine
<1>1. PICK x : x = run[r]
    OBVIOUS
<1>2. x.ran \in Seq(Nat \X Nat) /\ Len(x.ran) \in Nat /\ x.step \in Nat /\ x.slot \in Nat /\ Progress(x)
    BY <1>0, <1>1 DEF IsRun, Fine
<1>3. ASSUME run'[r].ran = x.ran \/ run'[r].ran = << >> PROVE InOrder(r)
    <2>1. ~(Len(run'[r].ran) > Len(run[r].ran))
        BY <1>1, <1>2, <1>3
    <2>2. QED
        BY <2>1 DEF InOrder
<1>4. ASSUME ExecuteTool(r), Store(Batch(r)), run' = [run EXCEPT ![r].at = "observing", ![r].ran = Ran(r)]
      PROVE  InOrder(r)
    <2>1. run'[r].ran = Append(x.ran, <<x.step, x.slot>>)
        BY <1>0, <1>1, <1>4 DEF Ran, IsRun
    <2>2. Last(run'[r].ran) = <<x.step, x.slot>>
        BY <1>2, <2>1 DEF Last
    <2>3. history' = history \o Batch(r)
        BY <1>4 DEF Store
    <2>4. x.at = "executing"
        BY <1>1, <1>4 DEF ExecuteTool, At
    <2>5. CASE x.slot = 1
        <3>1. \A i \in 1..Len(x.ran) : x.ran[i][1] < x.step
            BY <1>2, <2>4, <2>5 DEF Progress, Earlier
        <3>2. QED
            BY <1>1, <2>2, <2>3, <2>5, <3>1 DEF InOrder
    <2>6. CASE x.slot # 1
        <3>1. x.ran # << >> /\ Last(x.ran) = <<x.step, x.slot - 1>>
            BY <1>2, <2>4, <2>6 DEF Progress
        <3>2. Last(x.ran)[2] + 1 = x.slot
            BY <1>2, <3>1
        <3>3. QED
            BY <1>1, <2>2, <2>3, <3>1, <3>2 DEF InOrder
    <2>7. QED
        BY <2>5, <2>6
<1>5. ASSUME NEW q \in Runs, RunStep(q) \/ Stop(q) PROVE InOrder(r)
    <2>1. CASE q = r
        BY <1>1, <1>3, <1>4, <1>5, <2>1, NothingElseRuns
    <2>2. CASE q # r
        <3>1. run'[r] = run[r]
            BY <1>5, <2>2, RunKept DEF Kept
        <3>2. QED
            BY <1>1, <1>3, <3>1
    <2>3. QED
        BY <2>1, <2>2
<1>6. ASSUME run' = run PROVE InOrder(r)
    BY <1>1, <1>3, <1>6
<1>7. QED
    BY <1>5, <1>6 DEF Next, ClearSession, OtherRuntime, vars, runVars

(* A run executes the tools of an answer one by one in its order and none   *)
(* twice, and goes on after a tool only when its call and its result are    *)
(* stored next to each other (execute_pending_tools).                       *)
THEOREM ToolsOneByOne == Spec => ToolsRunOnce
<1>1. IInv /\ [Next]_vars => [\A r \in Runs : InOrder(r)]_vars
    BY ToolsInOrder
<1>2. IInv /\ [Next]_vars => 
          [\A r \in Runs : Len(run'[r].ran) > Len(run[r].ran) =>
             /\ history' = history \o Batch(r)
             /\ LET next == Last(run'[r].ran) IN
                   \/ next = <<run[r].step, 1>> /\ \A i \in 1..Len(run[r].ran) : run[r].ran[i][1] < next[1]
                   \/ run[r].ran # << >> /\ next = <<run[r].step, Last(run[r].ran)[2] + 1>>]_vars
    BY <1>1 DEF InOrder
<1>3. QED
    BY <1>2, AgentInvariant, PTL DEF Spec, ToolsRunOnce
-----------------------------------------------------------------------------
(* The HTTP client *)

(* The records of calls and pools keep their fields.                      *)
HasFields ==
    /\ DOMAIN call = Callers /\ \A c \in Callers : DOMAIN call[c] = DOMAIN Fresh(c, 0)
    /\ DOMAIN pools = Pools
    /\ \A p \in Pools : /\ DOMAIN pools[p] = {"holder", "handle", "stale", "cooldown", "recover"}
                        /\ DOMAIN pools[p].handle = DOMAIN NoHandle
    /\ reset = [phase |-> reset.phase, locked |-> reset.locked] /\ reset.locked \in 0..Len(PoolOrder)

(* From the lock of its pool to the end of its exchange a call holds the  *)
(* pool, and only an exchange that has failed has no handle of its own.   *)
Holding == OnTheWire \cup {"attempt", "failed", "completed"}
Held(c) == call[c].phase \in Holding => pools[PoolOf(c)].holder = c
HasHandle(c) ==
    call[c].phase \in OnTheWire =>
        LET h == pools[PoolOf(c)].handle IN
        h.client /\ h.origin = call[c].origin /\ h.shape = call[c].shape

(* An exchange that ends well has been read to its end, and one that     *)
(* begins finds no unread handle that may be used again.                  *)
EndsRead(c) ==
    /\ call[c].phase # "buffered"
    /\ call[c].phase = "attempt" =>
          LET h == pools[PoolOf(c)].handle IN h.client /\ h.healthy => ~h.unread
    /\ call[c].phase = "failed" => call[c].rc # "ok"
    /\ call[c].phase = "completed" /\ call[c].rc = "ok" => ~pools[PoolOf(c)].handle.unread

Clean(p) ==
    pools[p].holder = Free /\ pools[p].handle.client /\ pools[p].handle.healthy => ~pools[p].handle.unread

(* A reset has the pools it has come by.                                  *)
ResetHolds ==
    /\ reset.phase # "locking" => reset.locked = 0
    /\ reset.phase = "locking" => \A i \in 1..reset.locked : pools[PoolOrder[i]].holder = Resetter

ClientInv ==
    Esp => /\ HasFields /\ ResetHolds
           /\ \A c \in Callers : Held(c) /\ HasHandle(c) /\ EndsRead(c)
           /\ \A p \in Pools : Clean(p)

StepOf(c) ==
    LET q == PoolOf(c) IN
    /\ DOMAIN call' = DOMAIN call /\ \A d \in Callers \ {c} : call'[d] = call[d]
    /\ DOMAIN call'[c] = DOMAIN call[c]
    /\ DOMAIN pools' = DOMAIN pools /\ \A p \in Pools \ {q} : pools'[p] = pools[p]
    /\ DOMAIN pools'[q] = DOMAIN pools[q] /\ DOMAIN pools'[q].handle = DOMAIN pools[q].handle
    /\ \/ pools'[q] = pools[q]
       \/ pools[q].holder \in {c, Free} /\ pools'[q].holder \in {c, Free}
    /\ platform' = platform /\ reset' = reset

(* A step of one call disturbs no other, as long as it leaves a pool alone*)
(* that another one holds, and its own call and pool in order.            *)
LEMMA CallKeepsOthers ==
    ASSUME NEW c \in Callers, ClientInv, StepOf(c), Esp,
           Held(c)', HasHandle(c)', EndsRead(c)', Clean(PoolOf(c))'
    PROVE  ClientInv'
<1>1. Free \notin Callers /\ Resetter \notin Callers /\ PoolOf(c) \in Pools /\ Free # Resetter
    BY PoolAssumption DEF Free, Resetter
<1>2. HasFields'
    BY <1>1, ZenonT(40) DEF ClientInv, HasFields, StepOf, Fresh, Pools, PoolOf
<1>3. ResetHolds'
    <2>1. SUFFICES ASSUME (reset.phase = "locking")', NEW i \in (1..reset.locked)'
                   PROVE  pools'[PoolOrder[i]].holder = Resetter
        BY DEF ResetHolds, ClientInv, StepOf
    <2>2. PoolOrder[i] \in Pools /\ pools[PoolOrder[i]].holder = Resetter
        BY <2>1 DEF ClientInv, HasFields, ResetHolds, StepOf, Pools
    <2>3. QED
        BY <1>1, <2>2 DEF StepOf
<1>4. ASSUME NEW d \in Callers PROVE Held(d)' /\ HasHandle(d)' /\ EndsRead(d)'
    <2>1. CASE d = c
        BY <2>1
    <2>2. CASE d # c
        <3>1. PoolOf(d) \in Pools /\ call'[d] = call[d] /\ d \notin {c, Free}
            BY <1>1, <2>2, PoolAssumption DEF StepOf
        <3>2. Held(d) /\ HasHandle(d) /\ EndsRead(d)
            BY DEF ClientInv
        <3>3. call[d].phase \in Holding => pools'[PoolOf(d)] = pools[PoolOf(d)]
            BY <3>1, <3>2 DEF Held, StepOf
        <3>4. QED
            BY <3>1, <3>2, <3>3 DEF Held, HasHandle, EndsRead, Holding, OnTheWire
    <2>3. QED
        BY <2>1, <2>2
<1>5. ASSUME NEW p \in Pools PROVE Clean(p)'
    BY DEF ClientInv, Clean, StepOf
<1>6. QED
    BY <1>2, <1>3, <1>4, <1>5 DEF ClientInv

PoolFields(p) ==
    DOMAIN p = {"holder", "handle", "stale", "cooldown", "recover"} /\ DOMAIN p.handle = DOMAIN NoHandle

(* What a failure and a success leave of a handle                         *)
LEMMA FailureCloses ==
    ASSUME NEW c, NEW p, PoolFields(p)
    PROVE  /\ PoolFields(NoteFailure(c, p)) /\ NoteFailure(c, p).holder = p.holder
           /\ ~NoteFailure(c, p).handle.client
BY DEF PoolFields, NoteFailure, NoHandle

LEMMA SuccessKeeps ==
    ASSUME NEW c, NEW p, PoolFields(p)
    PROVE  PoolFields(NoteSuccess(c, p)) /\ NoteSuccess(c, p).handle.unread = p.handle.unread
BY DEF PoolFields, NoteSuccess, NoHandle

LEMMA OneCall ==
    ASSUME NEW c \in Callers, ClientInv, Esp
    PROVE  /\ PoolOf(c) \in Pools /\ c # Free /\ c # Resetter
           /\ DOMAIN call = Callers /\ DOMAIN call[c] = DOMAIN Fresh(c, 0)
           /\ DOMAIN pools = Pools
           /\ PoolFields(pools[PoolOf(c)])
           /\ Held(c) /\ HasHandle(c) /\ EndsRead(c) /\ Clean(PoolOf(c))
BY PoolAssumption DEF ClientInv, HasFields, PoolFields

OneInOrder(c) == Held(c) /\ HasHandle(c) /\ EndsRead(c) /\ Clean(PoolOf(c))

(* Steps that leave the pools as they are                                 *)
LEMMA CallSteps ==
    ASSUME NEW c \in Callers, ClientInv, Esp,
           \/ Perform(c) \/ Start(c) \/ TakeConfig(c) \/ DeadlineExpired(c) \/ DataRefused(c)
           \/ CancelSeen(c) \/ PeerCloses(c) \/ HeadersCut(c) \/ ExchangeFails(c) \/ Return(c) \/ Cancel(c)
    PROVE  ClientInv'
<1>1. SUFFICES StepOf(c) /\ OneInOrder(c)'
    BY CallKeepsOthers DEF OneInOrder
<1> USE OneCall DEF StepOf, PoolFields, InOrder, Held, HasHandle, EndsRead, Clean, Holding, OnTheWire,
                    To, Ends, Esp, Fresh
<1>2. CASE Perform(c)
    BY <1>2 DEF Perform, StepOf, PoolFields, OneInOrder, Held, HasHandle, EndsRead,
                         Clean, Holding, OnTheWire, To, Ends, Esp, Fresh
<1>3. CASE Start(c)
    BY <1>3 DEF Start, StepOf, PoolFields, OneInOrder, Held, HasHandle, EndsRead, Clean,
                         Holding, OnTheWire, To, Ends, Esp, Fresh
<1>4. CASE TakeConfig(c)
    BY <1>4 DEF TakeConfig, StepOf, PoolFields, OneInOrder, Held, HasHandle, EndsRead,
                         Clean, Holding, OnTheWire, To, Ends, Esp, Fresh
<1>5. CASE DeadlineExpired(c)
    BY <1>5 DEF DeadlineExpired, Freed, StepOf, PoolFields, OneInOrder, Held, HasHandle,
                         EndsRead, Clean, Holding, OnTheWire, To, Ends, Esp, Fresh
<1>6. CASE DataRefused(c)
    BY <1>6 DEF DataRefused, StepOf, PoolFields, OneInOrder, Held, HasHandle, EndsRead,
                         Clean, Holding, OnTheWire, To, Ends, Esp, Fresh
<1>7. CASE CancelSeen(c)
    BY <1>7 DEF CancelSeen, StepOf, PoolFields, OneInOrder, Held, HasHandle, EndsRead,
                         Clean, Holding, OnTheWire, To, Ends, Esp, Fresh
<1>8. CASE PeerCloses(c)
    BY <1>8 DEF PeerCloses, StepOf, PoolFields, OneInOrder, Held, HasHandle, EndsRead,
                         Clean, Holding, OnTheWire, To, Ends, Esp, Fresh
<1>9. CASE Return(c)
    BY <1>9 DEF Return, StepOf, PoolFields, OneInOrder, Held, HasHandle, EndsRead, Clean,
                         Holding, OnTheWire, To, Ends, Esp, Fresh
<1>10. CASE Cancel(c)
    BY <1>10 DEF Cancel, StepOf, PoolFields, OneInOrder, Held, HasHandle, EndsRead,
                          Clean, Holding, OnTheWire, To, Ends, Esp, Fresh
<1>11. CASE ExchangeFails(c)
    <2>1. PICK again \in BOOLEAN :
             call' = [call EXCEPT ![c].phase = "failed", ![c].retryable = again, ![c].rc = "network"]
        BY <1>11 DEF ExchangeFails
    <2>2. QED
        BY <1>11, <2>1, ZenonT(40) DEF ExchangeFails, StepOf, PoolFields, OneInOrder, Held,
                                    HasHandle, EndsRead, Clean, Holding, OnTheWire, To, Ends, Esp,
                                    Fresh
<1>12. CASE HeadersCut(c)
    BY <1>12 DEF HeadersCut, PeerClosesInHeaders
<1>13. QED
    BY <1>2, <1>3, <1>4, <1>5, <1>6, <1>7, <1>8, <1>9, <1>10, <1>11, <1>12

LEMMA HeadersKeeps ==
    ASSUME NEW c \in Callers, ClientInv, Esp, NEW status, NEW body, Headers(c, status, body)
    PROVE  ClientInv'
<1>1. StepOf(c) /\ OneInOrder(c)'
    BY OneCall DEF Headers, StepOf, PoolFields, OneInOrder, Held, HasHandle, EndsRead, Clean,
                   Holding, OnTheWire, To, Ends, Esp, Fresh
<1>2. QED
    BY <1>1, CallKeepsOthers DEF OneInOrder

LEMMA BodyArrivesKeeps ==
    ASSUME NEW c \in Callers, ClientInv, Esp, NEW n, NEW rc, BodyArrives(c, n, rc)
    PROVE  ClientInv'
<1>1. StepOf(c) /\ OneInOrder(c)'
    BY OneCall DEF BodyArrives, StepOf, PoolFields, OneInOrder, Held, HasHandle, EndsRead, Clean,
                   Holding, OnTheWire, To, Ends, Esp, Fresh
<1>2. QED
    BY <1>1, CallKeepsOthers DEF OneInOrder

LEMMA BufferedBodyKeeps ==
    ASSUME NEW c \in Callers, ClientInv, Esp, NEW rc, BufferedBody(c, rc)
    PROVE  ClientInv'
<1>1. StepOf(c) /\ OneInOrder(c)'
    BY OneCall DEF BufferedBody, StepOf, PoolFields, OneInOrder, Held, HasHandle, EndsRead, Clean,
                   Holding, OnTheWire, To, Ends, Esp, Fresh
<1>2. QED
    BY <1>1, CallKeepsOthers DEF OneInOrder

LEMMA TakePoolKeeps == ASSUME NEW c \in Callers, ClientInv, Esp, TakePool(c) PROVE ClientInv'
<1>1. StepOf(c)
    BY OneCall DEF TakePool, StepOf, PoolFields, Held, Holding, OnTheWire, To, Ends, Esp, Fresh
<1>2. OneInOrder(c)'
    BY OneCall DEF TakePool, OneInOrder, PoolFields, Held, HasHandle, EndsRead, Clean, Holding,
                   OnTheWire, To, Ends, Esp, Fresh
<1>3. QED
    BY <1>1, <1>2, CallKeepsOthers DEF OneInOrder

LEMMA BeginAttemptKeeps ==
    ASSUME NEW c \in Callers, ClientInv, Esp, BeginAttempt(c)
    PROVE  ClientInv'
<1>1. StepOf(c)
    BY OneCall DEF BeginAttempt, StepOf, PoolFields, Held, Holding, OnTheWire, To, Ends, Esp,
                   Fresh, HandleFor, NoHandle, Usable
<1>2. OneInOrder(c)'
    BY OneCall DEF BeginAttempt, OneInOrder, PoolFields, Held, HasHandle, EndsRead, Clean,
                   Holding, OnTheWire, To, Ends, Esp, Fresh, HandleFor, NoHandle, Usable
<1>3. QED
    BY <1>1, <1>2, CallKeepsOthers DEF OneInOrder

LEMMA ConnectKeeps == ASSUME NEW c \in Callers, ClientInv, Esp, Connect(c) PROVE ClientInv'
<1>1. StepOf(c)
    BY OneCall DEF Connect, StepOf, PoolFields, Held, Holding, OnTheWire, To, Ends, Esp, Fresh
<1>2. OneInOrder(c)'
    BY OneCall DEF Connect, OneInOrder, PoolFields, Held, HasHandle, EndsRead, Clean, Holding,
                   OnTheWire, To, Ends, Esp, Fresh
<1>3. QED
    BY <1>1, <1>2, CallKeepsOthers DEF OneInOrder

LEMMA AnswerEndsKeeps == ASSUME NEW c \in Callers, ClientInv, Esp, AnswerEnds(c) PROVE ClientInv'
<1>1. StepOf(c)
    BY OneCall DEF AnswerEnds, StepOf, PoolFields, Held, Holding, OnTheWire, To, Ends, Esp, Fresh,
                   Arrived
<1>2. OneInOrder(c)'
    BY OneCall DEF AnswerEnds, OneInOrder, PoolFields, Held, HasHandle, EndsRead, Clean, Holding,
                   OnTheWire, To, Ends, Esp, Fresh, Arrived
<1>3. QED
    BY <1>1, <1>2, CallKeepsOthers DEF OneInOrder

LEMMA RetryKeeps == ASSUME NEW c \in Callers, ClientInv, Esp, Retry(c) PROVE ClientInv'
<1>0. SUFFICES StepOf(c) /\ OneInOrder(c)'
    BY CallKeepsOthers DEF OneInOrder
<1>1. CASE CanRetry(c)
    <2>1. /\ call' = [call EXCEPT ![c].phase = "attempt", ![c].attempt = @ + 1, ![c].rc = "ok"]
          /\ pools' = [pools EXCEPT ![PoolOf(c)] = NoteFailure(c, @)]
        BY <1>1 DEF Retry
    <2> DEFINE pool == NoteFailure(c, pools[PoolOf(c)])
    <2>2. PoolFields(pool) /\ pool.holder = pools[PoolOf(c)].holder /\ ~pool.handle.client
        BY OneCall, FailureCloses
    <2>3. pools'[PoolOf(c)] = pool
        BY <2>1, OneCall
    <2> HIDE DEF pool
    <2>4. QED
        BY <2>1, <2>2, <2>3, OneCall DEF Retry, StepOf, PoolFields, OneInOrder, Held, HasHandle,
                                         EndsRead, Clean, Holding, OnTheWire, To, Ends, Esp, Fresh
<1>2. CASE ~CanRetry(c)
    BY <1>2, OneCall DEF Retry, StepOf, PoolFields, OneInOrder, Held, HasHandle, EndsRead, Clean,
                         Holding, OnTheWire, To, Ends, Esp, Fresh
<1>3. QED
    BY <1>1, <1>2

(* Whatever comes of a request, the locks are given back.                 *)
LEMMA CompleteKeeps == ASSUME NEW c \in Callers, ClientInv, Esp, Complete(c) PROVE ClientInv'
<1>0. SUFFICES StepOf(c) /\ OneInOrder(c)'
    BY CallKeepsOthers DEF OneInOrder
<1>1. PICK request \in After(c) : call' = [call EXCEPT ![c] = request]
    BY DEF Complete
<1>2. DOMAIN request = DOMAIN call[c] /\ request.phase \in {"returned", "start"}
    <2>1. CASE \E rc : request = Freed(call[c], rc)
        BY <2>1, OneCall DEF Freed, Fresh
    <2>2. CASE request = [call[c] EXCEPT !.phase = "returned"]
        BY <2>2, OneCall DEF Fresh
    <2>3. CASE request \in Hops(call[c])
        BY <2>3, OneCall DEF Hops, Fresh
    <2>4. QED
        BY <1>1, <2>1, <2>2, <2>3 DEF After
<1>3. PICK pool \in {NoteSuccess(c, pools[PoolOf(c)]), NoteFailure(c, pools[PoolOf(c)])} :
        /\ pools' = [pools EXCEPT ![PoolOf(c)] = [pool EXCEPT !.holder = Free]]
        /\ IF call[c].rc = "ok" THEN pool = NoteSuccess(c, pools[PoolOf(c)])
           ELSE pool = NoteFailure(c, pools[PoolOf(c)])
    BY OneCall DEF Complete
<1>4. PoolFields(pool)
    BY <1>3, OneCall, FailureCloses, SuccessKeeps
<1>5. pool.handle.client => call[c].rc = "ok" /\ ~pool.handle.unread
    <2>1. EndsRead(c) /\ call[c].phase = "completed"
        BY OneCall DEF Complete
    <2>2. QED
        BY <1>3, <2>1, OneCall, FailureCloses, SuccessKeeps DEF EndsRead
<1>6. pools'[PoolOf(c)] = [pool EXCEPT !.holder = Free] /\ call'[c] = request
    BY <1>1, <1>3, OneCall
<1>7. QED
    BY <1>1, <1>2, <1>3, <1>4, <1>5, <1>6, OneCall DEF Complete, StepOf, PoolFields, OneInOrder,
                                                       Held, HasHandle, EndsRead, Clean, Holding,
                                                       OnTheWire, To, Ends, Esp, Fresh

LEMMA ResetKeeps ==
    ASSUME ClientInv, Esp, ResetStarts \/ ResetLocks \/ ResetCloses
    PROVE  ClientInv'
<1>1. /\ Free \notin Callers /\ Resetter \notin Callers /\ Free # Resetter
      /\ PoolOrder \in Seq(Pools) /\ \A c \in Callers : PoolOf(c) \in Pools
    BY PoolAssumption DEF Free, Resetter
<1>2. CASE ResetStarts
    <2>1. /\ call' = call /\ pools' = pools /\ platform' = platform
          /\ reset.phase = "idle" /\ reset' = [reset EXCEPT !.phase = "locking"]
        BY <1>2 DEF ResetStarts
    <2>2. HasFields' /\ ResetHolds'
        <3>1. reset.locked = 0 /\ reset' = [phase |-> "locking", locked |-> 0]
            BY <2>1 DEF ClientInv, HasFields, ResetHolds
        <3>2. QED
            BY <1>1, <2>1, <3>1 DEF ClientInv, HasFields, ResetHolds
    <2>3. QED
        BY <2>1, <2>2 DEF ClientInv, Held, HasHandle, EndsRead, Clean
<1>3. CASE ResetLocks
    <2> DEFINE p == PoolOrder[reset.locked + 1]
    <2>1. /\ reset.locked \in Nat /\ reset.locked + 1 \in 1..Len(PoolOrder) /\ p \in Pools
          /\ reset' = [reset EXCEPT !.locked = @ + 1] /\ pools[p].holder = Free
          /\ pools' = [pools EXCEPT ![p].holder = Resetter]
        BY <1>1, <1>3 DEF ResetLocks, ClientInv, HasFields
    <2> HIDE DEF p
    <2>2. HasFields'
        BY <1>3, <2>1 DEF ResetLocks, ClientInv, HasFields, Fresh
    <2>3. ResetHolds'
        <3>1. SUFFICES ASSUME reset.phase = "locking", NEW i \in 1..(reset.locked + 1)
                       PROVE  pools'[PoolOrder[i]].holder = Resetter
            <4>1. reset' = [phase |-> reset.phase, locked |-> reset.locked + 1] /\ reset.phase = "locking"
                BY <1>3, <2>1 DEF ResetLocks, ClientInv, HasFields
            <4>2. QED
                BY <4>1 DEF ResetHolds
        <3>2. CASE i = reset.locked + 1
            BY <2>1, <3>2 DEF p, ClientInv, HasFields
        <3>3. CASE i \in 1..reset.locked
            <4>1. PoolOrder[i] \in Pools /\ pools[PoolOrder[i]].holder = Resetter
                BY <1>1, <2>1, <3>1, <3>3 DEF ClientInv, ResetHolds
            <4>2. QED
                BY <2>1, <4>1 DEF ClientInv, HasFields
        <3>4. QED
            BY <2>1, <3>2, <3>3
    <2>4. ASSUME NEW c \in Callers PROVE Held(c)' /\ HasHandle(c)' /\ EndsRead(c)'
        <3>1. Held(c) /\ HasHandle(c) /\ EndsRead(c) /\ PoolOf(c) \in Pools /\ call' = call
            BY <1>1, <1>3 DEF ClientInv, ResetLocks
        <3>2. pools'[PoolOf(c)].handle = pools[PoolOf(c)].handle
            BY <2>1, <3>1 DEF ClientInv, HasFields
        <3>3. PoolOf(c) # p => pools'[PoolOf(c)] = pools[PoolOf(c)]
            BY <2>1, <3>1 DEF ClientInv, HasFields
        <3>4. PoolOf(c) = p => call[c].phase \notin Holding
            BY <1>1, <2>1, <3>1 DEF Held
        <3>5. QED
            BY <3>1, <3>2, <3>3, <3>4 DEF Held, HasHandle, EndsRead, Holding
    <2>5. ASSUME NEW q \in Pools PROVE Clean(q)'
        BY <1>1, <2>1 DEF ClientInv, HasFields, Clean
    <2>6. QED
        BY <2>2, <2>3, <2>4, <2>5 DEF ClientInv
<1>4. CASE ResetCloses
    <2>1. /\ pools' = [p \in Pools |-> [pools[p] EXCEPT !.handle = NoHandle, !.holder = Free]]
          /\ reset' = [phase |-> "done", locked |-> 0] /\ call' = call /\ platform' = platform
          /\ reset.phase = "locking" /\ reset.locked = Len(PoolOrder)
        BY <1>4 DEF ResetCloses
    <2>2. ASSUME NEW p \in Pools PROVE pools[p].holder = Resetter
        <3>1. PICK i \in 1..Len(PoolOrder) : p = PoolOrder[i]
            BY DEF Pools
        <3>2. QED
            BY <2>1, <3>1 DEF ClientInv, ResetHolds
    <2>3. ASSUME NEW p \in Pools
          PROVE  /\ DOMAIN pools'[p] = DOMAIN pools[p] /\ pools'[p].handle = NoHandle /\ pools'[p].holder = Free
        BY <2>1 DEF ClientInv, HasFields
    <2>4. HasFields' /\ ResetHolds'
        <3>1. Len(PoolOrder) \in Nat
            BY <1>1
        <3>2. DOMAIN pools' = Pools /\ reset'.phase = "done" /\ reset'.locked = 0
            BY <2>1
        <3>3. DOMAIN call' = Callers /\ \A c \in Callers : DOMAIN call'[c] = DOMAIN Fresh(c, 0)
            BY <2>1 DEF ClientInv, HasFields
        <3>4. \A p \in Pools : DOMAIN pools'[p] = {"holder", "handle", "stale", "cooldown", "recover"}
            BY <2>3 DEF ClientInv, HasFields
        <3>5. reset' = [phase |-> reset'.phase, locked |-> reset'.locked] /\ reset'.locked \in 0..Len(PoolOrder)
            <4>1. reset' = [phase |-> reset'.phase, locked |-> reset'.locked]
                BY <2>1
            <4>2. reset'.locked \in 0..Len(PoolOrder)
                BY <3>1, <3>2
            <4>3. QED
                BY <4>1, <4>2
        <3>6. QED
            BY <2>3, <3>2, <3>3, <3>4, <3>5 DEF HasFields, ResetHolds
    <2>5. ASSUME NEW c \in Callers PROVE Held(c)' /\ HasHandle(c)' /\ EndsRead(c)'
        <3>1. call[c].phase \notin Holding
            BY <1>1, <2>2 DEF ClientInv, Held
        <3>2. QED
            BY <2>1, <3>1 DEF ClientInv, Held, HasHandle, EndsRead, Holding
    <2>6. ASSUME NEW p \in Pools PROVE Clean(p)'
        <3>1. ~NoHandle.client
            BY DEF NoHandle
        <3>2. QED
            BY <2>3, <3>1 DEF Clean
    <2>7. QED
        BY <2>4, <2>5, <2>6 DEF ClientInv
<1>5. QED
    BY <1>2, <1>3, <1>4

LEMMA TimeKeeps == ASSUME ClientInv, Esp, TimePasses PROVE ClientInv'
<1>1. PICK p \in Pools :
         \/ pools[p].holder = Free /\ pools' = [pools EXCEPT ![p].handle.idle = TRUE]
         \/ pools' = [pools EXCEPT ![p].cooldown = FALSE]
    BY DEF TimePasses
<1>2. call' = call /\ platform' = platform /\ reset' = reset
    BY DEF TimePasses
<1>3. ASSUME NEW q \in Pools
      PROVE  /\ DOMAIN pools'[q] = DOMAIN pools[q] /\ DOMAIN pools'[q].handle = DOMAIN pools[q].handle
             /\ pools'[q].holder = pools[q].holder
             /\ \A x \in {"client", "origin", "shape", "healthy", "unread"} :
                   pools'[q].handle[x] = pools[q].handle[x]
    BY <1>1 DEF ClientInv, HasFields, NoHandle
<1>4. DOMAIN pools' = DOMAIN pools
    BY <1>1
<1>5. HasFields' /\ ResetHolds'
    BY <1>2, <1>3, <1>4, PoolAssumption DEF ClientInv, HasFields, ResetHolds, Fresh
<1>6. ASSUME NEW c \in Callers PROVE Held(c)' /\ HasHandle(c)' /\ EndsRead(c)'
    BY <1>2, <1>3, PoolAssumption DEF ClientInv, Held, HasHandle, EndsRead
<1>7. ASSUME NEW q \in Pools PROVE Clean(q)'
    BY <1>3 DEF ClientInv, Clean
<1>8. QED
    BY <1>5, <1>6, <1>7 DEF ClientInv

(* The platform is what it is; on ESP32 every step keeps ClientInv.       *)
LEMMA StreamStepKeeps == ASSUME ClientInv, [StreamNext]_streamVars PROVE ClientInv'
<1>1. platform' = platform
    <2>1. ASSUME NEW c \in Callers, AskServer(c) \/ Lock(c) PROVE platform' = platform
        BY <2>1 DEF AskServer, Lock, Perform, TakeConfig, TakePool
    <2>2. ASSUME NEW c \in Callers, Work(c) PROVE platform' = platform
        BY <2>2 DEF Work, Answer, Receive, ReceiveAll, Start, BeginAttempt, Connect, Headers,
                    BodyArrives,
                    DataRefused, AnswerEnds, PeerCloses, HeadersCut, PeerClosesInHeaders,
                    ExchangeFails, Retry, BufferedBody, Complete, Return
    <2>3. ASSUME NEW c \in Callers, Interruption(c) PROVE platform' = platform
        BY <2>3 DEF Interruption, DeadlineExpired, CancelSeen, Cancel
    <2>4. CASE ResetStarts \/ Resets \/ TimePasses \/ Finished \/ UNCHANGED streamVars
        BY <2>4 DEF Resets, ResetStarts, ResetLocks, ResetCloses, TimePasses, Finished,
                    streamVars, httpVars
    <2>5. QED
        BY <2>1, <2>2, <2>3, <2>4 DEF StreamNext
<1>2. SUFFICES ASSUME Esp PROVE ClientInv'
    BY <1>1 DEF ClientInv, Esp
<1>3. CASE UNCHANGED httpVars
    BY <1>3 DEF httpVars, ClientInv, HasFields, ResetHolds, Held, HasHandle, EndsRead, Clean, Esp
<1>4. ASSUME NEW c \in Callers, AskServer(c) \/ Lock(c) \/ Work(c) \/ Interruption(c) PROVE ClientInv'
    <2>1. CASE AskServer(c) \/ Lock(c) \/ Interruption(c)
        BY <1>2, <2>1, CallSteps, TakePoolKeeps DEF AskServer, Lock, Interruption
    <2>2. CASE Answer(c)
        BY <1>2, <2>2, HeadersKeeps DEF Answer
    <2>3. CASE Receive(c)
        BY <1>2, <2>3, BodyArrivesKeeps DEF Receive
    <2>4. CASE ReceiveAll(c)
        BY <1>2, <2>4, BufferedBodyKeeps DEF ReceiveAll
    <2>5. CASE \/ Start(c) \/ BeginAttempt(c) \/ Connect(c) \/ DataRefused(c) \/ AnswerEnds(c) \/ PeerCloses(c)
               \/ HeadersCut(c) \/ ExchangeFails(c) \/ Retry(c) \/ Complete(c) \/ Return(c)
        BY <1>2, <2>5, CallSteps, BeginAttemptKeeps, ConnectKeeps, AnswerEndsKeeps, RetryKeeps,
           CompleteKeeps
    <2>6. QED
        BY <1>4, <2>1, <2>2, <2>3, <2>4, <2>5 DEF Work
<1>5. CASE ResetStarts \/ Resets \/ TimePasses
    BY <1>2, <1>5, ResetKeeps, TimeKeeps DEF Resets
<1>6. QED
    BY <1>3, <1>4, <1>5 DEF StreamNext, streamVars, Finished

(* The inductive invariant of the HTTP client.                            *)
THEOREM ClientInvariant == StreamSpec => []ClientInv
<1>1. StreamInit => ClientInv
    <2>1. SUFFICES ASSUME StreamInit PROVE ClientInv
        OBVIOUS
    <2>2. /\ call = [c \in Callers |-> Fresh(c, 0)]
          /\ pools = [p \in Pools |-> [holder |-> Free, handle |-> NoHandle,
                                       stale |-> 0, cooldown |-> FALSE, recover |-> 0]]
          /\ reset = [phase |-> "idle", locked |-> 0]
        BY <2>1 DEF StreamInit, HttpInit
    <2>3. \A c \in Callers : call[c].phase = "idle" /\ DOMAIN call[c] = DOMAIN Fresh(c, 0)
        BY <2>2 DEF Fresh
    <2>4. Len(PoolOrder) \in Nat
        BY PoolAssumption
    <2>5. \A p \in Pools : Clean(p)
        BY <2>2 DEF Clean, NoHandle
    <2>6. HasFields /\ ResetHolds
        BY <2>2, <2>3, <2>4 DEF HasFields, ResetHolds
    <2>7. QED
        BY <2>3, <2>5, <2>6 DEF ClientInv, Held, HasHandle, EndsRead, Holding, OnTheWire
<1>2. ClientInv /\ [StreamNext]_streamVars => ClientInv'
    BY StreamStepKeeps
<1>3. QED
    BY <1>1, <1>2, PTL DEF StreamSpec

(* An exchange on ESP32 has its handle to itself until it is over, for any*)
(* callers, pools and limits: a reset does not close it, and a handle kept*)
(* for the next request brings nothing of an earlier answer               *)
(* (http_client_ensure_pool_locked, http_pool_note_failure_locked).       *)
THEOREM HandlesAreOwned == StreamSpec => []ExchangeOwnsHandle
<1>1. ClientInv => ExchangeOwnsHandle
    BY DEF ClientInv, Held, HasHandle, Clean, Holding, ExchangeOwnsHandle
<1>2. QED
    BY <1>1, ClientInvariant, PTL

-----------------------------------------------------------------------------
(* What the runtime makes of chunks *)

NextContext(before, chunk, isCancelled, refuses) ==
    IF before.rc # "ok" THEN before ELSE Callback(before, chunk, isCancelled, refuses)

ContextAt(f, ctx, chunks, stop, refuse, i) ==
    IF i = 0 THEN ctx ELSE NextContext(f[i - 1], chunks[i], i > stop, i = refuse)
ContextsOf(ctx, chunks, stop, refuse) ==
    CHOOSE f : f = [i \in 0..Len(chunks) |-> ContextAt(f, ctx, chunks, stop, refuse, i)]

Consumes(f, ctx, chunks, stop, refuse) ==
    /\ ConsumeFrom(ctx, chunks, stop, refuse) = f[Len(chunks)]
    /\ f[0] = ctx
    /\ \A i \in 1..Len(chunks) : f[i] = NextContext(f[i - 1], chunks[i], i > stop, i = refuse)

LEMMA ContextsAre ==
    ASSUME NEW ctx, NEW chunks, IsSequence(chunks), NEW stop, NEW refuse
    PROVE  Consumes(ContextsOf(ctx, chunks, stop, refuse), ctx, chunks, stop, refuse)
<1> DEFINE N == Len(chunks)
           Made(f, n) == f = [i \in 0..n |-> ContextAt(f, ctx, chunks, stop, refuse, i)]
           S == {n \in 0..N : \E f : Made(f, n)}
<1>1. N \in Nat
    BY DEF IsSequence
<1>2. 0 \in S
    <2> DEFINE f == [i \in 0..0 |-> ctx]
    <2>1. Made(f, 0)
        BY DEF ContextAt
    <2> HIDE DEF f, Made
    <2>2. QED
        BY <1>1, <2>1
<1>3. ASSUME NEW n \in 1..N, n - 1 \in S PROVE n \in S
    <2>1. PICK f : Made(f, n - 1)
        BY <1>3
    <2> DEFINE g == [i \in 0..n |-> IF i = n THEN ContextAt(f, ctx, chunks, stop, refuse, n) ELSE f[i]]
    <2>2. ASSUME NEW i \in 0..n PROVE g[i] = ContextAt(g, ctx, chunks, stop, refuse, i)
        <3>1. CASE i = 0
            BY <2>1, <3>1 DEF ContextAt
        <3>2. CASE i # 0
            <4>1. i - 1 \in 0..(n - 1) /\ g[i - 1] = f[i - 1]
                BY <3>2
            <4>2. g[i] = ContextAt(f, ctx, chunks, stop, refuse, i)
                <5>1. CASE i = n
                    BY <5>1
                <5>2. CASE i # n
                    BY <2>1, <5>2
                <5>3. QED
                    BY <5>1, <5>2
            <4> HIDE DEF g
            <4>3. QED
                BY <3>2, <4>1, <4>2 DEF ContextAt
        <3>3. QED
            BY <3>1, <3>2
    <2>3. Made(g, n)
        BY <2>2
    <2> HIDE DEF g, Made
    <2>4. QED
        BY <2>3
<1>4. PICK f : Made(f, N)
    <2>1. \A n \in 1..N : n - 1 \in S => n \in S
        BY <1>3
    <2> HIDE DEF S
    <2>2. \A n \in 0..N : n \in S
        BY <1>1, <1>2, <2>1, UpTo, Zenon
    <2>3. N \in S
        BY <1>1, <2>2
    <2>4. QED
        BY <2>3 DEF S
<1> DEFINE c == ContextsOf(ctx, chunks, stop, refuse)
<1>5. c = [i \in 0..N |-> ContextAt(c, ctx, chunks, stop, refuse, i)]
    BY <1>4 DEF ContextsOf
<1>6. ConsumeFrom(ctx, chunks, stop, refuse) = c[N]
    BY DEF ConsumeFrom, ContextsOf, ContextAt, NextContext
<1> HIDE DEF c
<1>7. c[0] = ctx /\ \A i \in 1..N : c[i] = NextContext(c[i - 1], chunks[i], i > stop, i = refuse)
    <2>1. \A i \in 0..N : c[i] = ContextAt(c, ctx, chunks, stop, refuse, i)
        BY <1>5
    <2>2. QED
        BY <1>1, <2>1 DEF ContextAt
<1>8. QED
    BY <1>6, <1>7 DEF c, Consumes

ContextFields(ctx) == DOMAIN ctx = DOMAIN NewContext

LEMMA CallbackFields ==
    ASSUME NEW ctx, ContextFields(ctx), NEW chunk, NEW isCancelled, NEW refuses
    PROVE  ContextFields(Callback(ctx, chunk, isCancelled, refuses))
<1>1. ASSUME NEW x, ContextFields(x) PROVE \A code : ContextFields(Fails(x, code))
    BY <1>1 DEF ContextFields, Fails
<1>2. ContextFields(ForwardChunk(ctx, chunk, refuses))
    BY <1>1 DEF ForwardChunk, ContextFields, Fails
<1>3. ASSUME NEW x, ContextFields(x) PROVE ContextFields(Accept(x, chunk))
    <2>1. ContextFields(ToolStart(x, chunk)) /\ ContextFields(ToolDelta(x, chunk)) /\ ContextFields(ToolEnd(x, chunk))
        BY <1>3, <1>1 DEF ToolStart, ToolDelta, ToolEnd, ContextFields
    <2>2. QED
        BY <1>3, <2>1 DEF Accept, ContextFields
<1>4. QED
    BY <1>2, <1>3 DEF Callback, ContextFields

LEMMA ConsumedFields ==
    ASSUME NEW ctx, ContextFields(ctx), NEW chunks, IsSequence(chunks), NEW stop, NEW refuse
    PROVE  ContextFields(ConsumeFrom(ctx, chunks, stop, refuse))
<1> DEFINE N == Len(chunks)
<1>1. N \in Nat
    BY DEF IsSequence
<1>2. PICK f : Consumes(f, ctx, chunks, stop, refuse)
    BY ContextsAre, Zenon
<1> DEFINE S == {n \in 0..N : ContextFields(f[n])}
<1>3. 0 \in S
    BY <1>1, <1>2 DEF Consumes
<1>4. ASSUME NEW n \in 1..N, n - 1 \in S PROVE n \in S
    <2>1. f[n] = NextContext(f[n - 1], chunks[n], n > stop, n = refuse) /\ ContextFields(f[n - 1])
        BY <1>2, <1>4 DEF Consumes
    <2>2. ContextFields(f[n])
        BY <2>1, CallbackFields DEF NextContext
    <2>3. QED
        BY <2>2
<1>5. N \in S
    <2> HIDE DEF S, N
    <2>1. \A n \in 0..N : n \in S
        BY <1>1, <1>3, <1>4, UpTo, Zenon
    <2>2. QED
        BY <1>1, <2>1
<1>6. QED
    BY <1>2, <1>5 DEF Consumes

(* Chunks may come in two parts                                           *)
LEMMA ConsumeInParts ==
    ASSUME NEW ctx, NEW a, NEW b, IsSequence(a), IsSequence(b)
    PROVE  ConsumeFrom(ctx, a \o b, Len(a \o b), 0)
              = ConsumeFrom(ConsumeFrom(ctx, a, Len(a), 0), b, Len(b), 0)
<1> DEFINE K == Len(a)
           M == Len(b)
<1>1. /\ K \in Nat /\ M \in Nat /\ Len(a \o b) = K + M /\ IsSequence(a \o b)
      /\ \A i \in 1..K : (a \o b)[i] = a[i]
      /\ \A i \in 1..M : (a \o b)[K + i] = b[i]
    BY ConcatenationIs DEF IsSequence
<1>2. PICK f : Consumes(f, ctx, a \o b, Len(a \o b), 0)
    BY <1>1, ContextsAre, Zenon
<1>3. PICK g : Consumes(g, ctx, a, Len(a), 0)
    BY ContextsAre, Zenon
<1>4. PICK h : Consumes(h, g[Len(a)], b, Len(b), 0)
    BY ContextsAre, Zenon
<1>5. \A n \in 0..K : n \in {i \in 0..K : f[i] = g[i]}
    <2> DEFINE S == {i \in 0..K : f[i] = g[i]}
    <2>1. 0 \in S
        BY <1>1, <1>2, <1>3 DEF Consumes
    <2>2. ASSUME NEW n \in 1..K, n - 1 \in S PROVE n \in S
        <3>1. f[n] = NextContext(f[n - 1], a[n], FALSE, FALSE)
            <4>1. n \in 1..(K + M) /\ (n > K + M) = FALSE /\ (n = 0) = FALSE
                BY <1>1
            <4>2. f[n] = NextContext(f[n - 1], (a \o b)[n], n > K + M, n = 0)
                BY <1>1, <1>2, <4>1 DEF Consumes
            <4>3. QED
                BY <1>1, <4>1, <4>2
        <3>2. g[n] = NextContext(g[n - 1], a[n], FALSE, FALSE)
            <4>1. (n > K) = FALSE /\ (n = 0) = FALSE
                BY <1>1
            <4>2. QED
                BY <1>1, <1>3, <4>1 DEF Consumes
        <3>3. f[n - 1] = g[n - 1]
            BY <2>2
        <3>4. f[n] = g[n]
            BY <3>1, <3>2, <3>3
        <3>5. QED
            BY <3>4
    <2> HIDE DEF S, K
    <2>3. QED
        BY <1>1, <2>1, <2>2, UpTo, Zenon DEF S
<1>6. \A n \in 0..M : n \in {i \in 0..M : f[K + i] = h[i]}
    <2> DEFINE S == {i \in 0..M : f[K + i] = h[i]}
    <2>1. 0 \in S
        BY <1>1, <1>4, <1>5 DEF Consumes
    <2>2. ASSUME NEW n \in 1..M, n - 1 \in S PROVE n \in S
        <3>1. f[K + n] = NextContext(f[K + (n - 1)], b[n], FALSE, FALSE)
            <4>1. K + n \in 1..(K + M) /\ (K + n > K + M) = FALSE /\ (K + n = 0) = FALSE /\ K + n - 1 = K + (n - 1)
                BY <1>1
            <4>2. f[K + n] = NextContext(f[K + n - 1], (a \o b)[K + n], K + n > K + M, K + n = 0)
                BY <1>1, <1>2, <4>1 DEF Consumes
            <4>3. QED
                BY <1>1, <4>1, <4>2
        <3>2. h[n] = NextContext(h[n - 1], b[n], FALSE, FALSE)
            <4>1. (n > M) = FALSE /\ (n = 0) = FALSE
                BY <1>1
            <4>2. QED
                BY <1>1, <1>4, <4>1 DEF Consumes
        <3>3. f[K + (n - 1)] = h[n - 1]
            BY <2>2
        <3>4. f[K + n] = h[n]
            BY <3>1, <3>2, <3>3
        <3>5. QED
            BY <3>4
    <2> HIDE DEF S, M
    <2>3. QED
        BY <1>1, <2>1, <2>2, UpTo, Zenon DEF S
<1>7. QED
    BY <1>1, <1>2, <1>3, <1>4, <1>6 DEF Consumes

LEMMA ConsumeNone ==
    ASSUME NEW ctx, NEW stop, NEW refuse
    PROVE  ConsumeFrom(ctx, << >>, stop, refuse) = ctx
<1>1. IsSequence(<< >>) /\ Len(<< >>) = 0
    BY DEF IsSequence
<1>2. PICK f : Consumes(f, ctx, << >>, stop, refuse)
    BY <1>1, ContextsAre, Zenon
<1>3. QED
    BY <1>1, <1>2 DEF Consumes

LEMMA ConsumeOne ==
    ASSUME NEW ctx, NEW chunk
    PROVE  ConsumeFrom(ctx, <<chunk>>, 1, 0) = NextContext(ctx, chunk, FALSE, FALSE)
<1>1. IsSequence(<<chunk>>) /\ Len(<<chunk>>) = 1 /\ <<chunk>>[1] = chunk
    BY DEF IsSequence, Range
<1>2. (1 > 1) = FALSE /\ (1 = 0) = FALSE
    OBVIOUS
<1>3. PICK f : Consumes(f, ctx, <<chunk>>, 1, 0)
    BY <1>1, ContextsAre, Zenon
<1>4. f[1] = NextContext(f[0], chunk, FALSE, FALSE)
    <2>1. 1 \in 1..1 /\ 1 - 1 = 0
        OBVIOUS
    <2>2. QED
        BY <1>1, <1>2, <1>3, <2>1 DEF Consumes
<1>5. QED
    BY <1>1, <1>3, <1>4 DEF Consumes

(* A run that is cancelled takes no chunk                                 *)
LEMMA ConsumeCancelled ==
    ASSUME NEW ctx, ContextFields(ctx), NEW chunks, IsSequence(chunks), chunks # << >>
    PROVE  ConsumeFrom(ctx, chunks, 0, 0).rc # "ok"
<1> DEFINE N == Len(chunks)
<1>1. N \in Nat /\ N # 0
    BY DEF IsSequence
<1>2. PICK f : Consumes(f, ctx, chunks, 0, 0)
    BY ContextsAre, Zenon
<1> DEFINE S == {n \in 0..N : n = 0 \/ f[n].rc # "ok"}
<1>3. ASSUME NEW n \in 1..N, n - 1 \in S PROVE n \in S
    <2>1. f[n] = NextContext(f[n - 1], chunks[n], TRUE, FALSE)
        <3>1. (n > 0) = TRUE /\ (n = 0) = FALSE
            OBVIOUS
        <3>2. QED
            BY <1>2, <3>1 DEF Consumes
    <2>2. f[n].rc # "ok"
        <3>1. CASE n = 1
            <4>1. f[n] = NextContext(ctx, chunks[n], TRUE, FALSE)
                <5>1. f[n - 1] = ctx
                    BY <1>2, <3>1 DEF Consumes
                <5>2. QED
                    BY <2>1, <5>1
            <4>2. QED
                BY <4>1 DEF NextContext, Callback, ContextFields, NewContext
        <3>2. CASE n # 1
            <4>1. f[n - 1].rc # "ok"
                BY <1>3, <3>2
            <4>2. QED
                BY <2>1, <4>1 DEF NextContext
        <3>3. QED
            BY <3>1, <3>2
    <2>3. QED
        BY <2>2
<1>4. N \in S
    <2>1. 0 \in S
        BY <1>1
    <2> HIDE DEF S, N
    <2>2. \A n \in 0..N : n \in S
        BY <1>1, <2>1, <1>3, UpTo, Zenon
    <2>3. QED
        BY <1>1, <2>2
<1>5. QED
    BY <1>1, <1>2, <1>4 DEF Consumes

-----------------------------------------------------------------------------
(* The chunks of an event: a sequence, none of them FINISHED              *)

IsPlain(chunks) == IsSequence(chunks) /\ \A i \in 1..Len(chunks) : chunks[i].type # "finished"

FlatOf(parts) ==
    CHOOSE f : f = [i \in 1..Len(parts) |-> IF i = 1 THEN parts[i] ELSE f[i - 1] \o parts[i]]

LEMMA FlatRecursion ==
    ASSUME NEW A, NEW parts \in Seq(Seq(A)), Len(parts) # 0
    PROVE  /\ FlatOf(parts) = [i \in 1..Len(parts) |->
                                  IF i = 1 THEN parts[i] ELSE FlatOf(parts)[i - 1] \o parts[i]]
           /\ FlattenSeq(parts) = FlatOf(parts)[Len(parts)]
<1> DEFINE N == Len(parts)
           step == [i \in 1..N |-> [v \in Seq(A) |-> IF i = 1 THEN parts[i] ELSE v \o parts[i]]]
<1>1. N \in Nat
    OBVIOUS
<1>2. step \in [1..N -> [Seq(A) -> Seq(A)]] /\ << >> \in Seq(A)
    OBVIOUS
<1> HIDE DEF step, N
<1>3. PICK g \in [0..N -> Seq(A)] : Follows(g, << >>, step, N)
    BY <1>1, <1>2, RecursionDefines, Zenon
<1> DEFINE f == [i \in 1..N |-> g[i]]
<1>4. ASSUME NEW i \in 1..N PROVE f[i] = IF i = 1 THEN parts[i] ELSE f[i - 1] \o parts[i]
    <2>1. g[i] = step[i][g[i - 1]] /\ g[i - 1] \in Seq(A)
        BY <1>1, <1>3 DEF Follows
    <2>2. g[i] = IF i = 1 THEN parts[i] ELSE g[i - 1] \o parts[i]
        BY <2>1 DEF step
    <2>3. i # 1 => i - 1 \in 1..N
        BY <1>1
    <2>4. QED
        BY <2>2, <2>3
<1>5. f = [i \in 1..N |-> IF i = 1 THEN parts[i] ELSE f[i - 1] \o parts[i]]
    BY <1>4
<1> HIDE DEF f
<1>6. \E h : h = [i \in 1..N |-> IF i = 1 THEN parts[i] ELSE h[i - 1] \o parts[i]]
    BY <1>5
<1>7. FlatOf(parts) = [i \in 1..N |-> IF i = 1 THEN parts[i] ELSE FlatOf(parts)[i - 1] \o parts[i]]
    BY <1>6 DEF FlatOf, N
<1>8. FlattenSeq(parts) = FlatOf(parts)[N]
    BY DEF FlattenSeq, FlatOf, N
<1>9. QED
    BY <1>7, <1>8 DEF N

LEMMA FlatStays ==
    ASSUME NEW A, NEW parts \in Seq(Seq(A))
    PROVE  FlattenSeq(parts) \in Seq(A)
<1> DEFINE N == Len(parts)
<1>1. N \in Nat
    OBVIOUS
<1>2. CASE N = 0
    <2>1. FlattenSeq(parts) = parts /\ parts = << >>
        BY <1>2 DEF FlattenSeq
    <2>2. QED
        BY <2>1
<1>3. CASE N # 0
    <2> DEFINE f == FlatOf(parts)
    <2>1. f = [i \in 1..N |-> IF i = 1 THEN parts[i] ELSE f[i - 1] \o parts[i]]
        BY <1>3, FlatRecursion
    <2>2. FlattenSeq(parts) = f[N]
        BY <1>3, FlatRecursion
    <2> HIDE DEF f
    <2> DEFINE S == {n \in 0..N : n = 0 \/ f[n] \in Seq(A)}
    <2>3. 0 \in S
        BY <1>1
    <2>4. ASSUME NEW n \in 1..N, n - 1 \in S PROVE n \in S
        <3>1. f[n] = IF n = 1 THEN parts[n] ELSE f[n - 1] \o parts[n]
            BY <2>1
        <3>2. f[n] \in Seq(A)
            BY <2>4, <3>1
        <3>3. QED
            BY <3>2
    <2>5. N \in S
        <3> HIDE DEF S, N
        <3>1. \A n \in 0..N : n \in S
            BY <1>1, <2>3, <2>4, UpTo, Zenon
        <3>2. QED
            BY <1>1, <3>1
    <2>6. QED
        BY <1>3, <2>2, <2>5
<1>4. QED
    BY <1>2, <1>3

LEMMA PlainIn ==
    ASSUME NEW s, IsPlain(s), NEW A, Range(s) \subseteq A
    PROVE  s \in Seq(A)
BY DEF IsPlain, IsSequence

LEMMA FlatPlain ==
    ASSUME NEW n \in Nat, NEW parts, parts = [i \in 1..n |-> parts[i]], \A i \in 1..n : IsPlain(parts[i])
    PROVE  IsPlain(FlattenSeq(parts))
<1> DEFINE A == {x \in UNION {Range(parts[i]) : i \in 1..n} : x.type # "finished"}
<1>1. ASSUME NEW i \in 1..n PROVE parts[i] \in Seq(A)
    <2>1. PICK s : s = parts[i]
        OBVIOUS
    <2>2. IsPlain(s) /\ Range(s) \subseteq UNION {Range(parts[j]) : j \in 1..n}
        BY <2>1
    <2>3. \A x \in Range(s) : x.type # "finished"
        BY <2>2 DEF IsPlain, IsSequence, Range
    <2>4. QED
        BY <2>1, <2>2, <2>3, PlainIn
<1>2. \A x \in A : x.type # "finished"
    OBVIOUS
<1> HIDE DEF A
<1>3. parts \in Seq(Seq(A))
    BY <1>1
<1>4. FlattenSeq(parts) \in Seq(A)
    BY <1>3, FlatStays
<1>5. ASSUME NEW s \in Seq(A) PROVE IsPlain(s)
    BY <1>2, SequencesAre DEF IsPlain
<1>6. QED
    BY <1>4, <1>5

LEMMA NonePlain == IsPlain(<< >>)
BY DEF IsPlain, IsSequence

LEMMA OnePlain == ASSUME NEW x, x.type # "finished" PROVE IsPlain(<<x>>)
BY DEF IsPlain, IsSequence, Range

LEMMA BothPlain == ASSUME NEW s, NEW t, IsPlain(s), IsPlain(t) PROVE IsPlain(s \o t)
<1>1. /\ IsSequence(s \o t) /\ Len(s \o t) = Len(s) + Len(t) /\ Len(s) \in Nat /\ Len(t) \in Nat
      /\ \A i \in 1..Len(s) : (s \o t)[i] = s[i]
      /\ \A i \in 1..Len(t) : (s \o t)[Len(s) + i] = t[i]
    BY ConcatenationIs DEF IsPlain, IsSequence
<1>2. ASSUME NEW i \in 1..(Len(s) + Len(t)) PROVE (s \o t)[i].type # "finished"
    <2>1. CASE i <= Len(s)
        BY <1>1, <2>1 DEF IsPlain
    <2>2. CASE i > Len(s)
        <3>1. i - Len(s) \in 1..Len(t) /\ i = Len(s) + (i - Len(s))
            BY <1>1, <2>2
        <3>2. (s \o t)[i] = t[i - Len(s)]
            BY <1>1, <3>1
        <3>3. QED
            BY <3>1, <3>2 DEF IsPlain
    <2>3. QED
        BY <1>1, <2>1, <2>2
<1>3. QED
    BY <1>1, <1>2 DEF IsPlain

Protocols == {"openai", "anthropic", "ollama"}
IsEvent(e) == IsSequence(e.tools)

LEMMA PiecesPlain ==
    ASSUME NEW e, NEW tool, NEW index, NEW id
    PROVE  /\ IsPlain(ThinkingOf(e, index)) /\ IsPlain(TextOf(e, index))
           /\ IsPlain(StartOf(tool, index)) /\ IsPlain(DeltaOf(tool, index, id))
           /\ IsPlain(<<ToolEndChunk>>)
BY NonePlain, OnePlain DEF ThinkingOf, TextOf, StartOf, DeltaOf, ToolEndChunk, Chunk

LEMMA ToolsPlain ==
    ASSUME NEW e, IsEvent(e)
    PROVE  /\ IsPlain(FlattenSeq([i \in 1..Len(e.tools) |->
                  StartOf(e.tools[i], e.tools[i].index) \o DeltaOf(e.tools[i], e.tools[i].index, e.tools[i].id)]))
           /\ IsPlain(FlattenSeq([i \in 1..Len(e.tools) |-> StartOf(e.tools[i], e.tools[i].index)]))
           /\ IsPlain(FlattenSeq([i \in 1..Len(e.tools) |-> DeltaOf(e.tools[i], e.tools[i].index, NoId)]))
           /\ IsPlain(FlattenSeq([i \in 1..Len(e.tools) |->
                  StartOf(e.tools[i], i - 1) \o DeltaOf(e.tools[i], i - 1, e.tools[i].id)]))
<1>1. Len(e.tools) \in Nat
    BY DEF IsEvent, IsSequence
<1> DEFINE a == [i \in 1..Len(e.tools) |->
                  StartOf(e.tools[i], e.tools[i].index) \o DeltaOf(e.tools[i], e.tools[i].index, e.tools[i].id)]
           b == [i \in 1..Len(e.tools) |-> StartOf(e.tools[i], e.tools[i].index)]
           c == [i \in 1..Len(e.tools) |-> DeltaOf(e.tools[i], e.tools[i].index, NoId)]
           d == [i \in 1..Len(e.tools) |-> StartOf(e.tools[i], i - 1) \o DeltaOf(e.tools[i], i - 1, e.tools[i].id)]
<1>2. \A i \in 1..Len(e.tools) : IsPlain(a[i]) /\ IsPlain(b[i]) /\ IsPlain(c[i]) /\ IsPlain(d[i])
    BY PiecesPlain, BothPlain
<1>3. /\ a = [i \in 1..Len(e.tools) |-> a[i]] /\ b = [i \in 1..Len(e.tools) |-> b[i]]
      /\ c = [i \in 1..Len(e.tools) |-> c[i]] /\ d = [i \in 1..Len(e.tools) |-> d[i]]
    OBVIOUS
<1> HIDE DEF a, b, c, d
<1>4. IsPlain(FlattenSeq(a)) /\ IsPlain(FlattenSeq(b)) /\ IsPlain(FlattenSeq(c)) /\ IsPlain(FlattenSeq(d))
    BY <1>1, <1>2, <1>3, FlatPlain
<1>5. QED
    BY <1>4 DEF a, b, c, d

LEMMA EventsPlain ==
    ASSUME NEW e, IsEvent(e), NEW p \in Protocols
    PROVE  IsPlain(ParseEvent(p, e).chunks)
<1>1. IsPlain(Fault("json").chunks) /\ IsPlain(Fault("model").chunks)
    BY NonePlain DEF Fault
<1>2. IsPlain(OpenAiEvent(e).chunks)
    BY <1>1, ToolsPlain, PiecesPlain, NonePlain, BothPlain DEF OpenAiEvent, ParsedAs
<1>3. IsPlain(AnthropicMessage(e).chunks)
    BY <1>1, PiecesPlain, NonePlain DEF AnthropicMessage, ParsedAs
<1>4. IsPlain(AnthropicEvent(e).chunks)
    BY <1>1, <1>3, ToolsPlain, PiecesPlain, NonePlain, BothPlain DEF AnthropicEvent, ParsedAs
<1>5. IsPlain(OllamaEvent(e).chunks)
    BY <1>1, ToolsPlain, PiecesPlain, NonePlain, BothPlain DEF OllamaEvent, ParsedAs
<1>6. QED
    BY <1>2, <1>4, <1>5 DEF ParseEvent, Protocols

-----------------------------------------------------------------------------
(* The chunks of a body *)

(* The chunks after one more token                                        *)
OneMoreToken(p, body, before, i) ==
    IF body[i].t # "rest" \/ HasFinished(before) THEN before
    ELSE before \o EventChunks(p, body[i].event)
ChunksUpTo(p, body) ==
    CHOOSE f : f = [i \in 0..Len(body) |-> IF i = 0 THEN << >> ELSE OneMoreToken(p, body, f[i - 1], i)]

IsBody(body) == IsSequence(body) /\ \A i \in 1..Len(body) : IsEvent(body[i].event)

LEMMA EventChunksAre ==
    ASSUME NEW e, IsEvent(e), NEW p \in Protocols
    PROVE  /\ IsSequence(EventChunks(p, e))
           /\ HasFinished(EventChunks(p, e)) <=> e.kind = "[DONE]" \/ ParseEvent(p, e).finished
<1> DEFINE one == <<FinishedChunk>>
<1>1. IsSequence(one) /\ Len(one) = 1 /\ HasFinished(one)
    BY DEF IsSequence, Range, HasFinished
<1>2. CASE e.kind = "[DONE]"
    BY <1>1, <1>2 DEF EventChunks
<1>3. CASE e.kind # "[DONE]"
    <2> PICK cs : cs = ParseEvent(p, e).chunks
        OBVIOUS
    <2>1. IsPlain(cs)
        BY EventsPlain
    <2>2. CASE ParseEvent(p, e).finished
        <3>1. EventChunks(p, e) = cs \o one
            BY <1>3, <2>2 DEF EventChunks
        <3>2. IsSequence(cs \o one) /\ Len(cs \o one) = Len(cs) + 1 /\ (cs \o one)[Len(cs) + 1] = FinishedChunk
            BY <1>1, <2>1, ConcatenationIs DEF IsPlain
        <3>3. HasFinished(cs \o one)
            BY <2>1, <3>2 DEF HasFinished, IsPlain, IsSequence
        <3>4. QED
            BY <2>2, <3>1, <3>2, <3>3
    <2>3. CASE ~ParseEvent(p, e).finished
        <3>1. EventChunks(p, e) = cs \o << >>
            BY <1>3, <2>3 DEF EventChunks
        <3>2. cs \o << >> = cs
            BY <2>1, ConcatProperties DEF IsPlain, IsSequence
        <3>3. ~HasFinished(cs)
            BY <2>1 DEF IsPlain, IsSequence, HasFinished, FinishedChunk, Chunk
        <3>4. QED
            BY <1>3, <2>1, <2>3, <3>1, <3>2, <3>3 DEF IsPlain
    <2>4. QED
        BY <2>2, <2>3
<1>4. QED
    BY <1>2, <1>3

UpToBody(f, p, body) ==
    /\ f[0] = << >> /\ ChunksOf(p, body) = f[Len(body)]
    /\ \A i \in 1..Len(body) : f[i] = OneMoreToken(p, body, f[i - 1], i)

LEMMA ChunksAre ==
    ASSUME NEW p, NEW body, IsSequence(body)
    PROVE  UpToBody(ChunksUpTo(p, body), p, body)
<1> DEFINE N == Len(body)
           Made(f, n) == f = [i \in 0..n |-> IF i = 0 THEN << >> ELSE OneMoreToken(p, body, f[i - 1], i)]
           S == {n \in 0..N : \E f : Made(f, n)}
<1>1. N \in Nat
    BY DEF IsSequence
<1>2. 0 \in S
    <2> DEFINE f == [i \in 0..0 |-> << >>]
    <2>1. Made(f, 0)
        OBVIOUS
    <2> HIDE DEF f, Made
    <2>2. QED
        BY <1>1, <2>1
<1>3. ASSUME NEW n \in 1..N, n - 1 \in S PROVE n \in S
    <2>1. PICK f : Made(f, n - 1)
        BY <1>3
    <2> DEFINE g == [i \in 0..n |-> IF i = n THEN OneMoreToken(p, body, f[n - 1], n) ELSE f[i]]
    <2>2. ASSUME NEW i \in 0..n PROVE g[i] = IF i = 0 THEN << >> ELSE OneMoreToken(p, body, g[i - 1], i)
        <3>1. CASE i = 0
            BY <2>1, <3>1
        <3>2. CASE i # 0
            <4>1. i - 1 \in 0..(n - 1) /\ g[i - 1] = f[i - 1]
                BY <3>2
            <4>2. g[i] = OneMoreToken(p, body, f[i - 1], i)
                <5>1. CASE i = n
                    BY <5>1
                <5>2. CASE i # n
                    BY <2>1, <3>2, <5>2
                <5>3. QED
                    BY <5>1, <5>2
            <4> HIDE DEF g
            <4>3. QED
                BY <3>2, <4>1, <4>2
        <3>3. QED
            BY <3>1, <3>2
    <2>3. Made(g, n)
        BY <2>2
    <2> HIDE DEF g, Made
    <2>4. QED
        BY <2>3
<1>4. PICK f : Made(f, N)
    <2>1. \A n \in 1..N : n - 1 \in S => n \in S
        BY <1>3
    <2> HIDE DEF S
    <2>2. \A n \in 0..N : n \in S
        BY <1>1, <1>2, <2>1, UpTo, Zenon
    <2>3. N \in S
        BY <1>1, <2>2
    <2>4. QED
        BY <2>3 DEF S
<1> DEFINE c == ChunksUpTo(p, body)
<1>5. c = [i \in 0..N |-> IF i = 0 THEN << >> ELSE OneMoreToken(p, body, c[i - 1], i)]
    BY <1>4 DEF ChunksUpTo
<1>6. ChunksOf(p, body) = c[N]
    BY DEF ChunksOf, ChunksUpTo, OneMoreToken
<1> HIDE DEF c
<1>7. c[0] = << >> /\ \A i \in 1..N : c[i] = OneMoreToken(p, body, c[i - 1], i)
    BY <1>1, <1>5
<1>8. QED
    BY <1>6, <1>7 DEF c, UpToBody

(* What the chunks of a body begin with                                   *)
Begins(s, t) == \E rest : IsSequence(rest) /\ t = s \o rest

LEMMA BeginsItself == ASSUME NEW s, IsSequence(s) PROVE Begins(s, s)
<1>1. IsSequence(<< >>) /\ s \o << >> = s
    BY ConcatProperties DEF IsSequence
<1>2. QED
    BY <1>1 DEF Begins

LEMMA BeginsOn ==
    ASSUME NEW s, NEW t, NEW u, IsSequence(s), Begins(s, t), Begins(t, u)
    PROVE  Begins(s, u)
<1>1. PICK a : IsSequence(a) /\ t = s \o a
    BY DEF Begins
<1>2. PICK b : IsSequence(b) /\ u = t \o b
    BY DEF Begins
<1>3. IsSequence(a \o b)
    BY <1>1, <1>2, ConcatenationIs
<1>4. u = s \o (a \o b)
    <2>1. PICK A : s \in Seq(A)
        BY DEF IsSequence
    <2>2. PICK B : a \in Seq(B)
        BY <1>1 DEF IsSequence
    <2>3. PICK C : b \in Seq(C)
        BY <1>2 DEF IsSequence
    <2>4. s \in Seq(A \cup B \cup C) /\ a \in Seq(A \cup B \cup C) /\ b \in Seq(A \cup B \cup C)
        BY <2>1, <2>2, <2>3
    <2>5. QED
        BY <1>1, <1>2, <2>4, ConcatAssociative
<1>5. QED
    BY <1>3, <1>4 DEF Begins

LEMMA ChunksGrow ==
    ASSUME NEW p \in Protocols, NEW body, IsBody(body), NEW f, UpToBody(f, p, body)
    PROVE  /\ \A i \in 0..Len(body) : IsSequence(f[i]) /\ Begins(f[i], ChunksOf(p, body))
           /\ \A i, j \in 0..Len(body) : i <= j /\ HasFinished(f[i]) => f[j] = f[i]
           /\ \A i, j \in 0..Len(body) :
                 i <= j /\ (\A k \in (i + 1)..j : body[k].t # "rest") => f[j] = f[i]
<1> DEFINE N == Len(body)
<1>1. N \in Nat
    BY DEF IsBody, IsSequence
<1>2. ASSUME NEW i \in 1..N, IsSequence(f[i - 1])
      PROVE  IsSequence(f[i]) /\ Begins(f[i - 1], f[i])
    <2>1. f[i] = OneMoreToken(p, body, f[i - 1], i)
        BY DEF UpToBody
    <2>2. IsSequence(EventChunks(p, body[i].event))
        BY EventChunksAre DEF IsBody
    <2>3. IsSequence(<< >>) /\ f[i - 1] \o << >> = f[i - 1]
        BY <1>2, ConcatProperties DEF IsSequence
    <2>4. IsSequence(f[i - 1] \o EventChunks(p, body[i].event))
        BY <1>2, <2>2, ConcatenationIs
    <2>5. QED
        BY <1>2, <2>1, <2>2, <2>3, <2>4 DEF OneMoreToken, Begins
<1>3. \A i \in 0..N : i \in {n \in 0..N : IsSequence(f[n])}
    <2> DEFINE S == {n \in 0..N : IsSequence(f[n])}
    <2>1. 0 \in S
        <3>1. IsSequence(<< >>)
            BY DEF IsSequence
        <3>2. QED
            BY <1>1, <3>1 DEF UpToBody
    <2>2. ASSUME NEW n \in 1..N, n - 1 \in S PROVE n \in S
        BY <1>2, <2>2
    <2> HIDE DEF S, N
    <2>3. QED
        BY <1>1, <2>1, <2>2, UpTo, Zenon DEF S
<1>4. ASSUME NEW i \in 0..N PROVE Begins(f[i], f[N])
    <2> DEFINE S == {n \in 0..N : Begins(f[N - n], f[N])}
    <2>1. 0 \in S
        BY <1>1, <1>3, BeginsItself
    <2>2. ASSUME NEW n \in 1..N, n - 1 \in S PROVE n \in S
        <3>1. N - n \in 0..N /\ N - n + 1 \in 1..N /\ N - n + 1 = N - (n - 1) /\ N - n + 1 - 1 = N - n
            BY <1>1
        <3>2. IsSequence(f[N - n]) /\ Begins(f[N - n], f[N - n + 1]) /\ Begins(f[N - n + 1], f[N])
            BY <1>2, <1>3, <2>2, <3>1
        <3>3. QED
            BY <3>2, BeginsOn
    <2>3. \A n \in 0..N : n \in S
        <3> HIDE DEF S, N
        <3>1. QED
            BY <1>1, <2>1, <2>2, UpTo, Zenon
    <2>4. N - i \in 0..N /\ N - (N - i) = i
        BY <1>1
    <2>5. QED
        BY <2>3, <2>4
<1>5. ASSUME NEW i \in 0..N, NEW j \in 0..N, i <= j,
             HasFinished(f[i]) \/ \A k \in (i + 1)..j : body[k].t # "rest"
      PROVE  f[j] = f[i]
    <2> DEFINE S == {n \in 0..(j - i) : f[i + n] = f[i]}
    <2>1. 0 \in S /\ j - i \in Nat
        BY <1>1, <1>5
    <2>2. ASSUME NEW n \in 1..(j - i), n - 1 \in S PROVE n \in S
        <3>1. i + n \in 1..N /\ i + n \in (i + 1)..j /\ i + n - 1 = i + (n - 1)
            BY <1>1, <1>5
        <3>2. f[i + n] = OneMoreToken(p, body, f[i + n - 1], i + n) /\ f[i + n - 1] = f[i]
            BY <2>2, <3>1 DEF UpToBody
        <3>3. f[i + n] = f[i]
            BY <1>5, <3>1, <3>2 DEF OneMoreToken
        <3>4. QED
            BY <3>3
    <2>3. j - i \in S
        <3> DEFINE M == j - i
        <3>1. M \in Nat /\ 0 \in S /\ \A n \in 1..M : n - 1 \in S => n \in S
            BY <2>1, <2>2
        <3> HIDE DEF S, M
        <3>2. \A n \in 0..M : n \in S
            BY <3>1, UpTo, Zenon
        <3>3. QED
            BY <3>1, <3>2 DEF M
    <2>4. i + (j - i) = j
        BY <1>5
    <2>5. QED
        BY <2>3, <2>4
<1>6. QED
    BY <1>3, <1>4, <1>5 DEF UpToBody

-----------------------------------------------------------------------------
(* A stream that has forwarded some chunks                                *)

StreamFields(s) == DOMAIN s = {"protocol", "buffer", "finished", "done", "out", "rc"}

Reached(s, p, chunks) ==
    /\ StreamFields(s) /\ s.protocol = p /\ s.rc = "ok"
    /\ s.out = Delivered(chunks) /\ s.out.rc = "ok"
    /\ s.finished = HasFinished(chunks) /\ s.done = s.finished

LEMMA DeliveredFields ==
    ASSUME NEW a, IsSequence(a)
    PROVE  ContextFields(Delivered(a))
<1>1. ContextFields([NewContext EXCEPT !.bytes = 0])
    BY DEF ContextFields, NewContext
<1>2. QED
    BY <1>1, ConsumedFields DEF Delivered, Consume

LEMMA DeliveredInParts ==
    ASSUME NEW a, NEW b, IsSequence(a), IsSequence(b)
    PROVE  Delivered(a \o b) = ConsumeFrom(Delivered(a), b, Len(b), 0)
BY ConsumeInParts DEF Delivered, Consume

LEMMA JoinNothing == ASSUME NEW a, IsSequence(a) PROVE a \o << >> = a /\ IsSequence(<< >>)
BY ConcatProperties DEF IsSequence

LEMMA JoinOne ==
    ASSUME NEW a, IsSequence(a), NEW x
    PROVE  /\ Len(a \o <<x>>) = Len(a) + 1 /\ Len(a) \in Nat
           /\ (a \o <<x>>)[Len(a) + 1] = x /\ IsSequence(a \o <<x>>)
<1>1. PICK A : a \in Seq(A)
    BY DEF IsSequence
<1> DEFINE b == a \o <<x>>
<1>2. b \in Seq(A \cup {x}) /\ Len(b) = Len(a) + 1 /\ Len(a) \in Nat /\ b[Len(a) + 1] = x
    BY <1>1
<1>3. QED
    BY <1>2, SequencesAre

LEMMA JoinThree ==
    ASSUME NEW a, NEW b, NEW c, IsSequence(a), IsSequence(b), IsSequence(c)
    PROVE  (a \o b) \o c = a \o (b \o c)
<1>1. PICK A : a \in Seq(A)
    BY DEF IsSequence
<1>2. PICK B : b \in Seq(B)
    BY DEF IsSequence
<1>3. PICK C : c \in Seq(C)
    BY DEF IsSequence
<1>4. a \in Seq(A \cup B \cup C) /\ b \in Seq(A \cup B \cup C) /\ c \in Seq(A \cup B \cup C)
    BY <1>1, <1>2, <1>3
<1>5. QED
    BY <1>4, ConcatAssociative

LEMMA JoinPlain ==
    ASSUME NEW a, NEW b, IsSequence(a), ~HasFinished(a), IsPlain(b)
    PROVE  IsSequence(a \o b) /\ ~HasFinished(a \o b)
<1>1. /\ IsSequence(a \o b) /\ Len(a \o b) = Len(a) + Len(b) /\ Len(a) \in Nat /\ Len(b) \in Nat
      /\ \A i \in 1..Len(b) : (a \o b)[Len(a) + i] = b[i]
    BY ConcatenationIs DEF IsPlain, IsSequence
<1>2. CASE Len(b) = 0
    <2>1. b = << >>
        BY <1>2 DEF IsPlain, IsSequence
    <2>2. QED
        BY <1>1, <2>1, JoinNothing
<1>3. CASE Len(b) # 0
    <2>1. (a \o b)[Len(a \o b)] = b[Len(b)] /\ b[Len(b)].type # "finished"
        BY <1>1, <1>3 DEF IsPlain
    <2>2. QED
        BY <1>1, <2>1 DEF HasFinished, FinishedChunk, Chunk
<1>4. QED
    BY <1>2, <1>3

(* ForwardAll and EmitFinishedOnce: a stream that goes on, to the end of  *)
(* what it forwards                                                       *)
LEMMA ForwardReaches ==
    ASSUME NEW s, NEW p, NEW a, IsSequence(a), Reached(s, p, a), ~HasFinished(a),
           NEW b, IsPlain(b), NEW isCancelled
    PROVE  /\ StreamFields(ForwardAll(s, b, isCancelled)) /\ ForwardAll(s, b, isCancelled).buffer = s.buffer
           /\ ForwardAll(s, b, isCancelled).rc = "ok" => Reached(ForwardAll(s, b, isCancelled), p, a \o b)
<1> DEFINE out == ConsumeFrom(s.out, b, IF isCancelled THEN 0 ELSE Len(b), 0)
<1>1. ForwardAll(s, b, isCancelled) = [s EXCEPT !.out = out, !.rc = out.rc]
    BY DEF ForwardAll
<1>2. out.rc = "ok" => out = Delivered(a \o b)
    <2>1. CASE b = << >>
        <3>1. out = s.out
            BY <2>1, ConsumeNone
        <3>2. QED
            BY <2>1, <3>1, JoinNothing DEF Reached
    <2>2. CASE b # << >> /\ isCancelled
        <3>1. out = ConsumeFrom(s.out, b, 0, 0)
            BY <2>2
        <3>2. ContextFields(s.out)
            BY DeliveredFields DEF Reached
        <3>3. QED
            BY <2>2, <3>1, <3>2, ConsumeCancelled DEF IsPlain
    <2>3. CASE ~isCancelled
        <3>1. out = ConsumeFrom(s.out, b, Len(b), 0)
            BY <2>3
        <3>2. QED
            BY <3>1, DeliveredInParts DEF Reached, IsPlain
    <2>4. QED
        BY <2>1, <2>2, <2>3
<1> HIDE DEF out
<1>3. ~HasFinished(a \o b)
    BY JoinPlain
<1>4. HasFinished(a) = FALSE /\ HasFinished(a \o b) = FALSE
    BY <1>3 DEF HasFinished
<1>5. QED
    BY <1>1, <1>2, <1>4 DEF Reached, StreamFields

LEMMA FinishReaches ==
    ASSUME NEW s, NEW p, NEW a, IsSequence(a), Reached(s, p, a), ~HasFinished(a), NEW isCancelled
    PROVE  /\ StreamFields(EmitFinishedOnce(s, isCancelled))
           /\ EmitFinishedOnce(s, isCancelled).buffer = s.buffer
           /\ EmitFinishedOnce(s, isCancelled).rc = "ok"
                 => Reached(EmitFinishedOnce(s, isCancelled), p, a \o <<FinishedChunk>>)
<1> DEFINE out == Callback(s.out, FinishedChunk, isCancelled, FALSE)
<1>1. ~s.finished
    BY DEF Reached
<1>2. EmitFinishedOnce(s, isCancelled)
         = [[s EXCEPT !.finished = TRUE, !.done = TRUE] EXCEPT !.out = out, !.rc = out.rc]
    BY <1>1 DEF EmitFinishedOnce, Forward, Reached, StreamFields
<1>3. IsSequence(<<FinishedChunk>>) /\ Len(<<FinishedChunk>>) = 1 /\ <<FinishedChunk>>[1] = FinishedChunk
    BY DEF IsSequence, Range
<1>4. out.rc = "ok" => out = Delivered(a \o <<FinishedChunk>>)
    <2>1. ContextFields(s.out)
        BY DeliveredFields DEF Reached
    <2>2. CASE isCancelled
        BY <2>1, <2>2 DEF Callback, ContextFields, NewContext
    <2>3. CASE ~isCancelled
        <3>1. out = NextContext(s.out, FinishedChunk, FALSE, FALSE)
            BY <2>3 DEF NextContext, Callback, Reached
        <3>2. Delivered(a \o <<FinishedChunk>>) = ConsumeFrom(s.out, <<FinishedChunk>>, 1, 0)
            BY <1>3, DeliveredInParts DEF Reached
        <3>3. QED
            BY <3>1, <3>2, ConsumeOne
    <2>4. QED
        BY <2>2, <2>3
<1> HIDE DEF out
<1>5. HasFinished(a \o <<FinishedChunk>>) = TRUE
    <2>1. /\ Len(a \o <<FinishedChunk>>) = Len(a) + 1 /\ Len(a) \in Nat
          /\ (a \o <<FinishedChunk>>)[Len(a) + 1] = FinishedChunk /\ IsSequence(a \o <<FinishedChunk>>)
        BY JoinOne, Zenon
    <2>2. QED
        BY <2>1 DEF HasFinished, IsSequence
<1>6. QED
    BY <1>2, <1>4, <1>5 DEF Reached, StreamFields

LEMMA DispatchReaches ==
    ASSUME NEW s, NEW p \in Protocols, NEW a, IsSequence(a), Reached(s, p, a), ~HasFinished(a),
           NEW e, IsEvent(e), NEW isCancelled
    PROVE  /\ StreamFields(Dispatch(s, e, isCancelled)) /\ Dispatch(s, e, isCancelled).buffer = s.buffer
           /\ Dispatch(s, e, isCancelled).rc = "ok"
                 => Reached(Dispatch(s, e, isCancelled), p, a \o EventChunks(p, e))
<1> DEFINE r == Dispatch(s, e, isCancelled)
           parsed == ParseEvent(p, e)
           sent == ForwardAll(s, parsed.chunks, isCancelled)
<1>1. s.protocol = p /\ StreamFields(s)
    BY DEF Reached
<1>2. IsPlain(parsed.chunks)
    BY EventsPlain
<1>3. CASE e.kind = "none"
    <2>1. parsed = Fault("json")
        BY <1>3 DEF ParseEvent, OpenAiEvent, AnthropicEvent, AnthropicMessage, OllamaEvent, Protocols
    <2>2. EventChunks(p, e) = << >> \o << >>
        BY <1>3, <2>1 DEF EventChunks, Fault
    <2>3. a \o EventChunks(p, e) = a
        BY <2>2, JoinNothing
    <2>4. QED
        BY <1>1, <1>3, <2>3 DEF Dispatch
<1>4. CASE e.kind = "[DONE]"
    <2>1. r = EmitFinishedOnce(s, isCancelled) /\ EventChunks(p, e) = <<FinishedChunk>>
        BY <1>4 DEF Dispatch, EventChunks
    <2>2. QED
        BY <2>1, FinishReaches
<1>5. CASE e.kind \notin {"none", "[DONE]"}
    <2>1. /\ StreamFields(sent) /\ sent.buffer = s.buffer
          /\ sent.rc = "ok" => Reached(sent, p, a \o parsed.chunks)
        BY <1>2, ForwardReaches
    <2>2. IsSequence(a \o parsed.chunks) /\ ~HasFinished(a \o parsed.chunks)
        BY <1>2, JoinPlain
    <2>3. r = IF parsed.rc # "ok" THEN [s EXCEPT !.rc = parsed.rc]
              ELSE IF sent.rc = "ok" /\ parsed.finished THEN EmitFinishedOnce(sent, isCancelled) ELSE sent
        BY <1>1, <1>5 DEF Dispatch
    <2>4. EventChunks(p, e) = parsed.chunks \o (IF parsed.finished THEN <<FinishedChunk>> ELSE << >>)
        BY <1>5 DEF EventChunks
    <2> HIDE DEF r, parsed, sent
    <2>5. CASE parsed.rc # "ok"
        BY <1>1, <2>3, <2>5 DEF StreamFields, r
    <2>6. CASE parsed.rc = "ok" /\ sent.rc = "ok" /\ parsed.finished
        <3>1. r = EmitFinishedOnce(sent, isCancelled) /\ EventChunks(p, e) = parsed.chunks \o <<FinishedChunk>>
            BY <2>3, <2>4, <2>6
        <3>2. (a \o parsed.chunks) \o <<FinishedChunk>> = a \o (parsed.chunks \o <<FinishedChunk>>)
            <4> DEFINE one == <<FinishedChunk>>
                       cs == parsed.chunks
            <4>1. IsSequence(one)
                BY DEF IsSequence, Range
            <4>2. IsSequence(cs)
                BY <1>2 DEF IsPlain
            <4> HIDE DEF one, cs
            <4>3. (a \o cs) \o one = a \o (cs \o one)
                BY <4>1, <4>2, JoinThree
            <4>4. QED
                BY <4>3 DEF one, cs
        <3>3. Reached(sent, p, a \o parsed.chunks)
            BY <2>1, <2>6
        <3> DEFINE x == EmitFinishedOnce(sent, isCancelled)
                   b == a \o parsed.chunks
        <3>4. /\ StreamFields(x) /\ x.buffer = sent.buffer
              /\ x.rc = "ok" => Reached(x, p, b \o <<FinishedChunk>>)
            BY <2>2, <3>3, FinishReaches, Zenon
        <3>5. b \o <<FinishedChunk>> = a \o EventChunks(p, e)
            BY <3>1, <3>2
        <3>6. QED
            BY <2>1, <3>1, <3>4, <3>5 DEF r
    <2>7. CASE parsed.rc = "ok" /\ ~(sent.rc = "ok" /\ parsed.finished)
        <3>1. r = sent
            BY <2>3, <2>7
        <3>2. sent.rc = "ok" => EventChunks(p, e) = parsed.chunks
            BY <1>2, <2>4, <2>7, JoinNothing DEF IsPlain
        <3>3. QED
            BY <2>1, <3>1, <3>2 DEF r
    <2>8. QED
        BY <2>5, <2>6, <2>7
<1>6. QED
    BY <1>3, <1>4, <1>5

-----------------------------------------------------------------------------
(* The event in a frame                                                   *)

LEMMA NoEvent ==
    ASSUME NEW p \in Protocols, NEW e, e.kind = "none"
    PROVE  EventChunks(p, e) = << >>
<1>1. ParseEvent(p, e) = Fault("json")
    BY DEF ParseEvent, OpenAiEvent, AnthropicEvent, AnthropicMessage, OllamaEvent, Protocols
<1>2. EventChunks(p, e) = << >> \o << >>
    BY <1>1 DEF EventChunks, Fault
<1>3. QED
    BY <1>2, JoinNothing DEF IsSequence

LEMMA FrameHolds ==
    ASSUME NEW p \in Protocols, NEW body, IsBody(body), NEW f, UpToBody(f, p, body),
           NEW m \in 0..Len(body), NEW k \in m..Len(body), ~HasFinished(f[m])
    PROVE  LET e == EventIn(SubSeq(body, m + 1, k)) IN
           IsEvent(e) /\ (e.kind = "malformed" \/ f[k] = f[m] \o EventChunks(p, e))
<1> DEFINE text == SubSeq(body, m + 1, k)
           halves == {i \in 1..Len(text) : text[i].t = "half"}
           rests == {i \in 1..Len(text) : text[i].t = "rest"}
           e == EventIn(text)
<1>1. /\ Len(body) \in Nat /\ Len(text) = k - m /\ k - m \in Nat
      /\ \A i \in 1..(k - m) : text[i] = body[m + i]
    <2>1. Len(body) \in Nat /\ IsSequence(body)
        BY DEF IsBody, IsSequence
    <2>2. m + 1 \in Nat \ {0} /\ k \in Int /\ k <= Len(body) /\ k - m \in Nat /\ k - (m + 1) + 1 = k - m
        BY <2>1
    <2>3. /\ Len(text) = IF m + 1 <= k THEN k - (m + 1) + 1 ELSE 0
          /\ \A i \in 1..(k - (m + 1) + 1) : text[i] = body[m + 1 + i - 1]
        BY <2>1, <2>2, PartIs, ZenonT(40)
    <2>4. QED
        BY <2>1, <2>2, <2>3
<1>2. /\ \A i \in 0..Len(body) : IsSequence(f[i])
      /\ \A i, j \in 0..Len(body) :
            i <= j /\ (\A n \in (i + 1)..j : body[n].t # "rest") => f[j] = f[i]
    BY ChunksGrow
<1> HIDE DEF text
<1>3. \A kind : IsEvent(Plain(kind)) /\ Plain(kind).kind = kind
    BY DEF Plain, Event, IsEvent, IsSequence
<1>4. CASE halves = {} /\ rests = {}
    <2>1. e = Plain("none")
        BY <1>4 DEF EventIn
    <2>2. \A n \in (m + 1)..k : body[n].t # "rest"
        <3>1. SUFFICES ASSUME NEW n \in (m + 1)..k PROVE body[n].t # "rest"
            OBVIOUS
        <3>2. n - m \in 1..(k - m) /\ m + (n - m) = n
            BY <1>1
        <3>3. text[n - m].t # "rest"
            BY <1>1, <1>4, <3>2
        <3>4. QED
            BY <1>1, <3>2, <3>3
    <2>3. f[k] = f[m]
        BY <1>1, <1>2, <2>2
    <2>4. f[m] \o EventChunks(p, e) = f[m]
        BY <1>2, <1>3, <2>1, NoEvent, JoinNothing
    <2>5. QED
        BY <1>3, <2>1, <2>3, <2>4 DEF text
<1>5. CASE ~(halves = {} /\ rests = {}) /\ \E i, j \in 1..Len(text) : halves = {i} /\ rests = {j}
    <2>1. PICK j \in 1..Len(text) : rests = {j}
        BY <1>5
    <2>2. e = text[j].event
        BY <1>5, <2>1 DEF EventIn
    <2>3. m + j \in 1..Len(body) /\ m + j <= k /\ text[j] = body[m + j] /\ text[j].t = "rest"
        BY <1>1, <2>1
    <2>4. \A n \in (m + 1)..k : n # m + j => body[n].t # "rest"
        <3>1. SUFFICES ASSUME NEW n \in (m + 1)..k, n # m + j PROVE body[n].t # "rest"
            OBVIOUS
        <3>2. n - m \in 1..(k - m) /\ m + (n - m) = n /\ n - m # j
            BY <1>1, <3>1
        <3>3. text[n - m].t # "rest"
            BY <1>1, <2>1, <3>2
        <3>4. QED
            BY <1>1, <3>2, <3>3
    <2>5. f[m + j - 1] = f[m]
        BY <1>1, <1>2, <2>3, <2>4
    <2>6. f[k] = f[m + j]
        BY <1>1, <1>2, <2>3, <2>4
    <2>7. f[m + j] = OneMoreToken(p, body, f[m + j - 1], m + j)
        BY <2>3 DEF UpToBody
    <2>8. f[m + j] = f[m] \o EventChunks(p, body[m + j].event)
        BY <2>3, <2>5, <2>7 DEF OneMoreToken
    <2>9. IsEvent(body[m + j].event)
        BY <2>3 DEF IsBody
    <2>10. QED
        BY <2>2, <2>3, <2>6, <2>8, <2>9 DEF text
<1>6. CASE ~(halves = {} /\ rests = {}) /\ ~\E i, j \in 1..Len(text) : halves = {i} /\ rests = {j}
    <2>1. e = Plain("malformed")
        BY <1>6 DEF EventIn
    <2>2. QED
        BY <1>3, <2>1 DEF text
<1>7. QED
    BY <1>4, <1>5, <1>6

LEMMA MalformedFails ==
    ASSUME NEW s, NEW p \in Protocols, s.protocol = p, StreamFields(s), NEW e, e.kind = "malformed", NEW isCancelled
    PROVE  Dispatch(s, e, isCancelled) = [s EXCEPT !.rc = "json"]
<1>1. ParseEvent(p, e) = Fault("json")
    BY DEF ParseEvent, OpenAiEvent, AnthropicEvent, AnthropicMessage, OllamaEvent, Protocols
<1>2. QED
    BY <1>1 DEF Dispatch, Fault

FrameTaken(s, r, p, chunks) ==
    StreamFields(r) /\ r.buffer = s.buffer /\ (r.rc = "ok" => Reached(r, p, chunks))

(* dispatch_stream_event: a frame takes the stream to its end, or fails   *)
LEMMA FrameReaches ==
    ASSUME NEW p \in Protocols, NEW body, IsBody(body), NEW f, UpToBody(f, p, body),
           NEW m \in 0..Len(body), NEW k \in m..Len(body), ~HasFinished(f[m]),
           NEW s, Reached(s, p, f[m]), NEW isCancelled
    PROVE  FrameTaken(s, Dispatch(s, EventIn(SubSeq(body, m + 1, k)), isCancelled), p, f[k])
<1> DEFINE e == EventIn(SubSeq(body, m + 1, k))
           r == Dispatch(s, e, isCancelled)
<1>1. IsEvent(e) /\ (e.kind = "malformed" \/ f[k] = f[m] \o EventChunks(p, e))
    BY FrameHolds
<1>2. IsSequence(f[m])
    BY ChunksGrow
<1> HIDE DEF e
<1>3. CASE e.kind = "malformed"
    <2>1. s.protocol = p /\ StreamFields(s)
        BY DEF Reached
    <2>2. r = [s EXCEPT !.rc = "json"]
        BY <1>3, <2>1, MalformedFails
    <2>3. QED
        BY <2>1, <2>2 DEF FrameTaken, StreamFields, e
<1>4. CASE f[k] = f[m] \o EventChunks(p, e)
    <2>1. /\ StreamFields(r) /\ r.buffer = s.buffer
          /\ r.rc = "ok" => Reached(r, p, f[m] \o EventChunks(p, e))
        BY <1>1, <1>2, DispatchReaches, Zenon
    <2>2. QED
        BY <1>4, <2>1 DEF FrameTaken, e
<1>5. QED
    BY <1>1, <1>3, <1>4

-----------------------------------------------------------------------------
(* The frames of a buffer *)

KeepsUp(s, p, body, pos) ==
    \E m \in 0..pos :
        /\ Reached(s, p, ChunksUpTo(p, body)[m])
        /\ s.finished \/ s.buffer = SubSeq(body, m + 1, pos)

LEMMA FindIs ==
    ASSUME NEW buffer, Len(buffer) \in Nat, NEW separator, Len(separator) \in Nat
    PROVE  \/ Find(buffer, separator) = 0
           \/ /\ Find(buffer, separator) \in 1..(Len(buffer) - Len(separator) + 1)
              /\ \A j \in 1..Len(separator) : buffer[Find(buffer, separator) + j - 1].t = separator[j]
<1> DEFINE at == {i \in 1..(Len(buffer) - Len(separator) + 1) :
                    \A j \in 1..Len(separator) : buffer[i + j - 1].t = separator[j]}
<1>1. SUFFICES ASSUME at # {} PROVE Find(buffer, separator) \in at
    BY DEF Find
<1>2. at \subseteq Nat
    OBVIOUS
<1>3. PICK i \in at : \A j \in at : <<j, i>> \notin OpToRel(<, Nat)
    BY <1>1, <1>2, WFMin, NatLessThanWellFounded, Zenon
<1>4. \A j \in at : i <= j
    <2> HIDE DEF at
    <2> TAKE j \in at
    <2>1. i \in Nat /\ j \in Nat /\ ~(j < i)
        BY <1>2, <1>3 DEF OpToRel
    <2>2. QED
        BY <2>1
<1>5. (CHOOSE x \in at : \A j \in at : x <= j) \in at
    BY <1>4
<1>6. QED
    BY <1>1, <1>5 DEF Find

LEMMA SeparatorIs ==
    ASSUME NEW s
    PROVE  /\ Len(Separator(s)) \in Nat \ {0}
           /\ \A j \in 1..Len(Separator(s)) : Separator(s)[j] # "rest"
<1>1. Separator(s) \in {<<"n">>, <<"n", "n">>, <<"r", "n", "r", "n">>}
    BY DEF Separator, Newline, BlankLine, BlankLineCR
<1>2. CASE Separator(s) = <<"n">>
    BY <1>2
<1>3. CASE Separator(s) = <<"n", "n">>
    BY <1>3
<1>4. CASE Separator(s) = <<"r", "n", "r", "n">>
    BY <1>4
<1>5. QED
    BY <1>1, <1>2, <1>3, <1>4

(* A part of a part *)
LEMMA PartOfPart ==
    ASSUME NEW s, IsSequence(s), NEW m \in 0..Len(s), NEW k \in m..Len(s),
           NEW i \in Nat \ {0}, NEW j \in Int, i <= j + 1, j <= k - m
    PROVE  SubSeq(SubSeq(s, m + 1, k), i, j) = SubSeq(s, m + i, m + j)
<1>1. PICK A : s \in Seq(A)
    BY DEF IsSequence
<1> DEFINE t == SubSeq(s, m + 1, k)
           u == SubSeq(t, i, j)
           v == SubSeq(s, m + i, m + j)
<1>2. t \in Seq(A) /\ Len(t) = k - m /\ \A x \in 1..(k - m) : t[x] = s[m + x]
    BY <1>1
<1>3. v \in Seq(A) /\ Len(v) = j - i + 1 /\ \A x \in 1..(j - i + 1) : v[x] = s[m + i + x - 1]
    <2> DEFINE a == m + i
               b == m + j
    <2>1. /\ a \in Nat \ {0} /\ b \in Int /\ b <= Len(s) /\ a <= b + 1 /\ Len(s) \in Nat
          /\ b - a + 1 = j - i + 1
        BY <1>1
    <2> HIDE DEF a, b
    <2>2. /\ SubSeq(s, a, b) \in Seq(A) /\ Len(SubSeq(s, a, b)) = b - a + 1
          /\ \A x \in 1..(b - a + 1) : SubSeq(s, a, b)[x] = s[a + x - 1]
        BY <1>1, <2>1
    <2>3. QED
        BY <2>1, <2>2 DEF a, b
<1> HIDE DEF t
<1>4. u \in Seq(A) /\ Len(u) = j - i + 1 /\ \A x \in 1..(j - i + 1) : u[x] = t[i + x - 1]
    BY <1>2
<1> HIDE DEF u, v
<1>5. ASSUME NEW x \in 1..(j - i + 1) PROVE u[x] = v[x]
    <2>1. i + x - 1 \in 1..(k - m) /\ m + (i + x - 1) = m + i + x - 1
        OBVIOUS
    <2>2. QED
        BY <1>2, <1>3, <1>4, <2>1
<1>6. u = v
    BY <1>3, <1>4, <1>5
<1>7. QED
    BY <1>6 DEF t, u, v

LEMMA NextFrameKeepsUp ==
    ASSUME NEW p \in Protocols, NEW body, IsBody(body), NEW pos \in 0..Len(body),
           NEW s, KeepsUp(s, p, body, pos), NEW isCancelled
    PROVE  NextFrame(s, isCancelled).rc = "ok" => KeepsUp(NextFrame(s, isCancelled), p, body, pos)
<1> DEFINE f == ChunksUpTo(p, body)
           separator == Separator(s)
           L == Len(separator)
           i == Find(s.buffer, separator)
<1>1. PICK m \in 0..pos : Reached(s, p, f[m]) /\ (s.finished \/ s.buffer = SubSeq(body, m + 1, pos))
    BY DEF KeepsUp
<1>2. UpToBody(f, p, body) /\ IsSequence(body) /\ Len(body) \in Nat
    BY ChunksAre DEF IsBody, IsSequence
<1>3. s.rc = "ok" /\ StreamFields(s)
    BY <1>1 DEF Reached
<1>4. CASE s.finished \/ i = 0
    <2>1. NextFrame(s, isCancelled) = s
        BY <1>4 DEF NextFrame
    <2>2. QED
        BY <2>1
<1>5. CASE ~s.finished /\ i # 0
    <2>1. /\ L \in Nat \ {0} /\ \A j \in 1..L : separator[j] # "rest"
        BY SeparatorIs
    <2>2. s.buffer = SubSeq(body, m + 1, pos)
        BY <1>1, <1>5
    <2>3. /\ IsSequence(s.buffer) /\ Len(s.buffer) = pos - m
          /\ \A j \in 1..(pos - m) : s.buffer[j] = body[m + j]
        <3>1. /\ m + 1 \in Nat \ {0} /\ pos \in Int /\ pos <= Len(body) /\ pos - m \in Nat
              /\ pos - (m + 1) + 1 = pos - m
            BY <1>2
        <3> DEFINE b == SubSeq(body, m + 1, pos)
        <3>2. /\ IsSequence(b) /\ Len(b) = IF m + 1 <= pos THEN pos - (m + 1) + 1 ELSE 0
              /\ \A j \in 1..(pos - (m + 1) + 1) : b[j] = body[m + 1 + j - 1]
            BY <1>2, <3>1, PartIs, ZenonT(40)
        <3>3. QED
            BY <1>2, <2>2, <3>1, <3>2
    <2> HIDE DEF separator, L
    <2>4. i \in 1..(pos - m - L + 1) /\ \A j \in 1..L : s.buffer[i + j - 1].t = separator[j]
        <3>1. Len(s.buffer) \in Nat
            BY <2>3
        <3>2. i \in 1..(Len(s.buffer) - L + 1) /\ \A j \in 1..L : s.buffer[i + j - 1].t = separator[j]
            BY <1>5, <2>1, <3>1, FindIs DEF L
        <3>3. QED
            BY <2>3, <3>2
    <2> HIDE DEF i
    <2> DEFINE k == m + i - 1
               n == m + i + L - 1
               e == EventIn(SubSeq(body, m + 1, k))
               t == [s EXCEPT !.buffer = SubSeq(body, n + 1, pos)]
               r == Dispatch(t, e, isCancelled)
    <2>5. k \in m..Len(body) /\ n \in k..pos /\ n \in 0..Len(body) /\ m \in 0..Len(body)
        BY <1>2, <2>1, <2>4
    <2>6. SubSeq(s.buffer, 1, i - 1) = SubSeq(body, m + 1, k)
        <3>1. /\ 1 \in Nat \ {0} /\ i - 1 \in Int /\ 1 <= i - 1 + 1 /\ i - 1 <= pos - m
              /\ pos \in m..Len(body) /\ m + (i - 1) = k
            BY <1>2, <2>1, <2>4
        <3>2. SubSeq(SubSeq(body, m + 1, pos), 1, i - 1) = SubSeq(body, m + 1, m + (i - 1))
            BY <1>2, <2>5, <3>1, PartOfPart, ZenonT(40)
        <3>3. QED
            BY <2>2, <3>1, <3>2
    <2>7. SubSeq(s.buffer, i + L, Len(s.buffer)) = SubSeq(body, n + 1, pos)
        <3>1. /\ i + L \in Nat \ {0} /\ pos - m \in Int /\ i + L <= pos - m + 1
              /\ pos - m <= pos - m /\ pos \in m..Len(body)
              /\ m + (i + L) = n + 1 /\ m + (pos - m) = pos
            BY <1>2, <2>1, <2>4
        <3> DEFINE x == i + L
                   y == pos - m
        <3>2. x \in Nat \ {0} /\ y \in Int /\ x <= y + 1 /\ y <= pos - m /\ pos \in m..Len(body)
            BY <3>1
        <3> HIDE DEF x, y
        <3>3. SubSeq(SubSeq(body, m + 1, pos), x, y) = SubSeq(body, m + x, m + y)
            BY <1>2, <2>5, <3>2, PartOfPart
        <3>4. QED
            BY <2>2, <2>3, <3>1, <3>3 DEF x, y
    <2>8. NextFrame(s, isCancelled) = r
        BY <1>3, <1>5, <2>6, <2>7 DEF NextFrame, separator, i, L
    <2>9. Reached(t, p, f[m]) /\ t.buffer = SubSeq(body, n + 1, pos)
        BY <1>1 DEF Reached, StreamFields
    <2>10. ~HasFinished(f[m])
        BY <1>1, <1>5 DEF Reached
    <2> HIDE DEF f, t, e
    <2>11. FrameTaken(t, r, p, f[k])
        BY <1>2, <2>5, <2>9, <2>10, FrameReaches, Zenon DEF e
    <2>12. f[n] = f[k]
        <3>1. ASSUME NEW j \in (k + 1)..n PROVE body[j].t # "rest"
            <4>1. j - k \in 1..L /\ i + (j - k) - 1 \in 1..(pos - m) /\ m + (i + (j - k) - 1) = j
                BY <1>2, <2>1, <2>4, <2>5
            <4>2. s.buffer[i + (j - k) - 1].t # "rest"
                BY <2>1, <2>4, <4>1
            <4>3. QED
                BY <2>3, <4>1, <4>2
        <3>2. \A x, y \in 0..Len(body) :
                 x <= y /\ (\A j \in (x + 1)..y : body[j].t # "rest") => f[y] = f[x]
            BY <1>2, ChunksGrow
        <3>3. k \in 0..Len(body) /\ k <= n
            BY <1>2, <2>5
        <3> HIDE DEF k, n
        <3>4. QED
            BY <2>5, <3>1, <3>2, <3>3
    <2>13. r.rc = "ok" => KeepsUp(r, p, body, pos)
        <3> HIDE DEF r, n, k
        <3>1. n \in 0..pos
            BY <2>5
        <3>2. QED
            BY <2>9, <2>11, <2>12, <3>1 DEF KeepsUp, FrameTaken, f
    <2>14. QED
        BY <2>8, <2>13
<1>6. QED
    BY <1>4, <1>5

(* process_sse_buffer and process_ndjson_buffer                           *)
FramesTo(s, isCancelled, before, n) == IF n = 0 THEN s ELSE NextFrame(before[n - 1], isCancelled)
FramesOf(s, isCancelled) ==
    CHOOSE f : f = [n \in 0..Len(s.buffer) |-> FramesTo(s, isCancelled, f, n)]

Processes(f, s, isCancelled) ==
    /\ Process(s, isCancelled) = f[Len(s.buffer)] /\ f[0] = s
    /\ \A n \in 1..Len(s.buffer) : f[n] = NextFrame(f[n - 1], isCancelled)

LEMMA FramesAre ==
    ASSUME NEW s, Len(s.buffer) \in Nat, NEW isCancelled
    PROVE  Processes(FramesOf(s, isCancelled), s, isCancelled)
<1> DEFINE N == Len(s.buffer)
           Made(f, n) == f = [i \in 0..n |-> FramesTo(s, isCancelled, f, i)]
           S == {n \in 0..N : \E f : Made(f, n)}
<1>1. 0 \in S
    <2> DEFINE f == [i \in 0..0 |-> s]
    <2>1. Made(f, 0)
        BY DEF FramesTo
    <2> HIDE DEF f, Made
    <2>2. QED
        BY <2>1
<1>2. ASSUME NEW n \in 1..N, n - 1 \in S PROVE n \in S
    <2>1. PICK f : Made(f, n - 1)
        BY <1>2
    <2> DEFINE g == [i \in 0..n |-> IF i = n THEN FramesTo(s, isCancelled, f, n) ELSE f[i]]
    <2>2. ASSUME NEW i \in 0..n PROVE g[i] = FramesTo(s, isCancelled, g, i)
        <3>1. CASE i = 0
            BY <2>1, <3>1 DEF FramesTo
        <3>2. CASE i # 0
            <4>1. i - 1 \in 0..(n - 1) /\ g[i - 1] = f[i - 1]
                BY <3>2
            <4>2. g[i] = FramesTo(s, isCancelled, f, i)
                <5>1. CASE i = n
                    BY <5>1
                <5>2. CASE i # n
                    BY <2>1, <5>2
                <5>3. QED
                    BY <5>1, <5>2
            <4> HIDE DEF g
            <4>3. QED
                BY <3>2, <4>1, <4>2 DEF FramesTo
        <3>3. QED
            BY <3>1, <3>2
    <2>3. Made(g, n)
        BY <2>2
    <2> HIDE DEF g, Made
    <2>4. QED
        BY <2>3
<1>3. PICK f : Made(f, N)
    <2>1. \A n \in 1..N : n - 1 \in S => n \in S
        BY <1>2
    <2> HIDE DEF S
    <2>2. \A n \in 0..N : n \in S
        BY <1>1, <2>1, UpTo, Zenon
    <2>3. N \in S
        BY <2>2
    <2>4. QED
        BY <2>3 DEF S
<1> DEFINE c == FramesOf(s, isCancelled)
<1>4. c = [i \in 0..N |-> FramesTo(s, isCancelled, c, i)]
    BY <1>3 DEF FramesOf
<1>5. Process(s, isCancelled) = c[N]
    BY DEF Process, FramesOf, FramesTo
<1> HIDE DEF c
<1>6. c[0] = s /\ \A i \in 1..N : c[i] = NextFrame(c[i - 1], isCancelled)
    <2>1. \A i \in 0..N : c[i] = FramesTo(s, isCancelled, c, i)
        BY <1>4
    <2>2. QED
        BY <2>1 DEF FramesTo
<1>7. QED
    BY <1>5, <1>6 DEF c, Processes

LEMMA ProcessKeepsUp ==
    ASSUME NEW p \in Protocols, NEW body, IsBody(body), NEW pos \in 0..Len(body),
           NEW s, KeepsUp(s, p, body, pos), Len(s.buffer) \in Nat, NEW isCancelled
    PROVE  Process(s, isCancelled).rc = "ok" => KeepsUp(Process(s, isCancelled), p, body, pos)
<1> DEFINE N == Len(s.buffer)
           f == FramesOf(s, isCancelled)
           S == {n \in 0..N : f[n].rc = "ok" => KeepsUp(f[n], p, body, pos)}
<1>1. Process(s, isCancelled) = f[N] /\ f[0] = s /\ \A n \in 1..N : f[n] = NextFrame(f[n - 1], isCancelled)
    BY FramesAre DEF Processes
<1> HIDE DEF f
<1>2. 0 \in S
    BY <1>1
<1>3. ASSUME NEW n \in 1..N, n - 1 \in S PROVE n \in S
    <2>1. f[n] = NextFrame(f[n - 1], isCancelled) /\ (f[n - 1].rc = "ok" => KeepsUp(f[n - 1], p, body, pos))
        BY <1>1, <1>3
    <2>2. CASE f[n - 1].rc = "ok"
        BY <2>1, <2>2, NextFrameKeepsUp
    <2>3. CASE f[n - 1].rc # "ok"
        BY <2>1, <2>3 DEF NextFrame
    <2>4. QED
        BY <2>2, <2>3
<1>4. N \in S
    <2>1. \A n \in 1..N : n - 1 \in S => n \in S
        BY <1>3
    <2> HIDE DEF S
    <2>2. \A n \in 0..N : n \in S
        BY <1>2, <2>1, UpTo, Zenon
    <2>3. QED
        BY <2>2
<1>5. QED
    BY <1>1, <1>4

(* stream_body_callback: however the network cuts the body                *)
LEMMA BodyKeepsUp ==
    ASSUME NEW p \in Protocols, NEW body, IsBody(body), NEW pos \in 0..Len(body),
           NEW n \in 1..(Len(body) - pos), NEW s, KeepsUp(s, p, body, pos), NEW isCancelled
    PROVE  LET r == StreamBody(s, SubSeq(body, pos + 1, pos + n), isCancelled) IN
           r.rc = "ok" => KeepsUp(r, p, body, pos + n)
<1> DEFINE f == ChunksUpTo(p, body)
           data == SubSeq(body, pos + 1, pos + n)
           r == StreamBody(s, data, isCancelled)
<1>1. PICK m \in 0..pos : Reached(s, p, f[m]) /\ (s.finished \/ s.buffer = SubSeq(body, m + 1, pos))
    BY DEF KeepsUp
<1>2. Len(body) \in Nat /\ IsSequence(body)
    BY DEF IsBody, IsSequence
<1>3. m \in 0..(pos + n) /\ pos + n \in 0..Len(body)
    BY <1>2
<1> HIDE DEF f
<1>4. CASE s.finished
    <2>1. r = [s EXCEPT !.rc = "ok"]
        BY <1>4 DEF StreamBody
    <2>2. Reached(r, p, f[m]) /\ r.finished
        BY <1>1, <1>4, <2>1 DEF Reached, StreamFields
    <2>3. QED
        BY <1>3, <2>2 DEF KeepsUp, f
<1>5. CASE ~s.finished /\ Len(s.buffer) + Len(data) > MaxPending
    <2>1. r = [s EXCEPT !.rc = "limit"]
        BY <1>5 DEF StreamBody
    <2>2. r.rc = "limit"
        BY <1>1, <2>1 DEF Reached, StreamFields
    <2>3. QED
        BY <2>2
<1>6. CASE ~s.finished /\ ~(Len(s.buffer) + Len(data) > MaxPending)
    <2> DEFINE t == [s EXCEPT !.buffer = @ \o data, !.rc = "ok"]
    <2>1. r = Process(t, isCancelled)
        BY <1>6 DEF StreamBody
    <2>2. s.buffer \o data = SubSeq(body, m + 1, pos + n)
        <3>1. PICK A : body \in Seq(A)
            BY <1>2 DEF IsSequence
        <3>2. s.buffer = SubSeq(body, m + 1, pos)
            BY <1>1, <1>6
        <3>3. m + 1 \in 1..(Len(body) + 1) /\ pos \in m..Len(body) /\ pos + n \in pos..Len(body)
            BY <1>2
        <3>4. QED
            BY <3>1, <3>2, <3>3, ConcatAdjacentSubSeq
    <2>3. Reached(t, p, f[m]) /\ t.buffer = SubSeq(body, m + 1, pos + n)
        BY <1>1, <2>2 DEF Reached, StreamFields
    <2>4. KeepsUp(t, p, body, pos + n)
        BY <1>3, <2>3 DEF KeepsUp, f
    <2>5. Len(t.buffer) \in Nat
        <3>1. m + 1 \in Nat \ {0} /\ pos + n \in Int /\ pos + n <= Len(body)
            BY <1>2
        <3>2. IsSequence(SubSeq(body, m + 1, pos + n))
            BY <1>2, <3>1, PartIs, ZenonT(40)
        <3>3. PICK b : b = SubSeq(body, m + 1, pos + n)
            OBVIOUS
        <3>4. Len(b) \in Nat
            BY <3>2, <3>3 DEF IsSequence
        <3> HIDE DEF t
        <3>5. QED
            BY <2>3, <3>3, <3>4
    <2> HIDE DEF t
    <2>6. QED
        BY <1>3, <2>1, <2>4, <2>5, ProcessKeepsUp
<1>7. QED
    BY <1>4, <1>5, <1>6

(* flush_stream_tail: nothing of the body is left then                    *)
LEMMA TailReaches ==
    ASSUME NEW p \in Protocols, NEW body, IsBody(body), NEW pos \in 0..Len(body),
           NEW s, KeepsUp(s, p, body, pos), NEW isCancelled
    PROVE  LET r == FlushTail(s, isCancelled) IN
           r.rc = "ok" => \E m \in 0..pos : Reached(r, p, ChunksUpTo(p, body)[m])
<1> DEFINE f == ChunksUpTo(p, body)
           r == FlushTail(s, isCancelled)
<1>1. PICK m \in 0..pos : Reached(s, p, f[m]) /\ (s.finished \/ s.buffer = SubSeq(body, m + 1, pos))
    BY DEF KeepsUp
<1>2. CASE r = s
    BY <1>1, <1>2
<1>3. CASE r # s
    <2> DEFINE t == [s EXCEPT !.buffer = << >>]
    <2>1. ~s.finished /\ r = Dispatch(t, EventIn(s.buffer), isCancelled)
        BY <1>3 DEF FlushTail
    <2>2. s.buffer = SubSeq(body, m + 1, pos)
        BY <1>1, <2>1
    <2>3. Reached(t, p, f[m])
        BY <1>1 DEF Reached, StreamFields
    <2>4. ~HasFinished(f[m])
        BY <1>1, <2>1 DEF Reached
    <2>5. UpToBody(f, p, body) /\ m \in 0..Len(body) /\ pos \in m..Len(body)
        BY ChunksAre DEF IsBody, IsSequence
    <2> HIDE DEF f, t
    <2>6. FrameTaken(t, Dispatch(t, EventIn(SubSeq(body, m + 1, pos)), isCancelled), p, f[pos])
        BY <2>3, <2>4, <2>5, FrameReaches
    <2>7. QED
        BY <2>1, <2>2, <2>6 DEF FrameTaken, f
<1>4. QED
    BY <1>2, <1>3

-----------------------------------------------------------------------------
(* The streams of calls *)

StreamFits(on, p, x, s) ==
    /\ IsBody(x.body) /\ x.pos \in 0..Len(x.body)
    /\ x.phase \in {"idle", "start", "config", "pool", "attempt", "connect", "headers"} => s = NewStream(p)
    /\ x.phase \in {"connect", "headers"} => x.pos = 0 /\ ~x.sawBody
    /\ x.phase \in {"body", "failed"} /\ ~x.sawBody => s = NewStream(p)
    /\ x.phase = "body" =>
          IF on = "freertos" THEN s = NewStream(p) ELSE KeepsUp(s, p, x.body, x.pos)
    /\ x.phase = "buffered" => s = NewStream(p)
    /\ x.phase = "failed" => x.rc # "ok"
    /\ x.phase \in {"failed", "completed"} /\ s.rc = "ok" => s = NewStream(p) \/ KeepsUp(s, p, x.body, x.pos)
    /\ x.phase \in {"completed", "returned"} /\ x.rc = "ok" => KeepsUp(s, p, x.body, x.pos)

StreamInv ==
    /\ \E i \in Instances : clients = i.clients /\ protocol = i.protocol
    /\ DOMAIN call = Callers /\ DOMAIN stream = Callers
    /\ \A c \in Callers :
          /\ DOMAIN call[c] = DOMAIN Fresh(c, 0)
          /\ WantsStream(c) => StreamFits(platform, protocol, call[c], stream[c])

LEMMA EmptyBody == IsBody(<< >>) /\ 0 \in 0..Len(<< >>)
BY DEF IsBody, IsSequence

LEMMA NewKeepsUp ==
    ASSUME NEW p, NEW body, IsBody(body)
    PROVE  KeepsUp(NewStream(p), p, body, 0)
<1>1. IsSequence(body) /\ UpToBody(ChunksUpTo(p, body), p, body)
    BY ChunksAre DEF IsBody
<1>2. ChunksUpTo(p, body)[0] = << >>
    BY <1>1 DEF UpToBody
<1>3. Delivered(<< >>) = NewContext
    <2>1. Delivered(<< >>) = [NewContext EXCEPT !.bytes = 0]
        BY ConsumeNone DEF Delivered, Consume
    <2>2. QED
        BY <2>1 DEF NewContext
<1>4. HasFinished(<< >>) = FALSE
    BY DEF HasFinished
<1>5. SubSeq(body, 0 + 1, 0) = << >>
    <2>1. PICK A : body \in Seq(A)
        BY <1>1 DEF IsSequence
    <2>2. QED
        BY <2>1
<1>6. Reached(NewStream(p), p, << >>)
    BY <1>3, <1>4 DEF Reached, NewStream, StreamFields, NewContext
<1>7. NewStream(p).buffer = << >>
    BY DEF NewStream
<1>8. QED
    BY <1>2, <1>5, <1>6, <1>7 DEF KeepsUp

(* A step of one call disturbs no other                                   *)
Alone(c) ==
    /\ platform' = platform /\ protocol' = protocol /\ clients' = clients
    /\ DOMAIN call' = DOMAIN call /\ \A d \in Callers \ {c} : call'[d] = call[d]
    /\ DOMAIN stream' = DOMAIN stream /\ \A d \in Callers \ {c} : stream'[d] = stream[d]
    /\ DOMAIN call'[c] = DOMAIN call[c]

LEMMA OthersFit ==
    ASSUME NEW c \in Callers, StreamInv, Alone(c),
           WantsStream(c) => StreamFits(platform, protocol, call'[c], stream'[c])
    PROVE  StreamInv'
<1>1. ASSUME NEW d \in Callers
      PROVE  /\ DOMAIN call'[d] = DOMAIN Fresh(d, 0)
             /\ WantsStream(d) => StreamFits(platform', protocol', call'[d], stream'[d])
    BY DEF StreamInv, Alone, WantsStream, Fresh
<1>2. QED
    BY <1>1 DEF StreamInv, Alone, WantsStream, Fresh

LEMMA OneFits ==
    ASSUME NEW c \in Callers, StreamInv
    PROVE  /\ DOMAIN call = Callers /\ DOMAIN stream = Callers /\ DOMAIN call[c] = DOMAIN Fresh(c, 0)
           /\ protocol \in Protocols
           /\ WantsStream(c) => StreamFits(platform, protocol, call[c], stream[c])
BY ServerAssumption DEF StreamInv, Protocols

StreamSame == UNCHANGED <<protocol, clients, stream>>

LEMMA StartFits ==
    ASSUME NEW c \in Callers, StreamInv, StreamSame, Start(c) \/ TakeConfig(c) \/ TakePool(c)
    PROVE  StreamInv'
<1>1. Alone(c)
    BY OneFits DEF Start, TakeConfig, TakePool, To, StreamSame, Alone
<1>2. WantsStream(c) => StreamFits(platform, protocol, call'[c], stream'[c])
    BY OneFits DEF Start, TakeConfig, TakePool, To, StreamSame, StreamFits, Fresh
<1>3. QED
    BY <1>1, <1>2, OthersFit

LEMMA AttemptFits ==
    ASSUME NEW c \in Callers, StreamInv, StreamSame, BeginAttempt(c) \/ DeadlineExpired(c)
    PROVE  StreamInv'
<1>1. Alone(c)
    BY OneFits, ZenonT(40) DEF BeginAttempt, DeadlineExpired, Freed, StreamSame, Alone
<1>2. WantsStream(c) => StreamFits(platform, protocol, call'[c], stream'[c])
    <2>1. CASE BeginAttempt(c)
        <3>1. /\ call'[c].phase \in {"headers", "connect"} /\ call'[c].body = << >> /\ call'[c].pos = 0
              /\ call'[c].sawBody = FALSE /\ stream' = stream /\ call[c].phase = "attempt"
            BY <2>1, OneFits DEF BeginAttempt, StreamSame, Fresh
        <3>2. QED
            BY <3>1, OneFits, EmptyBody DEF StreamFits
    <2>2. CASE DeadlineExpired(c)
        <3>1. /\ call'[c].phase = "returned" /\ call'[c].rc = "timeout" /\ call'[c].body = << >>
              /\ call'[c].pos = 0 /\ stream' = stream /\ call[c].phase = "attempt"
            BY <2>2, OneFits DEF DeadlineExpired, Freed, StreamSame, Fresh
        <3>2. QED
            BY <3>1, OneFits, EmptyBody DEF StreamFits
    <2>3. QED
        BY <2>1, <2>2
<1>3. QED
    BY <1>1, <1>2, OthersFit

LEMMA ConnectFits ==
    ASSUME NEW c \in Callers, StreamInv, StreamSame, Connect(c) \/ DataRefused(c) \/ CancelSeen(c)
    PROVE  StreamInv'
<1>1. Alone(c)
    BY OneFits DEF Connect, DataRefused, CancelSeen, Ends, StreamSame, Alone
<1>2. WantsStream(c) => StreamFits(platform, protocol, call'[c], stream'[c])
    BY OneFits DEF Connect, DataRefused, CancelSeen, Ends, OnTheWire, Refuses, StreamSame,
                   StreamFits, Fresh
<1>3. QED
    BY <1>1, <1>2, OthersFit

LEMMA AnswerFits == ASSUME NEW c \in Callers, StreamInv, StreamSame, Answer(c) PROVE StreamInv'
<1>1. PICK a \in ServerAnswers(clients, UseOf[c], protocol) : Headers(c, a.status, a.body)
    BY DEF Answer
<1>2. IsBody(a.body)
    <2>1. PICK i \in Instances : clients = i.clients /\ protocol = i.protocol
        BY DEF StreamInv
    <2>2. IsSequence(a.body) /\ \A x \in Range(a.body) : IsSequence(x.event.tools)
        BY <1>1, <2>1, ServerAssumption DEF IsSequence
    <2>3. \A n \in 1..Len(a.body) : a.body[n] \in Range(a.body)
        BY <2>2 DEF IsSequence, Range
    <2>4. QED
        BY <2>2, <2>3 DEF IsBody, IsEvent
<1>3. Alone(c)
    BY <1>1, OneFits DEF Headers, StreamSame, Alone
<1>4. WantsStream(c) => StreamFits(platform, protocol, call'[c], stream'[c])
    <2>1. Len(a.body) \in Nat
        BY <1>2 DEF IsBody, IsSequence
    <2>2. KeepsUp(NewStream(protocol), protocol, a.body, 0)
        BY <1>2, NewKeepsUp
    <2>3. QED
        BY <1>1, <1>2, <2>1, <2>2, OneFits DEF Headers, StreamSame, StreamFits, Fresh
<1>5. QED
    BY <1>3, <1>4, OthersFit

LEMMA EndFits ==
    ASSUME NEW c \in Callers, StreamInv, StreamSame, AnswerEnds(c) \/ PeerCloses(c) \/ ExchangeFails(c) \/ Retry(c)
    PROVE  StreamInv'
<1>1. Alone(c)
    BY OneFits DEF AnswerEnds, PeerCloses, ExchangeFails, Retry, To, StreamSame, Alone
<1>2. ASSUME WantsStream(c), AnswerEnds(c) \/ PeerCloses(c) PROVE StreamFits(platform, protocol, call'[c], stream'[c])
    BY <1>2, OneFits DEF AnswerEnds, PeerCloses, Arrived, To, StreamSame, StreamFits, Fresh
<1>3. ASSUME WantsStream(c), ExchangeFails(c) PROVE StreamFits(platform, protocol, call'[c], stream'[c])
    <2>1. /\ call'[c].phase = "failed" /\ call'[c].rc = "network" /\ call'[c].body = call[c].body
          /\ call'[c].pos = call[c].pos /\ call'[c].sawBody = call[c].sawBody /\ stream' = stream
          /\ call[c].phase \in {"connect", "headers", "body"}
        <3>1. PICK again \in BOOLEAN :
                 call' = [call EXCEPT ![c].phase = "failed", ![c].retryable = again, ![c].rc = "network"]
            BY <1>3 DEF ExchangeFails
        <3>2. QED
            BY <1>3, <3>1, OneFits, ZenonT(40) DEF ExchangeFails, OnTheWire, StreamSame, Fresh
    <2>2. QED
        BY <1>3, <2>1, OneFits DEF StreamFits
<1>4. ASSUME WantsStream(c), Retry(c) PROVE StreamFits(platform, protocol, call'[c], stream'[c])
    BY <1>4, OneFits DEF Retry, CanRetry, To, StreamSame, StreamFits, Fresh, WantsStream
<1>5. QED
    BY <1>1, <1>2, <1>3, <1>4, OthersFit

(* An answer of which not all of the headers have come                    *)
LEMMA HalfLine == IsBody(<<Token("half")>>) /\ Len(<<Token("half")>>) = 1 /\ <<Token("half")>>[1].t = "half"
<1>1. Token("half").event.tools = << >> /\ Token("half").t = "half"
    BY DEF Token, Plain, Event
<1>2. << >> \in Seq(Range(<< >>))
    OBVIOUS
<1>3. PICK x : x = Token("half")
    OBVIOUS
<1>4. <<x>> \in Seq(Range(<<x>>)) /\ Len(<<x>>) = 1 /\ <<x>>[1] = x
    BY DEF Range
<1>5. PICK b : b = <<x>>
    OBVIOUS
<1>6. IsSequence(b) /\ Len(b) = 1 /\ b[1] = x
    BY <1>4, <1>5 DEF IsSequence
<1>7. IsEvent(x.event)
    BY <1>1, <1>2, <1>3 DEF IsEvent, IsSequence
<1>8. IsBody(b)
    BY <1>6, <1>7 DEF IsBody
<1>9. QED
    BY <1>1, <1>3, <1>5, <1>6, <1>8, Zenon

CutTo(x, y) ==
    /\ x.phase = "headers" /\ y.phase = "buffered"
    /\ y.body \in {<< >>, <<Token("half")>>} /\ y.pos = Len(y.body)

LEMMA HeadersCutIs ==
    ASSUME NEW c \in Callers, StreamInv, HeadersCut(c)
    PROVE  /\ CutTo(call[c], call'[c]) /\ DOMAIN call' = DOMAIN call /\ DOMAIN call'[c] = DOMAIN call[c]
           /\ platform' = platform /\ \A d \in Callers \ {c} : call'[d] = call[d]
<1>1. PICK status \in {0, 200}, text \in {<< >>, <<Token("half")>>} : PeerClosesInHeaders(c, status, text)
    BY DEF HeadersCut
<1> HIDE DEF HeadersCut
<1>2. QED
    BY <1>1, OneFits DEF PeerClosesInHeaders, CutTo, Fresh

LEMMA HeadersCutFits == ASSUME NEW c \in Callers, StreamInv, StreamSame, HeadersCut(c) PROVE StreamInv'
<1>1. Alone(c) /\ CutTo(call[c], call'[c]) /\ stream' = stream
    BY HeadersCutIs DEF StreamSame, Alone
<1>2. IsBody(call'[c].body) /\ call'[c].pos \in 0..Len(call'[c].body)
    BY <1>1, EmptyBody, HalfLine DEF CutTo
<1>3. WantsStream(c) => StreamFits(platform, protocol, call'[c], stream'[c])
    BY <1>1, <1>2, OneFits DEF CutTo, StreamFits
<1>4. QED
    BY <1>1, <1>3, OthersFit

(* A piece of the body                                                    *)
ArrivesTo(x, y, n, rc) ==
    /\ x.phase = "body" /\ y.phase = IF rc = "ok" THEN "body" ELSE "completed"
    /\ y.body = x.body /\ y.pos = x.pos + n /\ y.pos <= Len(x.body) /\ y.sawBody = TRUE /\ y.rc = rc

LEMMA BodyArrivesIs ==
    ASSUME NEW c \in Callers, StreamInv, NEW n, NEW rc, BodyArrives(c, n, rc)
    PROVE  DOMAIN call' = DOMAIN call /\ DOMAIN call'[c] = DOMAIN call[c] /\ ArrivesTo(call[c], call'[c], n, rc)
<1> DEFINE x == call[c]
           y == [x EXCEPT !.pos = x.pos + n, !.sawBody = TRUE,
                          !.phase = IF rc = "ok" THEN "body" ELSE "completed", !.rc = rc]
<1>1. call' = [call EXCEPT ![c] = y] /\ x.phase = "body" /\ x.pos + n <= Len(x.body)
    BY DEF BodyArrives
<1>2. DOMAIN x = DOMAIN Fresh(c, 0)
    BY OneFits
<1>3. DOMAIN y = DOMAIN x /\ ArrivesTo(x, y, n, rc)
    <2> HIDE DEF x
    <2>1. QED
        BY <1>1, <1>2 DEF Fresh, ArrivesTo, x
<1>4. call'[c] = y /\ DOMAIN call' = DOMAIN call
    BY <1>1, OneFits
<1>5. QED
    BY <1>3, <1>4

LEMMA ReceiveFits ==
    ASSUME NEW c \in Callers, StreamInv, Receive(c), UNCHANGED <<protocol, clients>>
    PROVE  StreamInv'
<1> DEFINE data(n) == SubSeq(call[c].body, call[c].pos + 1, call[c].pos + n)
           s(n) == StreamBody(stream[c], data(n), cancelled[c])
<1>1. PICK n \in 1..(Len(call[c].body) - call[c].pos) :
         IF WantsStream(c) /\ platform # "freertos"
         THEN BodyArrives(c, n, s(n).rc) /\ stream' = [stream EXCEPT ![c] = s(n)]
         ELSE BodyArrives(c, n, "ok") /\ UNCHANGED stream
    BY DEF Receive
<1>2. WantsStream(c) /\ platform # "freertos" /\ s(n).rc = "ok"
         => KeepsUp(s(n), protocol, call[c].body, call[c].pos + n)
    BY <1>1, OneFits, BodyKeepsUp DEF BodyArrives, StreamFits
<1> HIDE DEF s
<1>3. Alone(c)
    BY <1>1, OneFits DEF BodyArrives, Alone
<1>4. WantsStream(c) => StreamFits(platform, protocol, call'[c], stream'[c])
    <2>1. CASE platform = "freertos"
        <3>1. ArrivesTo(call[c], call'[c], n, "ok") /\ stream' = stream
            BY <1>1, <2>1, BodyArrivesIs
        <3>2. QED
            BY <1>1, <2>1, <3>1, OneFits DEF ArrivesTo, StreamFits
    <2>2. CASE platform # "freertos"
        <3>1. WantsStream(c) => ArrivesTo(call[c], call'[c], n, s(n).rc) /\ stream'[c] = s(n)
            BY <1>1, <2>2, BodyArrivesIs, OneFits
        <3>2. WantsStream(c) => IsBody(call[c].body) /\ call[c].pos \in Nat /\ Len(call[c].body) \in Nat
            BY OneFits DEF StreamFits, IsBody, IsSequence
        <3>3. QED
            BY <1>1, <1>2, <2>2, <3>1, <3>2 DEF ArrivesTo, StreamFits
    <2>3. QED
        BY <2>1, <2>2
<1>5. QED
    BY <1>3, <1>4, OthersFit

LEMMA ReceiveAllFits ==
    ASSUME NEW c \in Callers, StreamInv, ReceiveAll(c), UNCHANGED <<protocol, clients>>
    PROVE  StreamInv'
<1> DEFINE s == IF WantsStream(c) /\ call[c].pos > 0
                THEN StreamBody(stream[c], SubSeq(call[c].body, 1, call[c].pos), cancelled[c])
                ELSE stream[c]
<1>1. BufferedBody(c, s.rc) /\ stream' = [stream EXCEPT ![c] = s]
    BY DEF ReceiveAll
<1>2. ASSUME WantsStream(c), s.rc = "ok" PROVE KeepsUp(s, protocol, call[c].body, call[c].pos)
    <2>1. /\ stream[c] = NewStream(protocol) /\ IsBody(call[c].body) /\ call[c].pos \in 0..Len(call[c].body)
          /\ protocol \in Protocols
        BY <1>1, <1>2, OneFits DEF BufferedBody, StreamFits
    <2>2. KeepsUp(stream[c], protocol, call[c].body, 0)
        BY <2>1, NewKeepsUp
    <2>3. CASE call[c].pos = 0
        BY <2>2, <2>3
    <2>4. CASE call[c].pos > 0
        <3>1. s = StreamBody(stream[c], SubSeq(call[c].body, 0 + 1, 0 + call[c].pos), cancelled[c])
            BY <1>2, <2>1, <2>4
        <3>2. /\ 0 \in 0..Len(call[c].body) /\ call[c].pos \in 1..(Len(call[c].body) - 0)
              /\ 0 + call[c].pos = call[c].pos
            BY <2>1, <2>4
        <3>3. QED
            BY <1>2, <2>1, <2>2, <3>1, <3>2, BodyKeepsUp
    <2>5. QED
        BY <2>1, <2>3, <2>4
<1> HIDE DEF s
<1>3. Alone(c)
    BY <1>1, OneFits DEF BufferedBody, Ends, Alone
<1>4. WantsStream(c) => StreamFits(platform, protocol, call'[c], stream'[c])
    BY <1>1, <1>2, OneFits DEF BufferedBody, Ends, StreamFits, Fresh
<1>5. QED
    BY <1>3, <1>4, OthersFit

(* The end of a call                                                      *)
LEMMA CompleteFits ==
    ASSUME NEW c \in Callers, StreamInv, Complete(c), UNCHANGED <<protocol, clients>>,
           stream' = IF call[c].rc = "ok" THEN stream ELSE Forget(c)
    PROVE  StreamInv'
<1>1. PICK request \in After(c) : call' = [call EXCEPT ![c] = request]
    BY DEF Complete
<1>2. DOMAIN request = DOMAIN call[c]
    BY <1>1, OneFits DEF After, Freed, Hops
<1>3. Alone(c)
    BY <1>1, <1>2, OneFits DEF Complete, Forget, Alone
<1>4. ASSUME WantsStream(c) PROVE StreamFits(platform, protocol, request, stream'[c])
    <2>1. CASE call[c].rc = "ok"
        <3>1. request = [call[c] EXCEPT !.phase = "returned"] /\ stream' = stream
            BY <1>1, <1>4, <2>1 DEF After, WantsStream
        <3>2. QED
            BY <1>4, <2>1, <3>1, OneFits DEF Complete, StreamFits, Fresh
    <2>2. CASE call[c].rc # "ok"
        <3>1. request = Freed(call[c], call[c].rc) /\ stream'[c] = NewStream(protocol)
            BY <1>1, <2>2, OneFits DEF After, Forget
        <3>2. /\ request.phase = "returned" /\ request.rc # "ok" /\ request.body = << >> /\ request.pos = 0
            BY <2>2, <3>1, OneFits DEF Freed, Fresh
        <3>3. QED
            BY <3>1, <3>2, EmptyBody DEF StreamFits
    <2>3. QED
        BY <2>1, <2>2
<1>5. call'[c] = request
    BY <1>1, OneFits
<1>6. QED
    BY <1>3, <1>4, <1>5, OthersFit

LEMMA ReturnFits ==
    ASSUME NEW c \in Callers, StreamInv, UNCHANGED <<protocol, clients>>,
           Perform(c) \/ Return(c), stream' = Forget(c)
    PROVE  StreamInv'
<1>1. stream'[c] = NewStream(protocol)
    BY OneFits DEF Forget
<1>2. Alone(c)
    BY OneFits DEF Perform, Return, Forget, Alone, Fresh
<1>3. CASE Perform(c)
    <2>1. WantsStream(c) => StreamFits(platform, protocol, call'[c], stream'[c])
        BY <1>1, <1>3, OneFits DEF Perform, StreamFits, Fresh
    <2>2. QED
        BY <1>2, <2>1, OthersFit
<1>4. CASE Return(c)
    <2>1. /\ call'[c].phase = "idle" /\ call'[c].body = << >> /\ call'[c].pos = 0
        BY <1>4, OneFits DEF Return, Fresh
    <2>2. WantsStream(c) => StreamFits(platform, protocol, call'[c], stream'[c])
        BY <1>1, <2>1, EmptyBody DEF StreamFits
    <2>3. QED
        BY <1>2, <2>2, OthersFit
<1>5. QED
    BY <1>3, <1>4

LEMMA ElsewhereFits == ASSUME StreamInv, StreamSame, UNCHANGED <<platform, call>> PROVE StreamInv'
BY DEF StreamInv, StreamSame, WantsStream, Fresh

LEMMA StreamsFit == ASSUME StreamInv, [StreamNext]_streamVars PROVE StreamInv'
<1>1. CASE UNCHANGED streamVars
    BY <1>1, ElsewhereFits DEF streamVars, httpVars, StreamSame
<1>2. CASE StreamNext
    <2>1. UNCHANGED <<protocol, clients>>
        BY <1>2 DEF StreamNext
    <2>2. CASE \/ Finished
               \/ (ResetStarts \/ TimePasses) /\ UNCHANGED stream
               \/ Resets
        BY <2>1, <2>2, ElsewhereFits DEF Finished, httpVars, ResetStarts, Resets, ResetLocks,
                                         ResetCloses, TimePasses, StreamSame
    <2>3. ASSUME NEW c \in Callers, AskServer(c) \/ Lock(c) \/ Interruption(c) PROVE StreamInv'
        <3>1. CASE AskServer(c)
            BY <2>1, <3>1, ReturnFits DEF AskServer, Forget
        <3>2. CASE Lock(c)
            BY <2>1, <3>2, StartFits DEF Lock, StreamSame
        <3>3. CASE Interruption(c)
            BY <2>1, <3>3, AttemptFits, ConnectFits, ElsewhereFits DEF Interruption, Cancel, StreamSame
        <3>4. QED
            BY <2>3, <3>1, <3>2, <3>3
    <2>4. ASSUME NEW c \in Callers, Work(c) PROVE StreamInv'
        <3>1. CASE Receive(c)
            BY <2>1, <3>1, ReceiveFits
        <3>2. CASE ReceiveAll(c)
            BY <2>1, <3>2, ReceiveAllFits
        <3>3. CASE Complete(c) /\ stream' = IF call[c].rc = "ok" THEN stream ELSE Forget(c)
            BY <2>1, <3>3, CompleteFits
        <3>4. CASE Return(c) /\ stream' = Forget(c)
            BY <2>1, <3>4, ReturnFits
        <3>5. CASE /\ \/ Start(c) \/ BeginAttempt(c) \/ Connect(c) \/ Answer(c) \/ DataRefused(c)
                      \/ AnswerEnds(c) \/ PeerCloses(c) \/ HeadersCut(c) \/ ExchangeFails(c) \/ Retry(c)
                   /\ UNCHANGED stream
            BY <2>1, <3>5, StartFits, AttemptFits, ConnectFits, AnswerFits, EndFits, HeadersCutFits
               DEF StreamSame
        <3>6. QED
            BY <2>4, <3>1, <3>2, <3>3, <3>4, <3>5 DEF Work
    <2>5. QED
        BY <1>2, <2>2, <2>3, <2>4 DEF StreamNext
<1>3. QED
    BY <1>1, <1>2

LEMMA StreamsBegin == ASSUME StreamInit PROVE StreamInv
<1>1. /\ \E i \in Instances : clients = i.clients /\ protocol = i.protocol
      /\ call = [c \in Callers |-> Fresh(c, 0)] /\ stream = [c \in Callers |-> NewStream(protocol)]
    BY DEF StreamInit, HttpInit
<1>2. ASSUME NEW c \in Callers PROVE StreamFits(platform, protocol, call[c], stream[c])
    <2>1. call[c].phase = "idle" /\ call[c].body = << >> /\ call[c].pos = 0
        BY <1>1 DEF Fresh
    <2>2. QED
        BY <1>1, <2>1, EmptyBody DEF StreamFits
<1>3. \A c \in Callers : DOMAIN call[c] = DOMAIN Fresh(c, 0)
    BY <1>1
<1>4. QED
    BY <1>1, <1>2, <1>3 DEF StreamInv

(* The invariant of the streams                                           *)
THEOREM StreamInvariant == StreamSpec => []StreamInv
<1>1. StreamInit => StreamInv
    BY StreamsBegin
<1>2. StreamInv /\ [StreamNext]_streamVars => StreamInv'
    BY StreamsFit
<1>3. QED
    BY <1>1, <1>2, PTL DEF StreamSpec

(* What the runtime was given is the beginning of what the answer says    *)
LEMMA BeginningIs ==
    ASSUME NEW s, NEW t, IsSequence(s), Begins(s, t)
    PROVE  \E i \in 0..Len(t) : s = SubSeq(t, 1, i)
<1>1. PICK rest : IsSequence(rest) /\ t = s \o rest
    BY DEF Begins
<1>2. PICK A : s \in Seq(A)
    BY DEF IsSequence
<1>3. PICK B : rest \in Seq(B)
    BY <1>1 DEF IsSequence
<1>4. s \in Seq(A \cup B) /\ rest \in Seq(A \cup B)
    BY <1>2, <1>3
<1>5. Len(s) \in 0..Len(t)
    BY <1>1, <1>4
<1> DEFINE u == SubSeq(t, 1, Len(s))
<1>6. u = s
    <2>1. t \in Seq(A \cup B) /\ u \in Seq(A \cup B) /\ Len(u) = Len(s)
        BY <1>1, <1>4, <1>5
    <2>2. \A i \in 1..Len(s) : u[i] = t[i] /\ t[i] = s[i]
        BY <1>1, <1>4, <1>5
    <2> HIDE DEF u
    <2>3. QED
        BY <1>4, <2>1, <2>2
<1>7. QED
    BY <1>5, <1>6

LEMMA ReachedBeginning ==
    ASSUME NEW p \in Protocols, NEW body, IsBody(body), NEW m \in 0..Len(body),
           NEW s, Reached(s, p, ChunksUpTo(p, body)[m])
    PROVE  \E i \in 0..Len(ChunksOf(p, body)) : s.out = Delivered(SubSeq(ChunksOf(p, body), 1, i))
<1> DEFINE f == ChunksUpTo(p, body)
<1>1. UpToBody(f, p, body)
    BY ChunksAre DEF IsBody
<1> HIDE DEF f
<1>2. IsSequence(f[m]) /\ Begins(f[m], ChunksOf(p, body))
    BY <1>1, ChunksGrow
<1>3. PICK i \in 0..Len(ChunksOf(p, body)) : f[m] = SubSeq(ChunksOf(p, body), 1, i)
    BY <1>2, BeginningIs
<1>4. QED
    BY <1>3 DEF Reached, f

(* An answer that has ended: nothing is missing of it                     *)
LEMMA FinishedIs ==
    ASSUME NEW chunks, IsSequence(chunks), HasFinished(chunks), Delivered(chunks).rc = "ok"
    PROVE  Delivered(chunks).finished
<1> DEFINE N == Len(chunks)
<1>1. N \in Nat /\ N # 0 /\ chunks[N] = FinishedChunk
    BY DEF HasFinished, IsSequence
<1>2. PICK g : Consumes(g, [NewContext EXCEPT !.bytes = 0], chunks, Len(chunks), 0)
    BY ContextsAre, Zenon
<1>3. Delivered(chunks) = g[N]
    BY <1>2 DEF Consumes, Delivered, Consume
<1>4. g[N] = NextContext(g[N - 1], FinishedChunk, FALSE, FALSE)
    <2>1. (N > N) = FALSE /\ (N = 0) = FALSE /\ N \in 1..N
        BY <1>1
    <2>2. QED
        BY <1>1, <1>2, <2>1 DEF Consumes
<1>5. ContextFields(g[N])
    BY <1>3, DeliveredFields
<1>6. QED
    BY <1>3, <1>4, <1>5 DEF NextContext, Callback, Accept, FinishedChunk, Chunk, ContextFields,
                            NewContext

LEMMA ReachedEnd ==
    ASSUME NEW p \in Protocols, NEW body, IsBody(body), NEW m \in 0..Len(body),
           NEW s, Reached(s, p, ChunksUpTo(p, body)[m]), s.done
    PROVE  s.out = Delivered(ChunksOf(p, body)) /\ s.out.finished
<1> DEFINE f == ChunksUpTo(p, body)
<1>1. UpToBody(f, p, body) /\ Len(body) \in Nat
    BY ChunksAre DEF IsBody, IsSequence
<1>2. Reached(s, p, f[m])
    OBVIOUS
<1> HIDE DEF f
<1>3. HasFinished(f[m]) /\ s.out = Delivered(f[m]) /\ s.out.rc = "ok"
    BY <1>2 DEF Reached
<1>4. IsSequence(f[m]) /\ f[Len(body)] = f[m]
    <2>1. \A i, j \in 0..Len(body) : i <= j /\ HasFinished(f[i]) => f[j] = f[i]
        BY <1>1, ChunksGrow
    <2>2. QED
        BY <1>1, <1>3, <2>1, ChunksGrow
<1>5. QED
    BY <1>1, <1>3, <1>4, FinishedIs DEF UpToBody

(* A streamed success was delivered whole.                                *)
LEMMA StreamedWhole ==
    ASSUME StreamInv, NEW c \in Callers, WantsStream(c), call[c].phase = "returned", Result(c) = "ok"
    PROVE  Flushed(c).out = Whole(c) /\ Flushed(c).out.finished /\ Flushed(c).out.rc = "ok"
<1> DEFINE body == call[c].body
           pos == call[c].pos
<1>1. StreamFits(platform, protocol, call[c], stream[c]) /\ protocol \in Protocols
    BY OneFits
<1>2. IsBody(body) /\ Len(body) \in Nat /\ pos \in 0..Len(body)
    BY <1>1 DEF StreamFits, IsBody, IsSequence
<1>3. StreamResult(Flushed(c), call[c].rc, call[c].status) = "ok"
    BY DEF Result, WantsStream
<1>4. call[c].rc = "ok" /\ Flushed(c).rc = "ok" /\ Flushed(c).done
    BY <1>3 DEF StreamResult, ClassifyStatus
<1>5. KeepsUp(stream[c], protocol, body, pos)
    BY <1>1, <1>4 DEF StreamFits
<1>6. Flushed(c) = FlushTail(stream[c], cancelled[c])
    BY <1>4 DEF Flushed
<1>7. PICK m \in 0..pos : Reached(Flushed(c), protocol, ChunksUpTo(protocol, body)[m])
    BY <1>1, <1>2, <1>4, <1>5, <1>6, TailReaches
<1>8. m \in 0..Len(body)
    BY <1>2
<1>9. QED
    BY <1>1, <1>2, <1>4, <1>7, <1>8, ReachedEnd DEF Whole, Reached

(* However the network cuts a body, whatever attempts failed before, and  *)
(* wherever the peer closes the connection: the runtime is at any time    *)
(* given the beginning of one answer, and the whole of it when the call   *)
(* succeeds.  For any server, any body and any limits                     *)
(* (stream_body_callback, dispatch_stream_event, can_retry, saw_done).    *)
THEOREM ChunksArriveInOrder == StreamSpec => []ChunksInOrder
<1>1. StreamInv => ChunksInOrder
    <2>1. SUFFICES ASSUME StreamInv, NEW c \in Callers, WantsStream(c)
          PROVE  /\ stream[c].rc = "ok" /\ call[c].phase \in {"body", "buffered", "completed"} =>
                       \E i \in 0..Len(ChunksOf(protocol, call[c].body)) :
                          stream[c].out = Delivered(SubSeq(ChunksOf(protocol, call[c].body), 1, i))
                 /\ call[c].phase = "returned" /\ Result(c) = "ok" =>
                       Flushed(c).out = Whole(c) /\ Flushed(c).out.finished
        BY DEF ChunksInOrder
    <2> DEFINE body == call[c].body
               pos == call[c].pos
    <2>2. StreamFits(platform, protocol, call[c], stream[c]) /\ protocol \in Protocols
        BY <2>1, OneFits
    <2>3. IsBody(body) /\ Len(body) \in Nat /\ pos \in 0..Len(body)
        BY <2>2 DEF StreamFits, IsBody, IsSequence
    <2>4. ASSUME stream[c].rc = "ok", call[c].phase \in {"body", "buffered", "completed"}
          PROVE  \E i \in 0..Len(ChunksOf(protocol, body)) :
                    stream[c].out = Delivered(SubSeq(ChunksOf(protocol, body), 1, i))
        <3>1. \E at \in 0..Len(body) : KeepsUp(stream[c], protocol, body, at)
            <4>1. stream[c] = NewStream(protocol) \/ KeepsUp(stream[c], protocol, body, pos)
                BY <2>2, <2>4 DEF StreamFits
            <4>2. 0 \in 0..Len(body)
                BY <2>3
            <4>3. QED
                BY <2>3, <4>1, <4>2, NewKeepsUp
        <3>2. PICK m \in 0..Len(body) : Reached(stream[c], protocol, ChunksUpTo(protocol, body)[m])
            BY <2>3, <3>1 DEF KeepsUp
        <3>3. QED
            BY <2>2, <2>3, <3>2, ReachedBeginning
    <2>5. ASSUME call[c].phase = "returned", Result(c) = "ok"
          PROVE  Flushed(c).out = Whole(c) /\ Flushed(c).out.finished
        BY <2>1, <2>5, StreamedWhole
    <2>6. QED
        BY <2>4, <2>5
<1>2. QED
    BY <1>1, StreamInvariant, PTL

-----------------------------------------------------------------------------
(* A complete response and the tools it becomes                           *)

(* A sequence of sequences, one after the other                           *)
FlatFrom(parts) == [i \in 0..Len(parts) |-> IF i = 0 THEN << >> ELSE FlatOf(parts)[i]]
FlatMade(f, parts) ==
    /\ f[0] = << >> /\ FlattenSeq(parts) = f[Len(parts)]
    /\ \A i \in 1..Len(parts) : f[i] = f[i - 1] \o parts[i]

LEMMA FlatIs ==
    ASSUME NEW A, NEW parts \in Seq(Seq(A))
    PROVE  FlatMade(FlatFrom(parts), parts)
<1> DEFINE N == Len(parts)
           g == FlatFrom(parts)
<1>1. N \in Nat
    OBVIOUS
<1>2. CASE N = 0
    <2>1. FlattenSeq(parts) = parts /\ parts = << >>
        BY <1>2 DEF FlattenSeq
    <2>2. QED
        BY <1>2, <2>1 DEF FlatFrom, FlatMade
<1>3. CASE N # 0
    <2> DEFINE f == FlatOf(parts)
    <2>1. f = [i \in 1..N |-> IF i = 1 THEN parts[i] ELSE f[i - 1] \o parts[i]] /\ FlattenSeq(parts) = f[N]
        BY <1>3, FlatRecursion
    <2>2. \A i \in 1..N : f[i] = IF i = 1 THEN parts[i] ELSE f[i - 1] \o parts[i]
        BY <2>1
    <2>3. g[0] = << >> /\ (\A i \in 1..N : g[i] = f[i]) /\ g[N] = f[N]
        BY <1>1, <1>3 DEF FlatFrom
    <2> HIDE DEF f, g
    <2>4. ASSUME NEW i \in 1..N PROVE g[i] = g[i - 1] \o parts[i]
        <3>1. CASE i = 1
            <4>1. g[i] = parts[1] /\ g[i - 1] = << >> /\ parts[1] \in Seq(A)
                BY <2>2, <2>3, <3>1
            <4>2. << >> \o parts[1] = parts[1]
                BY <4>1
            <4>3. QED
                BY <3>1, <4>1, <4>2
        <3>2. CASE i # 1
            <4>1. i - 1 \in 1..N
                BY <1>1, <3>2
            <4>2. QED
                BY <2>2, <2>3, <3>2, <4>1
        <3>3. QED
            BY <3>1, <3>2
    <2>5. QED
        BY <2>1, <2>3, <2>4 DEF FlatMade, g
<1>4. QED
    BY <1>2, <1>3

(* One chunk more, while the run is not cancelled                         *)
Takes(ctx, chunk) == NextContext(ctx, chunk, FALSE, FALSE)

LEMMA ConsumeThree ==
    ASSUME NEW ctx, NEW a, NEW b, NEW c
    PROVE  ConsumeFrom(ctx, <<a, b, c>>, 3, 0) = Takes(Takes(Takes(ctx, a), b), c)
<1> DEFINE s == <<a, b, c>>
<1>1. IsSequence(s) /\ Len(s) = 3 /\ s[1] = a /\ s[2] = b /\ s[3] = c
    BY DEF IsSequence, Range
<1> HIDE DEF s
<1>2. PICK f : Consumes(f, ctx, s, 3, 0)
    BY <1>1, ContextsAre, Zenon
<1>3. \A i \in 1..3 : f[i] = Takes(f[i - 1], s[i])
    <2> TAKE i \in 1..3
    <2>1. (i > 3) = FALSE /\ (i = 0) = FALSE
        OBVIOUS
    <2>2. QED
        BY <1>1, <1>2, <2>1 DEF Consumes, Takes
<1>4. f[1] = Takes(f[0], a) /\ f[2] = Takes(f[1], b)
      /\ f[3] = Takes(f[2], c)
    <2>1. 1 \in 1..3 /\ 2 \in 1..3 /\ 3 \in 1..3 /\ 1 - 1 = 0 /\ 2 - 1 = 1 /\ 3 - 1 = 2
        OBVIOUS
    <2>2. /\ f[1] = Takes(f[1 - 1], s[1]) /\ f[2] = Takes(f[2 - 1], s[2])
          /\ f[3] = Takes(f[3 - 1], s[3])
        BY <1>3, <2>1, Zenon
    <2>3. QED
        BY <1>1, <2>1, <2>2
<1>5. ConsumeFrom(ctx, s, 3, 0) = f[3] /\ f[0] = ctx
    BY <1>1, <1>2 DEF Consumes
<1>6. QED
    BY <1>4, <1>5 DEF s

(* While the limit has room left, a chunk is taken for what it is         *)
Size(chunk) == IF chunk.content = "none" THEN 0 ELSE 1
Room(ctx, left) ==
    left \in Nat /\ (MaxStreamBytes > 0 => ctx.bytes \in Nat /\ ctx.bytes + left <= MaxStreamBytes)
Open(ctx, left) == ContextFields(ctx) /\ ctx.rc = "ok" /\ ctx.limited = FALSE /\ Room(ctx, left)
Forwarded(ctx, chunk) ==
    [ctx EXCEPT !.bytes = IF MaxStreamBytes > 0 THEN ctx.bytes + Size(chunk) ELSE ctx.bytes, !.rc = "ok"]

LEMMA ForwardedIs ==
    ASSUME NEW left \in Nat, NEW ctx, NEW chunk, Open(ctx, left + Size(chunk))
    PROVE  /\ Takes(ctx, chunk) = Accept(Forwarded(ctx, chunk), chunk)
           /\ Open(Forwarded(ctx, chunk), left)
           /\ Forwarded(ctx, chunk).slots = ctx.slots /\ Forwarded(ctx, chunk).text = ctx.text
<1> DEFINE n == Size(chunk)
           w == Forwarded(ctx, chunk)
<1>1. n \in {0, 1} /\ MaxStreamBytes \in Nat
    BY StreamAssumption DEF Size
<1>2. /\ ctx.limited = FALSE /\ ctx.rc = "ok" /\ ContextFields(ctx)
      /\ MaxStreamBytes > 0 => ctx.bytes \in Nat /\ ctx.bytes + (left + n) <= MaxStreamBytes
    BY DEF Open, Room
<1>3. ContextFields(w) /\ w.rc = "ok" /\ w.limited = FALSE /\ w.slots = ctx.slots /\ w.text = ctx.text
    BY <1>2 DEF Forwarded, ContextFields, NewContext
<1>4. w.bytes = IF MaxStreamBytes > 0 THEN ctx.bytes + n ELSE ctx.bytes
    BY <1>2 DEF Forwarded, ContextFields, NewContext
<1>5. ForwardChunk(ctx, chunk, FALSE) = w
    <2>1. (MaxStreamBytes > 0 /\ ctx.bytes + n > MaxStreamBytes) = FALSE
        <3> HIDE DEF n
        <3>1. QED
            BY <1>1, <1>2
    <2>2. QED
        BY <1>2, <2>1 DEF ForwardChunk, Forwarded, Size
<1> HIDE DEF w, n
<1>6. Open(w, left)
    BY <1>1, <1>2, <1>3, <1>4 DEF Open, Room
<1>7. QED
    BY <1>2, <1>3, <1>5, <1>6 DEF Takes, NextContext, Callback, w

CallChunks(calls, i) ==
    << Chunk("tool start", i - 1, calls[i].id, "none"),
       Chunk("tool delta", i - 1, calls[i].id, IF calls[i].args = "none" THEN "object" ELSE calls[i].args),
       Chunk("tool end", i - 1, calls[i].id, "none") >>

UsableCalls(calls) ==
    /\ IsSequence(calls) /\ Len(calls) <= MaxTools
    /\ \A i \in 1..Len(calls) : calls[i].args \in {"none", "object"}
    /\ \A i, j \in 1..Len(calls) : calls[i].id = calls[j].id => i = j \/ calls[i].id = NoId

(* The slot of the n-th call, and what it holds                           *)
SlotOf(slot, calls, n) ==
    /\ DOMAIN slot = DOMAIN [index |-> 0, id |-> NoId, args |-> << >>, ended |-> FALSE]
    /\ slot.index = n - 1 /\ slot.id = calls[n].id
IsEmpty(slot) == slot.args = << >> /\ slot.ended = FALSE
IsFilled(slot) == slot.args = <<"object">> /\ slot.ended = FALSE
IsReady(slot) == slot.args = <<"object">> /\ slot.ended = TRUE

(* The slots of the first n calls; all but the last are ready             *)
Slots(ctx, calls, n, text, left) ==
    /\ Open(ctx, left) /\ ctx.text = text /\ Len(ctx.slots) = n
    /\ ctx.slots = [i \in 1..n |-> ctx.slots[i]]
    /\ \A i \in 1..n : SlotOf(ctx.slots[i], calls, i)
    /\ \A i \in 1..(n - 1) : IsReady(ctx.slots[i])
Started(ctx, calls, n, text, left) == Slots(ctx, calls, n, text, left) /\ IsEmpty(ctx.slots[n])
Filled(ctx, calls, n, text, left) == Slots(ctx, calls, n, text, left) /\ IsFilled(ctx.slots[n])
Taken(ctx, calls, n, text, left) == Slots(ctx, calls, n, text, left) /\ \A i \in 1..n : IsReady(ctx.slots[i])

IsStart(chunk) == chunk.type = "tool start" /\ chunk.content = "none"
IsObjectDelta(chunk) == chunk.type = "tool delta" /\ chunk.content = "object"
IsEnd(chunk) == chunk.type = "tool end" /\ chunk.content = "none"
Names(chunk, calls, n) == chunk.index = n - 1 /\ chunk.id = calls[n].id

LEMMA SizesAre ==
    ASSUME NEW chunk, NEW left \in Nat
    PROVE  /\ IsStart(chunk) \/ IsEnd(chunk) => left + Size(chunk) = left
           /\ IsObjectDelta(chunk) => left + Size(chunk) = left + 1
<1>1. IsStart(chunk) \/ IsEnd(chunk) => Size(chunk) = 0
    BY DEF IsStart, IsEnd, Size
<1>2. IsObjectDelta(chunk) => Size(chunk) = 1
    BY DEF IsObjectDelta, Size
<1>3. QED
    BY <1>1, <1>2

LEMMA CallPlace ==
    ASSUME NEW calls, UsableCalls(calls), NEW n \in 1..Len(calls)
    PROVE  n \in Nat \ {0} /\ n - 1 >= 0 /\ n <= MaxTools /\ MaxTools \in Nat
BY StreamAssumption DEF UsableCalls, IsSequence

LEMMA SlotsApart ==
    ASSUME NEW calls, UsableCalls(calls), NEW n \in 1..Len(calls), NEW i \in 1..(n - 1),
           NEW slot, SlotOf(slot, calls, i)
    PROVE  slot.index # n - 1 /\ (calls[n].id = NoId \/ slot.id # calls[n].id)
<1>1. Len(calls) \in Nat
    BY DEF UsableCalls, IsSequence
<1>2. i \in 1..Len(calls) /\ i # n /\ i - 1 # n - 1
    BY <1>1
<1>3. QED
    BY <1>2 DEF SlotOf, UsableCalls

LEMMA NoSlotFound ==
    ASSUME NEW calls, UsableCalls(calls), NEW n \in 1..Len(calls),
           NEW w, Len(w.slots) = n - 1, \A i \in 1..(n - 1) : SlotOf(w.slots[i], calls, i),
           NEW chunk, Names(chunk, calls, n)
    PROVE  FindSlot(w, chunk) = 0
<1>1. \A i \in 1..(n - 1) : w.slots[i].index # n - 1 /\ (calls[n].id = NoId \/ w.slots[i].id # calls[n].id)
    BY SlotsApart
<1>2. QED
    BY <1>1 DEF FindSlot, Names

LEMMA LastFound ==
    ASSUME NEW calls, UsableCalls(calls), NEW n \in 1..Len(calls), NEW text, NEW left,
           NEW w, Slots(w, calls, n, text, left),
           NEW chunk, Names(chunk, calls, n)
    PROVE  FindSlot(w, chunk) = n
<1> DEFINE is == {i \in 1..Len(w.slots) :
                    \/ chunk.index >= 0 /\ w.slots[i].index = chunk.index
                    \/ chunk.id # NoId /\ w.slots[i].id = chunk.id}
<1>1. n \in Nat \ {0} /\ n - 1 >= 0
    BY CallPlace
<1>2. Len(w.slots) = n /\ \A i \in 1..n : SlotOf(w.slots[i], calls, i)
    BY DEF Slots
<1>3. \A i \in 1..(n - 1) : w.slots[i].index # n - 1 /\ (calls[n].id = NoId \/ w.slots[i].id # calls[n].id)
    BY <1>1, <1>2, SlotsApart
<1>4. chunk.index = n - 1 /\ chunk.id = calls[n].id /\ w.slots[n].index = n - 1
    BY <1>1, <1>2 DEF Names, SlotOf
<1>5. is = {n}
    BY <1>1, <1>2, <1>3, <1>4
<1>6. (CHOOSE i \in {n} : \A j \in {n} : i <= j) = n
    BY <1>1
<1>7. FindSlot(w, chunk) = IF is = {} THEN 0 ELSE CHOOSE i \in is : \A j \in is : i <= j
    BY DEF FindSlot
<1> HIDE DEF is
<1>8. QED
    BY <1>5, <1>6, <1>7

LEMMA StartTaken ==
    ASSUME NEW left \in Nat, NEW calls, UsableCalls(calls), NEW n \in 1..Len(calls),
           NEW text, NEW ctx, Taken(ctx, calls, n - 1, text, left), NEW chunk,
           IsStart(chunk), Names(chunk, calls, n)
    PROVE  Started(Takes(ctx, chunk), calls, n, text, left)
<1> DEFINE w == Forwarded(ctx, chunk)
           slot == [index |-> chunk.index, id |-> chunk.id, args |-> << >>, ended |-> FALSE]
           more == Append(w.slots, slot)
           x == [w EXCEPT !.slots = more]
<1>1. n \in Nat \ {0} /\ MaxTools \in Nat /\ n <= MaxTools
    BY CallPlace
<1>2. Takes(ctx, chunk) = Accept(w, chunk) /\ Open(w, left) /\ w.text = text /\ w.slots = ctx.slots
    <2>1. Open(ctx, left + Size(chunk)) /\ ctx.text = text
        BY SizesAre DEF Taken, Slots
    <2>2. QED
        BY <2>1, ForwardedIs
<1>3. /\ Len(w.slots) = n - 1 /\ w.slots = [i \in 1..(n - 1) |-> w.slots[i]]
      /\ \A i \in 1..(n - 1) : SlotOf(w.slots[i], calls, i) /\ IsReady(w.slots[i])
    BY <1>2 DEF Taken, Slots
<1> HIDE DEF w
<1>4. FindSlot(w, chunk) = 0
    BY <1>3, NoSlotFound
<1>5. Accept(w, chunk) = ToolStart(w, chunk)
    BY DEF Accept, IsStart
<1>6. (Len(w.slots) >= MaxTools) = FALSE
    BY <1>1, <1>3
<1>7. ToolStart(w, chunk) = x
    BY <1>4, <1>6 DEF ToolStart
<1>8. SlotOf(slot, calls, n) /\ IsEmpty(slot)
    BY DEF SlotOf, IsEmpty, Names
<1> HIDE DEF slot
<1>9. /\ Len(more) = n /\ more = [i \in 1..n |-> more[i]]
      /\ \A i \in 1..(n - 1) : more[i] = w.slots[i]
      /\ more[n] = slot
    <2>1. w.slots \in Seq({w.slots[i] : i \in 1..(n - 1)})
        BY <1>1, <1>3
    <2>2. QED
        BY <1>1, <1>3, <2>1
<1> HIDE DEF more
<1>10. Open(x, left) /\ x.text = text /\ x.slots = more
    BY <1>2 DEF Open, Room, ContextFields, NewContext
<1> HIDE DEF x
<1>11. /\ \A i \in 1..n : SlotOf(more[i], calls, i)
       /\ \A i \in 1..(n - 1) : IsReady(more[i])
    <2>1. \A i \in 1..n : i = n \/ i \in 1..(n - 1)
        BY <1>1
    <2>2. QED
        BY <1>3, <1>8, <1>9, <2>1
<1>12. Started(x, calls, n, text, left)
    BY <1>8, <1>9, <1>10, <1>11 DEF Started, Slots
<1>13. QED
    BY <1>2, <1>5, <1>7, <1>12

(* The last slot changes                                                  *)
WithLast(ctx, n, slot) == [ctx EXCEPT !.slots = [ctx.slots EXCEPT ![n] = slot]]

LEMMA LastChanges ==
    ASSUME NEW calls, NEW n \in Nat \ {0}, NEW text, NEW left, NEW ctx, Slots(ctx, calls, n, text, left),
           NEW slot, SlotOf(slot, calls, n)
    PROVE  Slots(WithLast(ctx, n, slot), calls, n, text, left) /\ WithLast(ctx, n, slot).slots[n] = slot
<1> DEFINE s == ctx.slots
           t == [s EXCEPT ![n] = slot]
           x == [ctx EXCEPT !.slots = t]
<1>1. /\ Open(ctx, left) /\ ctx.text = text /\ s = [i \in 1..n |-> s[i]]
      /\ \A i \in 1..n : SlotOf(s[i], calls, i)
      /\ \A i \in 1..(n - 1) : IsReady(s[i])
    BY DEF Slots
<1>2. n \in 1..n
    OBVIOUS
<1> HIDE DEF s
<1>3. /\ t[n] = slot /\ (\A i \in 1..(n - 1) : t[i] = s[i]) /\ t = [i \in 1..n |-> t[i]]
      /\ \A i \in 1..n : i = n \/ (i \in 1..(n - 1) /\ t[i] = s[i])
    BY <1>1, <1>2
<1> HIDE DEF t
<1>4. Len(t) = n
    BY <1>3
<1>5. Open(x, left) /\ x.text = text /\ x.slots = t
    BY <1>1 DEF Open, Room, ContextFields, NewContext
<1>6. WithLast(ctx, n, slot) = x
    BY DEF WithLast, t, s
<1> HIDE DEF x
<1>7. (\A i \in 1..n : SlotOf(t[i], calls, i)) /\ (\A i \in 1..(n - 1) : IsReady(t[i]))
    BY <1>1, <1>3
<1>8. QED
    BY <1>3, <1>4, <1>5, <1>6, <1>7 DEF Slots

ForwardsSlots(ctx, chunk, calls, n, text, left) ==
    /\ Takes(ctx, chunk) = Accept(Forwarded(ctx, chunk), chunk)
    /\ Slots(Forwarded(ctx, chunk), calls, n, text, left) /\ Forwarded(ctx, chunk).slots = ctx.slots

LEMMA SlotsForwarded ==
    ASSUME NEW left \in Nat, NEW calls, NEW n, NEW text, NEW ctx, NEW chunk,
           Slots(ctx, calls, n, text, left + Size(chunk))
    PROVE  ForwardsSlots(ctx, chunk, calls, n, text, left)
<1>1. Open(ctx, left + Size(chunk))
    BY DEF Slots
<1>2. /\ Takes(ctx, chunk) = Accept(Forwarded(ctx, chunk), chunk) /\ Open(Forwarded(ctx, chunk), left)
      /\ Forwarded(ctx, chunk).slots = ctx.slots /\ Forwarded(ctx, chunk).text = ctx.text
    BY <1>1, ForwardedIs
<1>3. Slots(Forwarded(ctx, chunk), calls, n, text, left)
    BY <1>2 DEF Slots
<1>4. QED
    BY <1>2, <1>3 DEF ForwardsSlots

LEMMA DeltaTaken ==
    ASSUME NEW left \in Nat, NEW calls, UsableCalls(calls), NEW n \in 1..Len(calls),
           NEW text, NEW ctx, Started(ctx, calls, n, text, left + 1), NEW chunk,
           IsObjectDelta(chunk), Names(chunk, calls, n)
    PROVE  Filled(Takes(ctx, chunk), calls, n, text, left)
<1> DEFINE w == Forwarded(ctx, chunk)
           old == w.slots[n]
           slot == [old EXCEPT !.args = Append(old.args, "object")]
           x == WithLast(w, n, slot)
<1>1. n \in Nat \ {0} /\ n \in 1..n
    BY CallPlace
<1>2. Takes(ctx, chunk) = Accept(w, chunk) /\ Slots(w, calls, n, text, left) /\ IsEmpty(old)
    <2>1. Slots(ctx, calls, n, text, left + Size(chunk)) /\ IsEmpty(ctx.slots[n])
        BY SizesAre DEF Started
    <2>2. ForwardsSlots(ctx, chunk, calls, n, text, left)
        BY <2>1, SlotsForwarded, Zenon
    <2>3. QED
        BY <2>1, <2>2 DEF ForwardsSlots
<1> HIDE DEF w
<1>3. FindSlot(w, chunk) = n
    BY <1>2, LastFound
<1>4. Accept(w, chunk) = ToolDelta(w, chunk)
    BY DEF Accept, IsObjectDelta
<1>5. ToolDelta(w, chunk) = x
    <2>1. (n = 0 \/ w.slots[n].ended) = FALSE
        BY <1>1, <1>2 DEF IsEmpty
    <2>2. QED
        BY <1>3, <2>1 DEF ToolDelta, IsObjectDelta, WithLast
<1>6. SlotOf(old, calls, n)
    BY <1>1, <1>2 DEF Slots
<1> HIDE DEF old
<1>7. SlotOf(slot, calls, n)
    BY <1>6 DEF SlotOf
<1>8. IsFilled(slot)
    <2>1. Append(<< >>, "object") = <<"object">>
        OBVIOUS
    <2>2. QED
        BY <1>2, <1>6, <2>1 DEF SlotOf, IsEmpty, IsFilled
<1> HIDE DEF slot
<1>9. Slots(x, calls, n, text, left) /\ x.slots[n] = slot
    BY <1>1, <1>2, <1>7, LastChanges
<1> HIDE DEF x
<1>10. QED
    BY <1>2, <1>4, <1>5, <1>8, <1>9 DEF Filled

LEMMA EndTaken ==
    ASSUME NEW left \in Nat, NEW calls, UsableCalls(calls), NEW n \in 1..Len(calls),
           NEW text, NEW ctx, Filled(ctx, calls, n, text, left), NEW chunk,
           IsEnd(chunk), Names(chunk, calls, n)
    PROVE  Taken(Takes(ctx, chunk), calls, n, text, left)
<1> DEFINE w == Forwarded(ctx, chunk)
           old == w.slots[n]
           slot == [old EXCEPT !.ended = TRUE]
           x == WithLast(w, n, slot)
<1>1. n \in Nat \ {0} /\ n \in 1..n /\ n - 1 >= 0
    BY CallPlace
<1>2. Takes(ctx, chunk) = Accept(w, chunk) /\ Slots(w, calls, n, text, left) /\ IsFilled(old)
    <2>1. Slots(ctx, calls, n, text, left + Size(chunk)) /\ IsFilled(ctx.slots[n])
        BY SizesAre DEF Filled
    <2>2. ForwardsSlots(ctx, chunk, calls, n, text, left)
        BY <2>1, SlotsForwarded, Zenon
    <2>3. QED
        BY <2>1, <2>2 DEF ForwardsSlots
<1> HIDE DEF w
<1>3. FindSlot(w, chunk) = n
    BY <1>2, LastFound
<1>4. Accept(w, chunk) = ToolEnd(w, chunk)
    BY DEF Accept, IsEnd
<1>5. ToolEnd(w, chunk) = x
    <2>1. (n = 0 \/ w.slots[n].ended) = FALSE
        BY <1>1, <1>2 DEF IsFilled
    <2>2. (chunk.index < 0 /\ chunk.id = NoId) = FALSE
        BY <1>1 DEF Names
    <2>3. QED
        BY <1>3, <2>1, <2>2 DEF ToolEnd, WithLast
<1>6. SlotOf(old, calls, n)
    BY <1>1, <1>2 DEF Slots
<1> HIDE DEF old
<1>7. SlotOf(slot, calls, n)
    BY <1>6 DEF SlotOf
<1>8. IsReady(slot)
    BY <1>2, <1>6 DEF SlotOf, IsFilled, IsReady
<1> HIDE DEF slot
<1>9. Slots(x, calls, n, text, left) /\ x.slots[n] = slot
    BY <1>1, <1>2, <1>7, LastChanges
<1> HIDE DEF x
<1>10. \A i \in 1..n : IsReady(x.slots[i])
    <2>1. \A i \in 1..n : i = n \/ i \in 1..(n - 1)
        BY <1>1
    <2>2. QED
        BY <1>8, <1>9, <2>1 DEF Slots
<1>11. QED
    BY <1>2, <1>4, <1>5, <1>9, <1>10 DEF Taken

LEMMA CallTaken ==
    ASSUME NEW left \in Nat, NEW calls, UsableCalls(calls), NEW n \in 1..Len(calls),
           NEW text, NEW ctx, Taken(ctx, calls, n - 1, text, left + 1)
    PROVE  Taken(ConsumeFrom(ctx, CallChunks(calls, n), 3, 0), calls, n, text, left)
<1> DEFINE a == Chunk("tool start", n - 1, calls[n].id, "none")
           b == Chunk("tool delta", n - 1, calls[n].id, IF calls[n].args = "none" THEN "object" ELSE calls[n].args)
           c == Chunk("tool end", n - 1, calls[n].id, "none")
<1>1. /\ IsStart(a) /\ IsObjectDelta(b) /\ IsEnd(c)
      /\ Names(a, calls, n) /\ Names(b, calls, n) /\ Names(c, calls, n)
    BY DEF Chunk, UsableCalls, IsStart, IsObjectDelta, IsEnd, Names
<1>2. CallChunks(calls, n) = <<a, b, c>>
    BY DEF CallChunks
<1> HIDE DEF a, b, c
<1> DEFINE x == Takes(ctx, a)
           y == Takes(x, b)
<1>3. ConsumeFrom(ctx, <<a, b, c>>, 3, 0) = Takes(y, c)
    BY ConsumeThree
<1> HIDE DEF x, y
<1>4. Started(x, calls, n, text, left + 1)
    BY <1>1, StartTaken DEF x
<1>5. Filled(y, calls, n, text, left)
    BY <1>1, <1>4, DeltaTaken DEF y
<1>6. QED
    BY <1>1, <1>2, <1>3, <1>5, EndTaken

(* All the chunks of a response                                           *)
Gives(ctx, chunks) == ConsumeFrom(ctx, chunks, Len(chunks), 0)

LEMMA GivesInParts ==
    ASSUME NEW ctx, NEW a, NEW b, IsSequence(a), IsSequence(b)
    PROVE  Gives(ctx, a \o b) = Gives(Gives(ctx, a), b)
BY ConsumeInParts DEF Gives

LEMMA GivesNone == ASSUME NEW ctx PROVE Gives(ctx, << >>) = ctx
BY ConsumeNone DEF Gives

LEMMA GivesOne == ASSUME NEW ctx, NEW chunk PROVE Gives(ctx, <<chunk>>) = Takes(ctx, chunk)
<1>1. Len(<<chunk>>) = 1
    OBVIOUS
<1>2. QED
    BY <1>1, ConsumeOne DEF Gives, Takes

LEMMA OneChunk == ASSUME NEW chunk PROVE IsSequence(<<chunk>>)
BY DEF IsSequence, Range

IsThinking(chunk) == chunk.type = "thinking"
IsText(chunk) == chunk.type = "text"

LEMMA WordsTaken ==
    ASSUME NEW left \in Nat, NEW calls, NEW text \in Nat, NEW ctx, Taken(ctx, calls, 0, text, left + 1), NEW chunk,
           chunk.content # "none"
    PROVE  /\ IsThinking(chunk) => Taken(Takes(ctx, chunk), calls, 0, text, left)
           /\ IsText(chunk) => Taken(Takes(ctx, chunk), calls, 0, text + 1, left)
<1> DEFINE w == Forwarded(ctx, chunk)
<1>1. /\ Takes(ctx, chunk) = Accept(w, chunk) /\ Slots(w, calls, 0, text, left)
    <2>1. Slots(ctx, calls, 0, text, left + Size(chunk))
        BY DEF Taken, Size
    <2>2. ForwardsSlots(ctx, chunk, calls, 0, text, left)
        BY <2>1, SlotsForwarded, Zenon
    <2>3. QED
        BY <2>2 DEF ForwardsSlots
<1> HIDE DEF w
<1>2. ASSUME IsThinking(chunk) PROVE Taken(Takes(ctx, chunk), calls, 0, text, left)
    <2> DEFINE x == [w EXCEPT !.thinking = w.thinking + 1]
    <2>1. Accept(w, chunk) = x
        BY <1>2 DEF Accept, IsThinking
    <2>2. Open(x, left) /\ x.text = w.text /\ x.slots = w.slots
        BY <1>1 DEF Slots, Open, Room, ContextFields, NewContext
    <2> HIDE DEF x
    <2>3. QED
        BY <1>1, <2>1, <2>2 DEF Slots, Taken
<1>3. ASSUME IsText(chunk) PROVE Taken(Takes(ctx, chunk), calls, 0, text + 1, left)
    <2> DEFINE x == [w EXCEPT !.text = w.text + 1]
    <2>1. Accept(w, chunk) = x
        BY <1>3 DEF Accept, IsText
    <2>2. Open(x, left) /\ x.text = w.text + 1 /\ x.slots = w.slots
        BY <1>1 DEF Slots, Open, Room, ContextFields, NewContext
    <2> HIDE DEF x
    <2>3. QED
        BY <1>1, <2>1, <2>2 DEF Slots, Taken
<1>4. QED
    BY <1>2, <1>3

LEMMA FinishTaken ==
    ASSUME NEW left \in Nat, NEW calls, NEW n, NEW text, NEW ctx, Taken(ctx, calls, n, text, left)
    PROVE  Taken(Takes(ctx, FinishedChunk), calls, n, text, left) /\ Takes(ctx, FinishedChunk).finished = TRUE
<1> DEFINE w == Forwarded(ctx, FinishedChunk)
           x == [w EXCEPT !.finished = TRUE]
<1>1. /\ Takes(ctx, FinishedChunk) = Accept(w, FinishedChunk) /\ Slots(w, calls, n, text, left)
      /\ \A i \in 1..n : IsReady(w.slots[i])
    <2>1. Slots(ctx, calls, n, text, left + Size(FinishedChunk)) /\ \A i \in 1..n : IsReady(ctx.slots[i])
        BY DEF Taken, Size, FinishedChunk, Chunk
    <2>2. ForwardsSlots(ctx, FinishedChunk, calls, n, text, left)
        BY <2>1, SlotsForwarded, Zenon
    <2>3. QED
        BY <2>1, <2>2 DEF ForwardsSlots
<1> HIDE DEF w
<1>2. Accept(w, FinishedChunk) = x
    BY DEF Accept, FinishedChunk, Chunk
<1>3. Open(x, left) /\ x.text = w.text /\ x.slots = w.slots /\ x.finished = TRUE
    BY <1>1 DEF Slots, Open, Room, ContextFields, NewContext
<1> HIDE DEF x
<1>4. QED
    BY <1>1, <1>2, <1>3 DEF Slots, Taken

LEMMA CallsTaken ==
    ASSUME NEW left \in Nat, NEW calls, UsableCalls(calls), NEW text, NEW ctx,
           Taken(ctx, calls, 0, text, left + Len(calls)), NEW parts, parts = [i \in 1..Len(calls) |-> CallChunks(calls, i)]
    PROVE  /\ Taken(Gives(ctx, FlattenSeq(parts)), calls, Len(calls), text, left)
           /\ IsSequence(FlattenSeq(parts))
<1> DEFINE K == Len(calls)
           A == UNION {Range(parts[i]) : i \in 1..K}
           f == FlatFrom(parts)
<1>1. K \in Nat
    BY DEF UsableCalls, IsSequence
<1>2. \A i \in 1..K : IsSequence(parts[i]) /\ Len(parts[i]) = 3 /\ parts[i] = CallChunks(calls, i)
    <2>1. ASSUME NEW a, NEW b, NEW c PROVE IsSequence(<<a, b, c>>) /\ Len(<<a, b, c>>) = 3
        BY DEF IsSequence, Range
    <2>2. \A i \in 1..K : IsSequence(CallChunks(calls, i)) /\ Len(CallChunks(calls, i)) = 3
        BY <2>1 DEF CallChunks
    <2>3. QED
        BY <2>2
<1>3. \A i \in 1..K : parts[i] \in Seq(A)
    BY <1>2 DEF IsSequence
<1> HIDE DEF A
<1>4. parts \in Seq(Seq(A)) /\ Len(parts) = K
    BY <1>1, <1>3
<1>5. FlatMade(f, parts)
    BY <1>4, FlatIs
<1>6. FlattenSeq(parts) \in Seq(A)
    BY <1>4, FlatStays
<1> HIDE DEF f
<1> DEFINE S == {n \in 0..K : IsSequence(f[n]) /\ Taken(Gives(ctx, f[n]), calls, n, text, left + (K - n))}
<1>7. 0 \in S
    <2>1. f[0] = << >> /\ IsSequence(<< >>) /\ Gives(ctx, << >>) = ctx
        BY <1>5, GivesNone DEF FlatMade, IsSequence
    <2>2. left + (K - 0) = left + Len(calls)
        BY <1>1
    <2>3. QED
        BY <1>1, <2>1, <2>2
<1>8. ASSUME NEW n \in 1..K, n - 1 \in S PROVE n \in S
    <2>1. f[n] = f[n - 1] \o parts[n] /\ IsSequence(f[n - 1]) /\ IsSequence(parts[n])
        BY <1>2, <1>4, <1>5, <1>8 DEF FlatMade
    <2>2. IsSequence(f[n])
        BY <2>1, ConcatenationIs
    <2>3. Gives(ctx, f[n]) = Gives(Gives(ctx, f[n - 1]), CallChunks(calls, n))
        BY <1>2, <2>1, GivesInParts
    <2> DEFINE before == Gives(ctx, f[n - 1])
               more == left + (K - n)
    <2>4. Taken(before, calls, n - 1, text, more + 1) /\ Len(CallChunks(calls, n)) = 3 /\ more \in Nat
        <3>1. left + (K - (n - 1)) = more + 1 /\ more \in Nat
            <4> HIDE DEF K
            <4>1. QED
                BY <1>1
        <3>2. QED
            BY <1>2, <1>8, <3>1
    <2> HIDE DEF before, more
    <2>5. Taken(ConsumeFrom(before, CallChunks(calls, n), 3, 0), calls, n, text, more)
        BY <2>4, CallTaken
    <2>6. Taken(Gives(ctx, f[n]), calls, n, text, left + (K - n))
        BY <2>3, <2>4, <2>5 DEF Gives, before, more
    <2>7. QED
        BY <2>2, <2>6
<1>9. K \in S
    <2> HIDE DEF S, K
    <2>1. \A n \in 0..K : n \in S
        BY <1>1, <1>7, <1>8, UpTo, Zenon
    <2>2. QED
        BY <1>1, <2>1
<1>10. left + (K - K) = left
    <2> HIDE DEF K
    <2>1. QED
        BY <1>1
<1>11. QED
    BY <1>4, <1>5, <1>6, <1>9, <1>10, SequencesAre DEF FlatMade

(* A complete response gives the runtime its text and all its tools, each *)
(* with its arguments and ended.                                          *)
IsGiven(ctx, response) ==
    /\ ctx.rc = "ok" /\ ctx.finished = TRUE /\ ToolsReady(ctx)
    /\ Len(ctx.slots) = Len(response.calls)
    /\ \A i \in 1..Len(response.calls) : ctx.slots[i].id = response.calls[i].id
    /\ ctx.text = IF response.text THEN 1 ELSE 0

LEMMA ResponseGiven ==
    ASSUME NEW response, UsableCalls(response.calls), response.artifacts = FALSE,
           MaxStreamBytes > 0 => Pieces(response) <= MaxStreamBytes
    PROVE  IsGiven(Delivered(SyncChunks(response)), response)
<1> DEFINE calls == response.calls
           parts == [i \in 1..Len(calls) |-> CallChunks(calls, i)]
           thinking == IF response.thinking THEN <<Chunk("thinking", NoIndex, NoId, "words")>> ELSE << >>
           text == IF response.text THEN <<TextChunk>> ELSE << >>
           m == IF response.thinking THEN 1 ELSE 0
           n == IF response.text THEN 1 ELSE 0
           K == Len(calls)
           tools == FlattenSeq(parts)
           none == << >>
           new == [NewContext EXCEPT !.bytes = 0]
           c1 == Gives(new, thinking)
           c2 == Gives(c1, text)
           c3 == Gives(c2, tools)
           c4 == Gives(c3, none)
           c5 == Gives(c4, <<FinishedChunk>>)
<1>1. SyncChunks(response) = (((thinking \o text) \o tools) \o none) \o <<FinishedChunk>>
    BY DEF SyncChunks, CallChunks
<1>2. Delivered(SyncChunks(response)) = Gives(new, SyncChunks(response))
    BY DEF Delivered, Consume, Gives
<1> HIDE DEF K
<1>3. K \in Nat /\ m \in Nat /\ n \in Nat
    BY DEF UsableCalls, IsSequence, K
<1>4. 0 + K = K /\ (K + n) + m \in Nat /\ K + n \in Nat
    BY <1>3
<1>5. Taken(new, calls, 0, 0, (K + n) + m)
    <2>1. ContextFields(new) /\ new.rc = "ok" /\ new.limited = FALSE /\ new.bytes = 0 /\ new.text = 0 /\ new.slots = << >>
        BY DEF ContextFields, NewContext
    <2>2. Pieces(response) = (m + n) + K
        BY DEF Pieces, K
    <2> HIDE DEF new, m, n
    <2>3. MaxStreamBytes > 0 => 0 + ((K + n) + m) <= MaxStreamBytes
        BY <1>3, <2>2, StreamAssumption
    <2>4. Open(new, (K + n) + m)
        BY <1>4, <2>1, <2>3 DEF Open, Room
    <2>5. QED
        BY <2>1, <2>4 DEF Taken, Slots
<1>6. IsSequence(thinking) /\ IsSequence(text) /\ IsSequence(none) /\ IsSequence(<<FinishedChunk>>)
    <2>1. IsSequence(<< >>)
        BY DEF IsSequence
    <2>2. QED
        BY <2>1, OneChunk
<1> HIDE DEF new
<1>7. Taken(c1, calls, 0, 0, K + n)
    <2> HIDE DEF n
    <2>1. CASE response.thinking
        <3> DEFINE chunk == Chunk("thinking", NoIndex, NoId, "words")
        <3>1. IsThinking(chunk) /\ chunk.content # "none"
            BY DEF IsThinking, Chunk
        <3>2. c1 = Takes(new, chunk) /\ m = 1
            BY <2>1, GivesOne
        <3> HIDE DEF chunk, c1, m
        <3>3. QED
            BY <1>5, <1>4, <3>1, <3>2, WordsTaken
    <2>2. CASE ~response.thinking
        <3>1. c1 = new /\ m = 0
            BY <2>2, GivesNone
        <3>2. (K + n) + 0 = K + n
            BY <1>4
        <3> HIDE DEF c1, m
        <3>3. QED
            BY <1>5, <3>1, <3>2
    <2>3. QED
        BY <2>1, <2>2
<1>8. Taken(c2, calls, 0, n, K)
    <2> HIDE DEF c1
    <2>1. CASE response.text
        <3>1. IsText(TextChunk) /\ TextChunk.content # "none"
            BY DEF IsText, TextChunk, Chunk
        <3>2. c2 = Takes(c1, TextChunk) /\ n = 1 /\ 0 + 1 = 1
            BY <2>1, GivesOne
        <3> HIDE DEF c2, n
        <3>3. QED
            BY <1>7, <1>3, <3>1, <3>2, WordsTaken
    <2>2. CASE ~response.text
        <3>1. c2 = c1 /\ n = 0
            BY <2>2, GivesNone
        <3>2. K + 0 = K
            BY <1>3
        <3> HIDE DEF c2, n
        <3>3. QED
            BY <1>7, <3>1, <3>2
    <2>3. QED
        BY <2>1, <2>2
<1>9. Taken(c3, calls, Len(calls), n, 0) /\ IsSequence(tools)
    <2> HIDE DEF c2, n
    <2>1. Taken(c2, calls, 0, n, 0 + Len(calls))
        BY <1>8, <1>4 DEF K
    <2>2. QED
        BY <2>1, CallsTaken
<1>10. Taken(c5, calls, Len(calls), n, 0) /\ c5.finished = TRUE
    <2>1. c4 = c3
        BY GivesNone
    <2> HIDE DEF c3, c4, n
    <2>2. c5 = Takes(c3, FinishedChunk)
        BY <2>1, GivesOne
    <2>3. QED
        BY <1>9, <2>2, FinishTaken
<1>11. Delivered(SyncChunks(response)) = c5
    <2> HIDE DEF thinking, text, tools, none
    <2>1. IsSequence(thinking \o text)
        BY <1>6, ConcatenationIs
    <2>2. IsSequence((thinking \o text) \o tools)
        BY <1>9, <2>1, ConcatenationIs
    <2>3. IsSequence(((thinking \o text) \o tools) \o none)
        BY <1>6, <2>2, ConcatenationIs
    <2>4. Gives(new, thinking \o text) = c2
        BY <1>6, GivesInParts
    <2>5. Gives(new, (thinking \o text) \o tools) = c3
        BY <1>9, <2>1, <2>4, GivesInParts
    <2>6. Gives(new, ((thinking \o text) \o tools) \o none) = c4
        BY <1>6, <2>2, <2>5, GivesInParts
    <2>7. Gives(new, (((thinking \o text) \o tools) \o none) \o <<FinishedChunk>>) = c5
        BY <1>6, <2>3, <2>6, GivesInParts
    <2>8. QED
        BY <1>1, <1>2, <2>7
<1> HIDE DEF c5
<1>12. c5.rc = "ok" /\ c5.text = n /\ Len(c5.slots) = Len(calls)
    BY <1>10 DEF Taken, Slots, Open
<1>13. \A i \in 1..Len(calls) : c5.slots[i].id = calls[i].id
    BY <1>10 DEF Taken, Slots, SlotOf
<1>14. ToolsReady(c5)
    BY <1>10, <1>12 DEF Taken, IsReady, ToolsReady, IsObject
<1>15. IsGiven(c5, response)
    BY <1>10, <1>12, <1>13, <1>14 DEF IsGiven
<1>16. QED
    BY <1>11, <1>15

-----------------------------------------------------------------------------
(* What has come of an answer                                             *)

IsAnswer(body, some, use, p) ==
    \/ body \in {<< >>, <<Token("half")>>}
    \/ \E a \in ServerAnswers(some, use, p) : body = a.body
Came(x, use) ==
    /\ IsAnswer(x.body, clients, use, protocol) /\ x.pos \in 0..Len(x.body)
    /\ x.phase \in {"connect", "headers"} => x.pos = 0
AnswerInv == StreamInv /\ \A c \in Callers : Came(call[c], UseOf[c])

(* What a step may do with the body of a call                             *)
Keeps(x, y) ==
    y.body = x.body /\ y.pos = x.pos /\ (y.phase \in {"connect", "headers"} => x.phase \in {"connect", "headers"})
Clears(y) == y.body = << >> /\ y.pos = 0
Advances(x, y) ==
    y.body = x.body /\ y.phase \notin {"connect", "headers"} /\ \E n \in Nat : y.pos = x.pos + n /\ y.pos <= Len(x.body)
Brings(x, y, use) ==
    /\ x.phase = "headers" /\ y.phase = "body" /\ y.pos = x.pos
    /\ \E a \in ServerAnswers(clients, use, protocol) : y.body = a.body
Moves(x, y, use) == Keeps(x, y) \/ Clears(y) \/ CutTo(x, y) \/ Advances(x, y) \/ Brings(x, y, use)

LEMMA BodiesAre ==
    ASSUME NEW c \in Callers, StreamInv, NEW body, IsAnswer(body, clients, UseOf[c], protocol)
    PROVE  IsBody(body)
<1>1. CASE body \in {<< >>, <<Token("half")>>}
    BY <1>1, EmptyBody, HalfLine
<1>2. CASE \E a \in ServerAnswers(clients, UseOf[c], protocol) : body = a.body
    <2>1. PICK i \in Instances : clients = i.clients /\ protocol = i.protocol
        BY DEF StreamInv
    <2>2. IsSequence(body) /\ \A x \in Range(body) : IsSequence(x.event.tools)
        BY <1>2, <2>1, ServerAssumption DEF IsSequence
    <2>3. \A n \in 1..Len(body) : body[n] \in Range(body)
        BY <2>2 DEF IsSequence, Range
    <2>4. QED
        BY <2>2, <2>3 DEF IsBody, IsEvent
<1>3. QED
    BY <1>1, <1>2, Zenon DEF IsAnswer

LEMMA MovesCome ==
    ASSUME StreamInv, NEW c \in Callers, NEW x, NEW y, Came(x, UseOf[c]), Moves(x, y, UseOf[c])
    PROVE  Came(y, UseOf[c])
<1>1. IsBody(x.body) /\ Len(x.body) \in Nat
    <2>1. IsAnswer(x.body, clients, UseOf[c], protocol)
        BY DEF Came
    <2>2. IsBody(x.body)
        BY <2>1, BodiesAre
    <2>3. QED
        BY <2>2 DEF IsBody, IsSequence
<1>2. CASE Keeps(x, y)
    BY <1>2 DEF Came, Keeps
<1>3. CASE Clears(y)
    BY <1>3 DEF Came, Clears, IsAnswer
<1>4. CASE Advances(x, y)
    BY <1>1, <1>4 DEF Came, Advances
<1>5. CASE Brings(x, y, UseOf[c])
    <2>1. IsAnswer(y.body, clients, UseOf[c], protocol) /\ x.pos = 0
        BY <1>5 DEF Brings, IsAnswer, Came
    <2>2. Len(y.body) \in Nat
        BY <2>1, BodiesAre DEF IsBody, IsSequence
    <2>3. QED
        BY <1>5, <2>1, <2>2 DEF Brings, Came
<1>6. CASE CutTo(x, y)
    BY <1>6, EmptyBody, HalfLine DEF Came, CutTo, IsAnswer
<1>7. QED
    BY <1>2, <1>3, <1>4, <1>5, <1>6 DEF Moves

LEMMA StayMoves == ASSUME NEW x, NEW use PROVE Moves(x, x, use)
BY DEF Moves, Keeps

(* Steps that leave the body as it is                                     *)
LEMMA OutsideMoves ==
    ASSUME NEW c \in Callers, StreamInv,
           \/ Start(c) \/ TakeConfig(c) \/ TakePool(c) \/ Perform(c) \/ Connect(c)
           \/ DataRefused(c) \/ CancelSeen(c) \/ AnswerEnds(c) \/ PeerCloses(c) \/ Retry(c)
    PROVE  \A d \in Callers : Moves(call[d], call'[d], UseOf[d])
<1>1. ASSUME NEW d \in Callers \ {c} PROVE call'[d] = call[d]
    BY OneFits DEF Start, TakeConfig, TakePool, Perform, Connect,
                   DataRefused, CancelSeen, AnswerEnds, PeerCloses, Retry, To, Ends
<1>2. Keeps(call[c], call'[c])
    <2>1. CASE Start(c) \/ TakeConfig(c) \/ TakePool(c) \/ Perform(c)
        BY <2>1, OneFits DEF Start, TakeConfig, TakePool, Perform, To, Keeps, Fresh
    <2>2. CASE Connect(c)
        BY <2>2, OneFits DEF Connect, Keeps, Fresh
    <2>3. CASE DataRefused(c) \/ CancelSeen(c)
        BY <2>3, OneFits DEF DataRefused, CancelSeen, Ends, Keeps, Fresh
    <2>4. CASE AnswerEnds(c) \/ PeerCloses(c)
        BY <2>4, OneFits DEF AnswerEnds, PeerCloses, Arrived, To, Keeps, Fresh
    <2>5. CASE Retry(c)
        BY <2>5, OneFits DEF Retry, To, Keeps, Fresh
    <2>6. QED
        BY <2>1, <2>2, <2>3, <2>4, <2>5
<1>3. QED
    BY <1>1, <1>2, StayMoves DEF Moves

LEMMA FailureMoves ==
    ASSUME NEW c \in Callers, StreamInv, ExchangeFails(c)
    PROVE  \A d \in Callers : Moves(call[d], call'[d], UseOf[d])
<1>1. PICK again \in BOOLEAN :
         call' = [call EXCEPT ![c].phase = "failed", ![c].retryable = again, ![c].rc = "network"]
    BY DEF ExchangeFails
<1>2. Keeps(call[c], call'[c])
    BY <1>1, OneFits DEF Keeps, Fresh
<1>3. \A d \in Callers \ {c} : call'[d] = call[d]
    BY <1>1, OneFits
<1>4. QED
    BY <1>2, <1>3, StayMoves DEF Moves

LEMMA AttemptMoves ==
    ASSUME NEW c \in Callers, StreamInv, BeginAttempt(c) \/ Return(c) \/ DeadlineExpired(c)
    PROVE  \A d \in Callers : Moves(call[d], call'[d], UseOf[d])
<1>1. \A d \in Callers \ {c} : call'[d] = call[d]
    BY OneFits DEF BeginAttempt, Return, DeadlineExpired
<1>2. Clears(call'[c])
    <2>1. CASE BeginAttempt(c)
        BY <2>1, OneFits DEF BeginAttempt, Clears, Fresh
    <2>2. CASE Return(c)
        BY <2>2, OneFits DEF Return, Clears, Fresh
    <2>3. CASE DeadlineExpired(c)
        BY <2>3, OneFits DEF DeadlineExpired, Freed, Clears, Fresh
    <2>4. QED
        BY <2>1, <2>2, <2>3
<1>3. QED
    BY <1>1, <1>2, StayMoves DEF Moves

LEMMA CutMoves ==
    ASSUME NEW c \in Callers, StreamInv, HeadersCut(c)
    PROVE  \A d \in Callers : Moves(call[d], call'[d], UseOf[d])
BY HeadersCutIs, StayMoves DEF Moves

LEMMA AnswerMoves ==
    ASSUME NEW c \in Callers, StreamInv, Answer(c)
    PROVE  \A d \in Callers : Moves(call[d], call'[d], UseOf[d])
<1>1. PICK a \in ServerAnswers(clients, UseOf[c], protocol) : Headers(c, a.status, a.body)
    BY DEF Answer
<1>2. Brings(call[c], call'[c], UseOf[c])
    BY <1>1, OneFits DEF Headers, Brings, Fresh
<1>3. \A d \in Callers \ {c} : call'[d] = call[d]
    BY <1>1, OneFits DEF Headers
<1>4. QED
    BY <1>2, <1>3, StayMoves DEF Moves

LEMMA ReceiveMoves ==
    ASSUME NEW c \in Callers, StreamInv, Receive(c) \/ ReceiveAll(c)
    PROVE  \A d \in Callers : Moves(call[d], call'[d], UseOf[d])
<1>1. CASE Receive(c)
    <2>1. \E n \in 1..(Len(call[c].body) - call[c].pos) : \E rc : BodyArrives(c, n, rc)
        BY <1>1 DEF Receive
    <2>2. PICK n \in 1..(Len(call[c].body) - call[c].pos) : \E rc : BodyArrives(c, n, rc)
        BY <2>1
    <2>3. PICK rc : BodyArrives(c, n, rc)
        BY <2>2
    <2>4. ArrivesTo(call[c], call'[c], n, rc)
        BY <2>3, BodyArrivesIs
    <2>5. Advances(call[c], call'[c])
        BY <2>4 DEF ArrivesTo, Advances
    <2>6. \A d \in Callers \ {c} : call'[d] = call[d]
        BY <2>3, OneFits DEF BodyArrives
    <2>7. QED
        BY <2>5, <2>6, StayMoves DEF Moves
<1>2. CASE ReceiveAll(c)
    <2>1. PICK rc : BufferedBody(c, rc)
        BY <1>2 DEF ReceiveAll
    <2>2. Keeps(call[c], call'[c]) /\ \A d \in Callers \ {c} : call'[d] = call[d]
        BY <2>1, OneFits DEF BufferedBody, Ends, Keeps, Fresh
    <2>3. QED
        BY <2>2, StayMoves DEF Moves
<1>3. QED
    BY <1>1, <1>2

LEMMA CompleteMoves ==
    ASSUME NEW c \in Callers, StreamInv, Complete(c)
    PROVE  \A d \in Callers : Moves(call[d], call'[d], UseOf[d])
<1>1. PICK request \in After(c) : call' = [call EXCEPT ![c] = request]
    BY DEF Complete
<1>2. call'[c] = request /\ \A d \in Callers \ {c} : call'[d] = call[d]
    BY <1>1, OneFits
<1>3. Keeps(call[c], request) \/ Clears(request)
    <2>1. CASE request \in {Freed(call[c], call[c].rc), Freed(call[c], "network"), Freed(call[c], "limit")}
        BY <2>1, OneFits DEF Freed, Clears, Fresh
    <2>2. CASE request \in Hops(call[c])
        BY <2>2, OneFits DEF Hops, Keeps, Fresh
    <2>3. CASE request = [call[c] EXCEPT !.phase = "returned"]
        BY <2>3, OneFits DEF Keeps, Fresh
    <2>4. QED
        BY <1>1, <2>1, <2>2, <2>3 DEF After
<1>4. QED
    BY <1>2, <1>3, StayMoves DEF Moves

LEMMA AnswersCome == ASSUME AnswerInv, [StreamNext]_streamVars PROVE AnswerInv'
<1>1. StreamInv /\ StreamInv'
    BY StreamsFit DEF AnswerInv
<1>2. \A c \in Callers : Moves(call[c], call'[c], UseOf[c])
    <2>1. CASE UNCHANGED call
        BY <2>1, StayMoves
    <2>2. CASE StreamNext /\ call' # call
        <3>1. CASE Finished \/ ResetStarts \/ Resets \/ TimePasses
            BY <2>2, <3>1 DEF Finished, httpVars, ResetStarts, Resets, ResetLocks, ResetCloses,
                              TimePasses
        <3>2. ASSUME NEW c \in Callers, AskServer(c) \/ Lock(c) \/ Work(c) \/ Interruption(c)
              PROVE  \A d \in Callers : Moves(call[d], call'[d], UseOf[d])
            <4>1. CASE AskServer(c) \/ Lock(c)
                BY <1>1, <4>1, OutsideMoves DEF AskServer, Lock
            <4>2. CASE Interruption(c)
                BY <1>1, <2>2, <4>2, OutsideMoves, AttemptMoves DEF Interruption, Cancel
            <4>3. CASE Work(c)
                BY <1>1, <4>3, OutsideMoves, FailureMoves, AttemptMoves, AnswerMoves,
                   ReceiveMoves, CutMoves, CompleteMoves DEF Work
            <4>4. QED
                BY <3>2, <4>1, <4>2, <4>3
        <3>3. QED
            BY <2>2, <3>1, <3>2 DEF StreamNext
    <2>3. QED
        BY <2>1, <2>2 DEF streamVars, httpVars
<1>3. \A c \in Callers : Came(call'[c], UseOf[c])
    BY <1>1, <1>2, MovesCome DEF AnswerInv
<1>4. clients' = clients /\ protocol' = protocol
    BY DEF StreamNext, streamVars
<1>5. QED
    BY <1>1, <1>3, <1>4 DEF AnswerInv, Came, IsAnswer

(* A success gives the runtime what it can use.                           *)
LEMMA StreamIsUsable ==
    ASSUME ServerIsUsable, AnswerInv, NEW c \in Callers, WantsStream(c),
           call[c].phase = "returned", Result(c) = "ok"
    PROVE  ToolsReady(Flushed(c).out)
<1> DEFINE body == call[c].body
<1>1. StreamInv /\ IsAnswer(body, clients, UseOf[c], protocol) /\ UseOf[c] = "stream" /\ protocol \in Protocols
    BY OneFits DEF AnswerInv, Came, WantsStream
<1>2. Flushed(c).out = Whole(c) /\ Flushed(c).out.finished /\ Flushed(c).out.rc = "ok"
    BY <1>1, StreamedWhole
<1>3. CASE body \in {<< >>, <<Token("half")>>}
    <2>1. /\ IsBody(body) /\ IsSequence(body) /\ Len(body) \in {0, 1}
          /\ Len(body) = 1 => body[1].t # "rest"
        BY <1>3, EmptyBody, HalfLine DEF IsBody
    <2>2. UpToBody(ChunksUpTo(protocol, body), protocol, body)
        BY <1>1, <2>1, ChunksAre
    <2> HIDE DEF body
    <2>3. ChunksOf(protocol, body) = << >>
        BY <2>1, <2>2 DEF UpToBody, OneMoreToken
    <2> USE DEF body
    <2>4. Whole(c) = [NewContext EXCEPT !.bytes = 0]
        BY <1>3, <2>3, ConsumeNone DEF Whole, Delivered, Consume
    <2>5. Whole(c).finished = FALSE
        BY <2>4 DEF NewContext
    <2>6. QED
        BY <1>2, <2>5
<1>4. CASE \E a \in ServerAnswers(clients, UseOf[c], protocol) : body = a.body
    <2>1. PICK i \in Instances : clients = i.clients /\ protocol = i.protocol
        BY <1>1 DEF StreamInv
    <2>2. UsableAnswer(UseOf[c], protocol, body)
        BY <1>4, <2>1 DEF ServerIsUsable
    <2> DEFINE all == Delivered(ChunksOf(protocol, body))
    <2>3. all.rc = "ok" /\ all.finished => ToolsReady(all)
        BY <1>1, <2>2 DEF UsableAnswer
    <2>4. Flushed(c).out = all
        BY <1>2 DEF Whole
    <2> HIDE DEF all
    <2>5. QED
        BY <1>2, <2>3, <2>4
<1>5. QED
    BY <1>1, <1>3, <1>4, Zenon DEF IsAnswer

LEMMA SyncResponse ==
    ASSUME NEW p \in Protocols, NEW e
    PROVE  /\ ResponseIn(p, e).calls = CallsOf(e) /\ ResponseIn(p, e).artifacts = FALSE
           /\ ResponseIn(p, e).text <=> e.text
BY DEF ResponseIn, OpenAiResponse, AnthropicResponse, OllamaResponse, Response, Protocols

LEMMA ToolCallsAre ==
    ASSUME NEW e, Len(e.tools) \in Nat
    PROVE  /\ IsSequence(CallsOf(e)) /\ Len(CallsOf(e)) = Len(e.tools)
           /\ \A i \in 1..Len(e.tools) : CallsOf(e)[i].id = e.tools[i].id /\ CallsOf(e)[i].args = e.tools[i].args
<1> DEFINE n == Len(e.tools)
           calls == [i \in 1..n |-> [id |-> e.tools[i].id, args |-> e.tools[i].args]]
<1>1. CallsOf(e) = calls
    BY DEF CallsOf
<1>2. Len(calls) = n /\ \A i \in 1..n : calls[i].id = e.tools[i].id /\ calls[i].args = e.tools[i].args
    OBVIOUS
<1>3. calls \in Seq({calls[i] : i \in 1..n})
    OBVIOUS
<1> HIDE DEF calls
<1>4. IsSequence(calls)
    BY <1>3, SequencesAre
<1>5. QED
    BY <1>1, <1>2, <1>4, Zenon

LEMMA SyncIsUsable ==
    ASSUME ServerIsUsable, AnswerInv, NEW c \in Callers, UseOf[c] = "sync",
           call[c].phase = "returned", Result(c) = "ok"
    PROVE  /\ call[c].pos = Len(call[c].body) /\ IsEvent(call[c].body[2].event)
           /\ IsGiven(Given(c), ResponseIn(protocol, call[c].body[2].event))
<1> DEFINE body == call[c].body
           pos == call[c].pos
           e == body[2].event
           response == ResponseIn(protocol, e)
<1>1. StreamInv /\ IsAnswer(body, clients, UseOf[c], protocol) /\ pos \in 0..Len(body) /\ protocol \in Protocols
    BY OneFits DEF AnswerInv, Came
<1>2. IsBody(body) /\ Len(body) \in Nat
    BY <1>1, BodiesAre DEF IsBody, IsSequence
<1>3. Len(SubSeq(body, 1, pos)) = 2
    <2>1. ChatResult(call[c].rc, call[c].status, SubSeq(body, 1, pos)) = "ok"
        BY DEF Result, WantsStream
    <2>2. ParseResponse(SubSeq(body, 1, pos)) = "ok"
        BY <2>1 DEF ChatResult, ClassifyStatus
    <2>3. QED
        BY <2>2 DEF ParseResponse
<1>4. pos = 2 /\ Len(body) >= 2
    <2> DEFINE k == Len(SubSeq(body, 1, pos))
    <2>1. k = IF 1 <= pos THEN pos ELSE 0
        BY <1>1, <1>2, PartIs DEF IsBody
    <2>2. k = 2
        BY <1>3
    <2> HIDE DEF k, body, pos
    <2>3. QED
        BY <1>1, <1>2, <2>1, <2>2
<1>5. UsableAnswer("sync", protocol, body)
    <2>1. body \notin {<< >>, <<Token("half")>>}
        <3> HIDE DEF body, pos
        <3>1. Len(body) \notin {0, 1}
            BY <1>2, <1>4
        <3>2. Len(<< >>) = 0 /\ Len(<<Token("half")>>) = 1
            BY HalfLine
        <3>3. QED
            BY <3>1, <3>2
    <2>2. \E a \in ServerAnswers(clients, UseOf[c], protocol) : body = a.body
        BY <1>1, <2>1 DEF IsAnswer
    <2>3. PICK i \in Instances : clients = i.clients /\ protocol = i.protocol
        BY <1>1 DEF StreamInv
    <2>4. QED
        BY <2>2, <2>3 DEF ServerIsUsable
<1>6. Len(body) = 2 /\ body[2] \in Range(body)
    <2>1. Len(body) <= 2
        BY <1>5 DEF UsableAnswer
    <2>2. \A n \in 1..Len(body) : body[n] \in Range(body)
        BY <1>2 DEF Range, IsBody, IsSequence
    <2> HIDE DEF body, pos, e, response
    <2>3. Len(body) \in Nat /\ Len(body) >= 2
        BY <1>2, <1>4
    <2> DEFINE n == Len(body)
    <2>4. n \in Nat /\ n >= 2 /\ n <= 2
        BY <2>1, <2>3, Zenon
    <2> HIDE DEF n
    <2>5. 2 \in 1..n /\ n = 2
        BY <2>4
    <2>6. 2 \in 1..Len(body) /\ Len(body) = 2
        BY <2>5 DEF n
    <2>7. QED
        BY <2>2, <2>6, Zenon
<1>7. UsableCalls(CallsOf(e))
    <2> DEFINE tools == e.tools
    <2>1. /\ Len(tools) <= MaxTools
          /\ \A i \in 1..Len(tools) : tools[i].args \in {"none", "object"}
          /\ \A i, j \in 1..Len(tools) : tools[i].id = tools[j].id => i = j \/ tools[i].id = NoId
        BY <1>5, <1>6 DEF UsableAnswer
    <2>2. Len(tools) \in Nat
        BY <1>2, <1>6 DEF IsBody, IsEvent, IsSequence
    <2>3. /\ IsSequence(CallsOf(e)) /\ Len(CallsOf(e)) = Len(tools)
          /\ \A i \in 1..Len(tools) : CallsOf(e)[i].id = tools[i].id /\ CallsOf(e)[i].args = tools[i].args
        BY <2>2, ToolCallsAre
    <2> HIDE DEF tools
    <2>4. QED
        BY <2>1, <2>3 DEF UsableCalls
<1>8. response.calls = CallsOf(e) /\ response.artifacts = FALSE
    BY <1>1, SyncResponse
<1> HIDE DEF response
<1>9. IsGiven(Delivered(SyncChunks(response)), response)
    <2>1. MaxStreamBytes > 0 => Pieces(response) <= MaxStreamBytes
        BY <1>5, <1>6 DEF UsableAnswer, response
    <2>2. QED
        BY <1>7, <1>8, <2>1, ResponseGiven
<1>10. IsEvent(e)
    BY <1>2, <1>6 DEF IsBody
<1>11. QED
    BY <1>4, <1>6, <1>9, <1>10 DEF Given, response

(* A call that succeeds has given the runtime what it can use, whatever   *)
(* failures, retries, cuts, resets and other calls came before: every tool*)
(* of the answer has ended, with arguments that are an object, and an     *)
(* answer that was not streamed was parsed whole, with all its tools      *)
(* (parse_response, stream_loop_consume_sync_response, saw_done).  The    *)
(* server answers what ServerIsUsable says; without its share, the runtime*)
(* reports the tools it cannot execute, or the limit.                     *)
THEOREM SuccessesAreComplete ==
    ASSUME ServerIsUsable
    PROVE  StreamSpec => []SuccessIsComplete
<1>1. StreamInit => AnswerInv
    <2>1. SUFFICES ASSUME StreamInit PROVE AnswerInv
        OBVIOUS
    <2>2. StreamInv
        BY <2>1, StreamsBegin
    <2>3. \A c \in Callers : call[c].body = << >> /\ call[c].pos = 0
        BY <2>1 DEF StreamInit, HttpInit, Fresh
    <2>4. 0 \in 0..Len(<< >>)
        BY EmptyBody
    <2>5. QED
        BY <2>2, <2>3, <2>4 DEF AnswerInv, Came, IsAnswer
<1>2. AnswerInv /\ [StreamNext]_streamVars => AnswerInv'
    BY AnswersCome
<1>3. AnswerInv => SuccessIsComplete
    <2>1. SUFFICES ASSUME AnswerInv, NEW c \in Callers, call[c].phase = "returned", Result(c) = "ok"
          PROVE  /\ WantsStream(c) => ToolsReady(Flushed(c).out)
                 /\ UseOf[c] = "sync" =>
                       LET answer == call[c].body[2].event IN
                       /\ call[c].pos = Len(call[c].body)
                       /\ Given(c).rc = "ok" /\ Given(c).finished /\ ToolsReady(Given(c))
                       /\ Given(c).text > 0 <=> answer.text
                       /\ [i \in 1..Len(Given(c).slots) |-> Given(c).slots[i].id]
                             = [i \in 1..Len(answer.tools) |-> answer.tools[i].id]
        BY DEF SuccessIsComplete
    <2>2. WantsStream(c) => ToolsReady(Flushed(c).out)
        BY <2>1, StreamIsUsable
    <2>3. ASSUME UseOf[c] = "sync"
          PROVE  LET answer == call[c].body[2].event IN
                 /\ call[c].pos = Len(call[c].body)
                 /\ Given(c).rc = "ok" /\ Given(c).finished /\ ToolsReady(Given(c))
                 /\ Given(c).text > 0 <=> answer.text
                 /\ [i \in 1..Len(Given(c).slots) |-> Given(c).slots[i].id]
                       = [i \in 1..Len(answer.tools) |-> answer.tools[i].id]
        <3> DEFINE answer == call[c].body[2].event
                   response == ResponseIn(protocol, answer)
                   given == Given(c)
        <3>1. call[c].pos = Len(call[c].body) /\ IsGiven(given, response) /\ IsEvent(answer)
            BY <2>1, <2>3, SyncIsUsable
        <3>2. protocol \in Protocols
            BY <2>1, OneFits DEF AnswerInv
        <3>3. response.calls = CallsOf(answer) /\ (response.text <=> answer.text)
            BY <3>2, SyncResponse
        <3> HIDE DEF response, given
        <3>4. given.text > 0 <=> answer.text
            BY <3>1, <3>3 DEF IsGiven
        <3>5. [i \in 1..Len(given.slots) |-> given.slots[i].id]
                 = [i \in 1..Len(answer.tools) |-> answer.tools[i].id]
            <4> DEFINE n == Len(answer.tools)
                       calls == CallsOf(answer)
            <4>1. n \in Nat
                BY <3>1 DEF IsEvent, IsSequence
            <4>2. Len(calls) = n /\ \A i \in 1..n : calls[i].id = answer.tools[i].id
                BY <4>1, ToolCallsAre
            <4> HIDE DEF n, calls
            <4>3. Len(given.slots) = n /\ \A i \in 1..n : given.slots[i].id = calls[i].id
                BY <3>1, <3>3, <4>2 DEF IsGiven, calls
            <4>4. QED
                BY <4>2, <4>3 DEF n
        <3>6. given.rc = "ok" /\ given.finished /\ ToolsReady(given)
            BY <3>1 DEF IsGiven
        <3>7. QED
            BY <3>1, <3>4, <3>5, <3>6 DEF given
    <2>4. QED
        BY <2>2, <2>3
<1>4. QED
    BY <1>1, <1>2, <1>3, PTL DEF StreamSpec
=============================================================================

----------------------------- MODULE CandidatePool -----------------------------
(***************************************************************************)
(* PrimeQAHybridOnlineCandidatePoolRetriever: one query goes through the   *)
(* channels in order, each searched deep for the pool and once more for    *)
(* the prefix; both rounds are fused by weighted reciprocal ranks and the  *)
(* prefix is kept in front.  A document is its row in the index; a score   *)
(* is a small number; fusion is computed exactly, without float rounding.  *)
(***************************************************************************)
EXTENDS Integers, SequencesExt, FiniteSetsExt

CONSTANTS
  Docs,          \* rows of the index
  Id,            \* the document id of a row, which orders ties of some channels
  Lexical,       \* channels over BM25: only matching rows, ties by id
  Dense,         \* channels over embeddings: every row, ties by row
  Derived,       \* [channel -> source channel]: boosts rows of what its source found
  Channels,      \* all of them, in the order they run
  Weight,        \* [channel -> weight in the fusion]
  Scores,        \* what a row may score
  Gains,         \* what a row may gain by special tokens of the query: none, or boosts
  ChannelTopK, PrefixDepth, TargetDepth, RrfK,
  Scale          \* of the fused scores, so that they are whole: any multiple of rrf_k + rank

\* The checks of the configuration and of the constructor; a derived channel is
\* built over an independent one, which ran before.
ASSUME PoolAssumption ==
  /\ IsFiniteSet(Docs) /\ Docs \subseteq Nat /\ Scores \subseteq Int /\ Gains \subseteq Nat
  /\ \A d \in Docs : Id[d] \in Int
  /\ \A a, b \in Docs : Id[a] = Id[b] => a = b
  /\ {PrefixDepth, TargetDepth, ChannelTopK, RrfK, Scale} \subseteq Nat \ {0}
  /\ PrefixDepth <= TargetDepth /\ TargetDepth <= ChannelTopK
  /\ \A rank \in 1 .. ChannelTopK : Scale % (RrfK + rank) = 0
  /\ Channels \in Seq(Lexical \cup Dense \cup DOMAIN Derived)
  /\ Channels # <<>> /\ IsInjective(Channels)
  /\ \A c \in Range(Channels) : Weight[c] \in Nat
  /\ \A i \in DOMAIN Channels : Channels[i] \in DOMAIN Derived =>
       /\ Derived[Channels[i]] \in (Lexical \cup Dense) \ DOMAIN Derived
       /\ \E j \in 1 .. i - 1 : Channels[j] = Derived[Channels[i]]

VARIABLES
  score,         \* what the query scores, per independent channel and row
  gain,          \* what each row gains by the special tokens it holds
  next,          \* position of the channel to search
  full,          \* results_by_channel: rows by rank
  prefix,        \* prefix_results_by_channel
  pool           \* the fused rows by rank

poolVars == <<score, gain, next, full, prefix, pool>>

-------------------------------------------------------------------------------
(* exact_top_k.py *)

\* The rows in a strict total order: each at the place that counts those before it.
InOrder(rows, before) ==
  [i \in 1 .. Cardinality(rows) |->
     CHOOSE r \in rows : Cardinality({q \in rows : <<q, r>> \in before}) = i - 1]

\* Before another row: a higher score, or the lower key.
Before(s, key) ==
  {p \in Docs \X Docs : \/ s[p[1]] > s[p[2]]
                       \/ (s[p[1]] = s[p[2]] /\ key[p[1]] < key[p[2]])}

Sorted(rows, s, key) == InOrder(rows, Before(s, key))

Cut(seq, k) == SubSeq(seq, 1, Min({k, Len(seq)}))

FullSortTopK(rows, s, key, k) == Cut(Sorted(rows, s, key), k)

\* The k-th largest score, which the partition finds.
Boundary(rows, s, k) ==
  CHOOSE b \in {s[r] : r \in rows} :
    /\ Cardinality({r \in rows : s[r] > b}) < k
    /\ Cardinality({r \in rows : s[r] >= b}) >= k

\* Seeded fault: of the rows that tie at the boundary the partition keeps any.
ExactTopKStrict(rows, s, key, k) ==
  IF Cardinality(rows) <= k THEN FullSortTopK(rows, s, key, k)
  ELSE LET above == {r \in rows : s[r] > Boundary(rows, s, k)}
           some == CHOOSE t \in SUBSET (rows \ above) : Cardinality(t) = k - Cardinality(above)
       IN Sorted(above \cup some, s, key)

ExactTopK(rows, s, key, k) ==
  LET candidates == IF Cardinality(rows) > k
                      THEN {r \in rows : s[r] >= Boundary(rows, s, k)}
                      ELSE rows
  IN Cut(Sorted(candidates, s, key), k)

-------------------------------------------------------------------------------
(* The channels *)

Rows(c) == IF c \in Lexical THEN {r \in Docs : score[c][r] # 0} ELSE Docs
TieKey(c) == IF c \in Lexical THEN Id ELSE [r \in Docs |-> r]

Search(c, k) == ExactTopK(Rows(c), score[c], TieKey(c), k)

\* search_from_base_results(): rows the source did not find enter with the boost alone.
BoostedRows(found) == Range(found) \cup {r \in Docs : gain[r] > 0}

BoostedScore(c, found) ==
  [r \in Docs |-> gain[r] + (IF r \in Range(found) THEN score[Derived[c]][r] ELSE 0)]

BoostedSearch(c, found, k) == Cut(Sorted(BoostedRows(found), BoostedScore(c, found), Id), k)

\* Seeded fault: the derived channel, too, cuts its prefix out of the deep search.
PrefixOfDeep(c, found) == Cut(found, PrefixDepth)

\* prefix_results(): an independent channel cuts its deep results, a derived one
\* searches again from its source's prefix.
PrefixResults(c, found) ==
  IF c \in DOMAIN Derived THEN BoostedSearch(c, prefix[Derived[c]], PrefixDepth)
                          ELSE Cut(found, PrefixDepth)

Init ==
  /\ score \in [Lexical \cup Dense -> [Docs -> Scores]]
  /\ gain \in [Docs -> Gains]
  /\ next = 1
  /\ full = [c \in Range(Channels) |-> <<>>]
  /\ prefix = [c \in Range(Channels) |-> <<>>]
  /\ pool = <<>>

SearchChannel ==
  /\ next \in DOMAIN Channels
  /\ LET c == Channels[next]
         found == IF c \in DOMAIN Derived THEN BoostedSearch(c, full[Derived[c]], ChannelTopK)
                                          ELSE Search(c, ChannelTopK)
     IN /\ full' = [full EXCEPT ![c] = found]
        /\ prefix' = [prefix EXCEPT ![c] = PrefixResults(c, found)]
  /\ next' = next + 1
  /\ UNCHANGED <<score, gain, pool>>

-------------------------------------------------------------------------------
(* The fusion *)

Place(r, list) == CHOOSE i \in DOMAIN list : list[i] = r

\* weight / (rrf_k + rank), in units of 1 / Scale.
Share(c, r, list) ==
  IF r \in Range(list) THEN Weight[c] * (Scale \div (RrfK + Place(r, list))) ELSE 0

\* Summed over the channels.
FusedScore(r, lists) ==
  LET sum[i \in 0 .. Len(Channels)] ==
        IF i = 0 THEN 0 ELSE sum[i - 1] + Share(Channels[i], r, lists[Channels[i]])
  IN sum[Len(Channels)]

Found(lists) == UNION {Range(lists[c]) : c \in DOMAIN lists}

Fused(lists) ==
  Sorted(Found(lists), [r \in Docs |-> FusedScore(r, lists)], Id)

\* Seeded fault: the appended rows are not compared with the prefix.
PreservingTwice(front, appended) == Cut(front \o appended, TargetDepth)

\* The prefix first, then what it does not hold yet, up to the target depth.
Preserving(front, appended) ==
  LET new == Range(appended) \ Range(front)
      earlier == {p \in new \X new : Place(p[1], appended) < Place(p[2], appended)}
  IN Cut(front \o InOrder(new, earlier), TargetDepth)

Fuse ==
  /\ next = Len(Channels) + 1
  /\ pool' = Preserving(Cut(Fused(prefix), PrefixDepth), Cut(Fused(full), TargetDepth))
  /\ next' = next + 1
  /\ UNCHANGED <<score, gain, full, prefix>>

Next == SearchChannel \/ Fuse

Spec == Init /\ [][Next]_poolVars

-------------------------------------------------------------------------------
\* exact_top_k_indices() gives what the full sort it replaces gives, at whatever
\* depth and with whatever ties at the boundary: a list cut out of a deeper one is
\* the shallower search.
ExactTopKIsFullSort ==
  \A i \in 1 .. Min({next - 1, Len(Channels)}) :
    LET c == Channels[i] IN c \notin DOMAIN Derived =>
      /\ full[c] = FullSortTopK(Rows(c), score[c], TieKey(c), ChannelTopK)
      /\ prefix[c] = FullSortTopK(Rows(c), score[c], TieKey(c), PrefixDepth)

\* The channel on its own, as the baseline that was measured searched it.
Standalone(c, k) ==
  IF c \in DOMAIN Derived
    THEN BoostedSearch(c, FullSortTopK(Rows(Derived[c]), score[Derived[c]],
                                       TieKey(Derived[c]), k), k)
    ELSE FullSortTopK(Rows(c), score[c], TieKey(c), k)

\* Widening the channels for the pool does not disturb its front: the first rows
\* are those of the baseline whose channels are searched prefix_depth deep.
PrefixIsBaseline ==
  next > Len(Channels) + 1 =>
    LET baseline == Cut(Fused([c \in Range(Channels) |-> Standalone(c, PrefixDepth)]), PrefixDepth)
    IN Cut(pool, Len(baseline)) = baseline

\* The pool holds no document twice, nothing no channel found, and stops short of
\* its target depth only when the channels found no more.
PoolIsFull ==
  next > Len(Channels) + 1 =>
    /\ IsInjective(pool)
    /\ Range(pool) \subseteq Found(full)
    /\ Len(pool) = Min({TargetDepth, Cardinality(Found(full))})

===============================================================================

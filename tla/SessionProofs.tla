----------------------------- MODULE SessionProofs -----------------------------
(***************************************************************************)
(* What a session of tool calls may rely on.                               *)
(*                                                                         *)
(* The gate, for any calls, graphs, judges and seats: a decision is in the *)
(* graph its call named, credited to its token's judge or to nobody, and a *)
(* response is kept under the graph it was made in.                        *)
(*                                                                         *)
(* A search, for any nodes, queries, limits and writes beside it: what it  *)
(* returns it might return at some moment, a declared term's hit is not    *)
(* lost, a scoped search that comes back short has looked everywhere, and a *)
(* retired version is folded under the one its history ends in.            *)
(* The two share no variable and no step.                                  *)
(***************************************************************************)
EXTENDS SessionGate, Retrieval, FiniteSetTheorems, SequenceTheorems, WellFoundedInduction,
        TLAPS

--------------------------------------------------------------------------------
(* A search: its rankings.                                                   *)

\* A strict order on S, by which any two of its members compare.
Orders(ahead, S) ==
    /\ \A x \in S : <<x, x>> \notin ahead
    /\ \A x, y, z \in S : <<x, y>> \in ahead /\ <<y, z>> \in ahead => <<x, z>> \in ahead
    /\ \A x, y \in S : x = y \/ <<x, y>> \in ahead \/ <<y, x>> \in ahead

\* Sorting loses no member and repeats none: no two have as many ahead of them, so
\* there is one for each place.
LEMMA SortedOnce ==
    ASSUME NEW S, IsFiniteSet(S), NEW ahead, Orders(ahead, S)
    PROVE  /\ Sorted(S, ahead) \in Seq(S) /\ Len(Sorted(S, ahead)) = Cardinality(S)
           /\ IsInjective(Sorted(S, ahead)) /\ ToSet(Sorted(S, ahead)) = S
<1> DEFINE n == Cardinality(S)
           front(x) == {y \in S : <<y, x>> \in ahead}
           s == Sorted(S, ahead)
<1>1. n \in Nat
    BY FS_CardinalityType
<1>2. ASSUME NEW x \in S
      PROVE  /\ IsFiniteSet(front(x)) /\ Cardinality(front(x)) \in Nat
             /\ Cardinality(front(x)) <= n - 1
  <2>1. IsFiniteSet(S \ {x}) /\ Cardinality(S \ {x}) = n - 1
      BY FS_RemoveElement
  <2>2. front(x) \in SUBSET (S \ {x})
      BY DEF Orders
  <2> QED BY <2>1, <2>2, FS_Subset, FS_CardinalityType
<1>3. ASSUME NEW x \in S, NEW y \in S, <<x, y>> \in ahead
      PROVE  Cardinality(front(x)) < Cardinality(front(y))
  <2>1. front(x) \in SUBSET (front(y) \ {x}) /\ x \in front(y)
      BY <1>3 DEF Orders
  <2>2. /\ IsFiniteSet(front(y) \ {x})
        /\ Cardinality(front(y) \ {x}) = Cardinality(front(y)) - 1
      BY <1>2, <2>1, FS_RemoveElement
  <2>3. Cardinality(front(x)) <= Cardinality(front(y) \ {x})
      BY <2>1, <2>2, FS_Subset
  <2> QED BY <1>2, <2>2, <2>3
<1> DEFINE f == [x \in S |-> Cardinality(front(x)) + 1]
<1> HIDE DEF front, n
<1>4. f \in [S -> 1 .. n]
    BY <1>1, <1>2
<1>5. ASSUME NEW x \in S, NEW y \in S, f[x] = f[y]
      PROVE  x = y
  <2>1. Cardinality(front(x)) = Cardinality(front(y))
      BY <1>2, <1>5
  <2>2. <<x, y>> \notin ahead /\ <<y, x>> \notin ahead
      BY <1>2, <1>3, <2>1
  <2> QED BY <2>2 DEF Orders
<1>6. f \in Injection(S, 1 .. n)
    BY <1>4, <1>5 DEF Injection, IsInjective
<1>7. IsFiniteSet(1 .. n) /\ Cardinality(1 .. n) = n
    BY <1>1, FS_Interval
<1>8. f \in Surjection(S, 1 .. n)
    BY <1>6, <1>7, FS_Injection DEF n
<1>9. \A i \in 1 .. n : \E x \in S : Cardinality(front(x)) = i - 1
  <2> TAKE i \in 1 .. n
  <2>1. PICK x \in S : f[x] = i
      BY <1>8 DEF Surjection
  <2> QED BY <1>1, <1>2, <2>1
<1>10. s = [i \in 1 .. n |-> CHOOSE x \in S : Cardinality(front(x)) = i - 1]
    BY DEF Sorted, n, front
<1>11. \A i \in 1 .. n : s[i] \in S /\ Cardinality(front(s[i])) = i - 1
    BY <1>9, <1>10
<1>12. s \in [1 .. n -> S] /\ DOMAIN s = 1 .. n
    BY <1>10, <1>11
<1> HIDE DEF s, f
<1>13. s \in Seq(S) /\ Len(s) = n
    BY <1>1, <1>12, SeqDef
<1>14. IsInjective(s)
  <2> SUFFICES ASSUME NEW i \in 1 .. n, NEW j \in 1 .. n, s[i] = s[j]
               PROVE  i = j
      BY <1>12 DEF IsInjective
  <2> QED BY <1>1, <1>11
<1>15. ASSUME NEW x \in S
       PROVE  x \in ToSet(s)
  <2> DEFINE i == Cardinality(front(x)) + 1
  <2>1. i \in 1 .. n
      BY <1>1, <1>2
  <2>2. Cardinality(front(s[i])) = Cardinality(front(x)) /\ s[i] \in S
      BY <1>2, <1>11, <2>1
  <2>3. f[s[i]] = f[x]
      BY <2>2 DEF f
  <2>4. s[i] = x
      BY <1>5, <2>2, <2>3
  <2> QED BY <1>12, <2>1, <2>4 DEF ToSet
<1>16. ToSet(s) = S
    BY <1>12, <1>15 DEF ToSet
<1> QED BY <1>13, <1>14, <1>16 DEF s, n

\* A sequence has no more members than places, and as many when it repeats none.
LEMMA MembersCount ==
    ASSUME NEW T, NEW s \in Seq(T)
    PROVE  /\ IsFiniteSet(ToSet(s)) /\ Cardinality(ToSet(s)) <= Len(s) /\ ToSet(s) \subseteq T
           /\ IsInjective(s) => Cardinality(ToSet(s)) = Len(s)
<1>1. Len(s) \in Nat /\ DOMAIN s = 1 .. Len(s) /\ s \in [1 .. Len(s) -> T]
    BY LenProperties
<1>2. IsFiniteSet(1 .. Len(s)) /\ Cardinality(1 .. Len(s)) = Len(s)
    BY <1>1, FS_Interval
<1>3. s \in Surjection(1 .. Len(s), ToSet(s))
    BY <1>1 DEF Surjection, ToSet
<1>4. IsInjective(s) => s \in Injection(1 .. Len(s), ToSet(s))
    BY <1>1 DEF Injection, ToSet
<1>5. /\ IsFiniteSet(ToSet(s)) /\ Cardinality(ToSet(s)) <= Len(s)
      /\ Cardinality(ToSet(s)) = Len(s) <=> s \in Injection(1 .. Len(s), ToSet(s))
    BY <1>2, <1>3, FS_Surjection
<1>6. ToSet(s) \subseteq T
    BY <1>1 DEF ToSet
<1> QED BY <1>4, <1>5, <1>6

\* What is filtered keeps its members that pass, once each.
LEMMA AmongOnce ==
    ASSUME NEW S, NEW T, NEW s \in Seq(T), IsInjective(s)
    PROVE  /\ Among(S, s) \in Seq(T) /\ IsInjective(Among(S, s))
           /\ ToSet(Among(S, s)) = S \cap ToSet(s)
           /\ Len(Among(S, s)) = Cardinality(S \cap ToSet(s)) /\ Len(Among(S, s)) <= Len(s)
<1> DEFINE kept == S \cap ToSet(s)
           ahead == {p \in kept \X kept : Place(p[1], s) < Place(p[2], s)}
<1>1. IsFiniteSet(ToSet(s)) /\ Cardinality(ToSet(s)) = Len(s) /\ ToSet(s) \subseteq T
    BY MembersCount
<1>2. IsFiniteSet(kept) /\ Cardinality(kept) <= Len(s)
    BY <1>1, FS_Subset
<1>3. Len(s) \in Nat /\ DOMAIN s = 1 .. Len(s)
    BY LenProperties
<1>4. \A x \in ToSet(s) : Place(x, s) \in DOMAIN s /\ s[Place(x, s)] = x
    BY DEF ToSet, Place
<1>5. \A x \in kept : Place(x, s) \in Nat /\ s[Place(x, s)] = x
    BY <1>3, <1>4
<1>6. \A x, y \in kept : <<x, y>> \in ahead <=> Place(x, s) < Place(y, s)
    OBVIOUS
<1> HIDE DEF ahead
<1>7. Orders(ahead, kept)
  <2>1. \A x, y, z \in kept : <<x, y>> \in ahead /\ <<y, z>> \in ahead => <<x, z>> \in ahead
      BY <1>5, <1>6
  <2>2. ASSUME NEW x \in kept, NEW y \in kept, <<x, y>> \notin ahead, <<y, x>> \notin ahead
        PROVE  x = y
    <3>1. Place(x, s) = Place(y, s)
        BY <1>5, <1>6, <2>2
    <3> QED BY <1>5, <3>1
  <2> QED BY <1>5, <1>6, <2>1, <2>2 DEF Orders
<1>8. Among(S, s) = Sorted(kept, ahead)
    BY DEF Among, ahead
<1> HIDE DEF kept
<1>9. /\ Among(S, s) \in Seq(kept) /\ Len(Among(S, s)) = Cardinality(kept)
      /\ IsInjective(Among(S, s)) /\ ToSet(Among(S, s)) = kept
    BY <1>2, <1>7, <1>8, SortedOnce
<1>10. kept \subseteq T
    BY <1>1 DEF kept
<1>11. Among(S, s) \in Seq(T)
    BY <1>9, <1>10, SeqMonotonic
<1> QED BY <1>2, <1>9, <1>11 DEF kept

LEMMA LeastOfTwo ==
    ASSUME NEW m \in Nat, NEW n \in Nat
    PROVE  Min({m, n}) = IF m < n THEN m ELSE n
<1>1. \E x \in {m, n} : \A y \in {m, n} : x <= y
    OBVIOUS
<1>2. Min({m, n}) \in {m, n} /\ \A y \in {m, n} : Min({m, n}) <= y
    BY <1>1 DEF Min
<1> QED BY <1>2

\* A cut keeps the first n, and what is no longer than that whole.
LEMMA FirstOnce ==
    ASSUME NEW T, NEW s \in Seq(T), IsInjective(s), NEW n \in Nat
    PROVE  /\ First(n, s) \in Seq(T) /\ IsInjective(First(n, s))
           /\ ToSet(First(n, s)) \subseteq ToSet(s)
           /\ Len(First(n, s)) <= n
           /\ Len(First(n, s)) < n \/ Len(s) <= n => First(n, s) = s
<1> DEFINE m == IF n < Len(s) THEN n ELSE Len(s)
           t == First(n, s)
<1>1. Len(s) \in Nat /\ DOMAIN s = 1 .. Len(s) /\ s \in [1 .. Len(s) -> T]
    BY LenProperties
<1>2. t = SubSeq(s, 1, m) /\ m \in Nat /\ m <= Len(s) /\ m <= n
    BY <1>1, LeastOfTwo DEF First
<1>3. \A i \in 1 .. m : s[i] \in T
    BY <1>1, <1>2
<1>4. /\ SubSeq(s, 1, m) \in Seq(T) /\ Len(SubSeq(s, 1, m)) = IF 1 <= m THEN m - 1 + 1 ELSE 0
      /\ \A i \in 1 .. m - 1 + 1 : SubSeq(s, 1, m)[i] = s[1 + i - 1]
    BY <1>2, <1>3, SubSeqProperties
<1> HIDE DEF t
<1>5. t \in Seq(T) /\ Len(t) = m /\ \A i \in 1 .. m : t[i] = s[i]
    BY <1>2, <1>4
<1>6. DOMAIN t = 1 .. m
    BY <1>5, LenProperties
<1>7. ToSet(t) \subseteq ToSet(s)
    BY <1>1, <1>2, <1>5, <1>6 DEF ToSet
<1>8. IsInjective(t)
    BY <1>1, <1>2, <1>5, <1>6 DEF IsInjective
<1>9. (m < n \/ Len(s) <= n) => t = s
  <2> SUFFICES ASSUME m < n \/ Len(s) <= n
               PROVE  t = s
      OBVIOUS
  <2>1. m = Len(s)
    <3>1. CASE n < Len(s)
      <4>1. m = n
          BY <3>1
      <4>2. Len(s) \in Nat
          BY <1>1
      <4> HIDE DEF m
      <4>3. ~(m < n) /\ ~(Len(s) <= n)
          BY <3>1, <4>1, <4>2
      <4> QED BY <4>3
    <3>2. CASE ~(n < Len(s))
        BY <3>2
    <3> QED BY <3>1, <3>2
  <2> QED BY <1>5, <2>1, SeqEqual
<1> QED BY <1>2, <1>5, <1>7, <1>8, <1>9 DEF t

\* What is filtered and then cut.
LEMMA FirstAmong ==
    ASSUME NEW S, NEW T, NEW s \in Seq(T), IsInjective(s), NEW n \in Nat
    PROVE  LET t == First(n, Among(S, s))
           IN  /\ t \in Seq(T) /\ IsInjective(t) /\ ToSet(t) \subseteq S \cap ToSet(s)
               /\ Len(t) <= n
               /\ Len(t) < n => ToSet(t) = S \cap ToSet(s)
<1>1. /\ Among(S, s) \in Seq(T) /\ IsInjective(Among(S, s))
      /\ ToSet(Among(S, s)) = S \cap ToSet(s)
    BY AmongOnce
<1> DEFINE t == First(n, Among(S, s))
<1>2. /\ t \in Seq(T) /\ IsInjective(t) /\ ToSet(t) \subseteq ToSet(Among(S, s)) /\ Len(t) <= n
      /\ Len(t) < n => t = Among(S, s)
    BY <1>1, FirstOnce
<1> HIDE DEF t
<1>3. Len(t) < n => ToSet(t) = S \cap ToSet(s)
    BY <1>1, <1>2
<1> QED BY <1>1, <1>2, <1>3 DEF t

\* A node's share of a ranking is a number, so any two nodes compare.
LEMMA ByScoreOnce ==
    ASSUME NEW r1 \in Seq(Nodes), NEW r2 \in Seq(Nodes), NEW r3 \in Seq(Nodes),
           NEW S \in SUBSET Nodes
    PROVE  LET s == ByScore(S, <<r1, r2, r3>>)
           IN  s \in Seq(Nodes) /\ Len(s) = Cardinality(S) /\ IsInjective(s) /\ ToSet(s) = S
<1> DEFINE R == <<r1, r2, r3>>
<1>1. \A r \in Seq(Nodes) : \A n \in ToSet(r) : Place(n, r) \in Nat \ {0}
  <2> SUFFICES ASSUME NEW r \in Seq(Nodes), NEW n \in ToSet(r)
               PROVE  Place(n, r) \in Nat \ {0}
      OBVIOUS
  <2>1. DOMAIN r = 1 .. Len(r) /\ Len(r) \in Nat
      BY LenProperties
  <2>2. Place(n, r) \in DOMAIN r
      BY DEF ToSet, Place
  <2> QED BY <2>1, <2>2
<1>2. \A r \in Seq(Nodes) : \A n \in Nodes : Share(n, r) \in Int
  <2> SUFFICES ASSUME NEW r \in Seq(Nodes), NEW n \in Nodes
               PROVE  Share(n, r) \in Int
      OBVIOUS
  <2>1. CASE n \in ToSet(r)
    <3> DEFINE d == Rrf + Place(n, r)
    <3>1. d \in Nat \ {0}
        BY <1>1, <2>1, RanksAssumption
    <3> HIDE DEF d
    <3>2. Unit \div d \in Int
        BY <3>1, RanksAssumption
    <3> QED BY <2>1, <3>2 DEF Share, d
  <2>2. CASE n \notin ToSet(r)
      BY <2>2 DEF Share
  <2> QED BY <2>1, <2>2
<1>3. \A n \in Nodes : Score(R, n) \in Int
  <2>1. \A n \in Nodes : Score(R, n) = Share(n, r1) + Share(n, r2) + Share(n, r3)
      BY DEF Score
  <2> HIDE DEF R
  <2> TAKE n \in Nodes
  <2>2. Share(n, r1) \in Int /\ Share(n, r2) \in Int /\ Share(n, r3) \in Int
      BY <1>2
  <2>3. Share(n, r1) + Share(n, r2) + Share(n, r3) \in Int
      BY <2>2
  <2> QED BY <2>1, <2>3
<1> DEFINE ahead == {p \in S \X S : \/ Score(R, p[1]) > Score(R, p[2])
                                    \/ Score(R, p[1]) = Score(R, p[2]) /\ p[1] < p[2]}
<1>4. \A x, y \in S : <<x, y>> \in ahead <=> (Score(R, x) > Score(R, y) \/ (Score(R, x) = Score(R, y) /\ x < y))
    OBVIOUS
<1>5. \A x \in S : x \in Nat /\ Score(R, x) \in Int
    BY <1>3, NodesAssumption
<1>6. ByScore(S, R) = Sorted(S, ahead)
    BY DEF ByScore
<1> HIDE DEF ahead, R
<1>7. Orders(ahead, S)
  <2>1. \A x \in S : <<x, x>> \notin ahead
      BY <1>4, <1>5
  <2>2. ASSUME NEW x \in S, NEW y \in S, NEW z \in S, <<x, y>> \in ahead, <<y, z>> \in ahead
        PROVE  <<x, z>> \in ahead
    <3>1. Score(R, x) > Score(R, y) \/ (Score(R, x) = Score(R, y) /\ x < y)
        BY <1>4, <2>2
    <3>2. Score(R, y) > Score(R, z) \/ (Score(R, y) = Score(R, z) /\ y < z)
        BY <1>4, <2>2
    <3>3. Score(R, x) > Score(R, z) \/ (Score(R, x) = Score(R, z) /\ x < z)
        BY <1>5, <3>1, <3>2
    <3> QED BY <1>4, <3>3
  <2>3. ASSUME NEW x \in S, NEW y \in S, <<x, y>> \notin ahead, <<y, x>> \notin ahead
        PROVE  x = y
    <3>1. /\ ~(Score(R, x) > Score(R, y)) /\ ~(Score(R, x) = Score(R, y) /\ x < y)
          /\ ~(Score(R, y) > Score(R, x)) /\ ~(Score(R, y) = Score(R, x) /\ y < x)
        BY <1>4, <2>3
    <3> QED BY <1>5, <3>1
  <2> QED BY <2>1, <2>2, <2>3 DEF Orders
<1>8. IsFiniteSet(S)
    BY NodesAssumption, FS_Subset
<1>9. /\ Sorted(S, ahead) \in Seq(S) /\ Len(Sorted(S, ahead)) = Cardinality(S)
      /\ IsInjective(Sorted(S, ahead)) /\ ToSet(Sorted(S, ahead)) = S
    BY <1>7, <1>8, SortedOnce
<1>10. Sorted(S, ahead) \in Seq(Nodes)
    BY <1>9, SeqMonotonic
<1> QED BY <1>6, <1>9, <1>10 DEF R

\* The fusion invents nothing and keeps what is protected and was found; when no more
\* was found than it may keep, it keeps all.
LEMMA FusedOnce ==
    ASSUME NEW r1 \in Seq(Nodes), NEW r2 \in Seq(Nodes), NEW r3 \in Seq(Nodes),
           NEW limit \in Nat, NEW protected
    PROVE  LET rankings == <<r1, r2, r3>>
               fused == Fused(rankings, limit, protected)
           IN  /\ fused \in Seq(Nodes) /\ IsInjective(fused)
               /\ ToSet(fused) \subseteq Found(rankings)
               /\ protected \cap Found(rankings) \subseteq ToSet(fused)
               /\ Cardinality(Found(rankings)) <= limit => ToSet(fused) = Found(rankings)
<1> DEFINE R == <<r1, r2, r3>>
           found == ToSet(r1) \cup ToSet(r2) \cup ToSet(r3)
           best == First(limit, ByScore(found, R))
           kept == ToSet(best) \cup (protected \cap found)
<1>1. found \in SUBSET Nodes
    BY MembersCount
<1>2. Found(R) = found
    BY DEF Found
<1> HIDE DEF found
<1>3. /\ ByScore(found, R) \in Seq(Nodes) /\ Len(ByScore(found, R)) = Cardinality(found)
      /\ IsInjective(ByScore(found, R)) /\ ToSet(ByScore(found, R)) = found
    BY <1>1, ByScoreOnce
<1>4. /\ ToSet(best) \subseteq found
      /\ Cardinality(found) <= limit => ToSet(best) = found
    BY <1>3, FirstOnce
<1>5. Fused(R, limit, protected) = ByScore(kept, R)
    BY <1>2 DEF Fused
<1> HIDE DEF best
<1>6. kept \in SUBSET Nodes
    BY <1>1, <1>4
<1> HIDE DEF kept
<1>7. /\ ByScore(kept, R) \in Seq(Nodes) /\ IsInjective(ByScore(kept, R))
      /\ ToSet(ByScore(kept, R)) = kept
    BY <1>6, ByScoreOnce
<1>8. kept \subseteq found /\ protected \cap found \subseteq kept
      /\ (Cardinality(found) <= limit => kept = found)
    BY <1>4 DEF kept
<1> HIDE DEF R
<1> QED BY <1>2, <1>5, <1>7, <1>8 DEF R

-----------------------------------------------------------------------------
(* A search: its invariant.                                                     *)

\* What the arms have read: the vector arm's nodes and those it has still to read are
\* apart, and what is protected is in a ranking.
ArmsFit ==
    /\ IsInjective(vec.due) /\ IdsOf(vec.nodes) \cap ToSet(vec.due) = {}
    /\ vec.at = "done" => vec.due = <<>>
    /\ IsInjective(lex.nodes) /\ IsInjective(lex.passages)
    /\ lex.guarded \subseteq ToSet(lex.nodes) \cup ToSet(lex.passages)
    /\ lex.at # "done" => lex.passages = <<>>
    /\ stage = "before" => vec.at = "find" /\ vec = Unsought /\ lex = Unread
    /\ vec.at = "find" => vec = Unsought
    /\ stage \notin {"before", "arms"} => vec.at = "done"

\* Whatever any step has found could be returned at some moment; until the answer,
\* what can be returned now is counted, and nothing else is if nothing was written.
FoundWasAdmitted ==
    /\ ToSet(vec.ids) \cup ToSet(lex.nodes) \cup ToSet(lex.passages) \subseteq admitted
    /\ Seen \subseteq admitted /\ (stage = "before" => admitted = {})
    /\ stage \notin {"before", "answered"} =>
          /\ AllAdmitted(graph, query) \subseteq admitted
          /\ writes = 0 => admitted = AllAdmitted(graph, query)

\* From the fusion to the cut a protected hit that still stands is among the seeds.
DeclaredStands == stage = "fused" => Standing(lex.guarded) \subseteq ToSet(Ids(seeds))

\* A vector arm that found fewer than it was asked for has found all there is, and all
\* of it comes through the fusion, and then the fold but for what is folded.
ShortMeansAll ==
    (writes = 0 /\ stage # "before" /\ vec.at # "find" /\ Len(vec.ids) < fetch) =>
        /\ ToSet(vec.ids) = admitted
        /\ stage = "fused" => admitted \subseteq ToSet(Ids(seeds)) /\ Len(seeds) < fetch
        /\ stage \in {"collapsed", "expanding", "answered"} =>
              admitted \subseteq ToSet(Ids(seeds)) \cup {p[1].id : p \in fold.pairs}

\* An answer that is short of k, below the ceiling, is so because the arm was.
ShortOfAnswer ==
    (stage = "answered" /\ Scoped /\ fetch < MaxK /\ Cardinality(InScope) < K) => Len(vec.ids) < fetch

SearchInv ==
    /\ SearchTypeOK /\ ArmsFit /\ FoundWasAdmitted
    /\ DeclaredStands /\ DeclaredHitSurvives /\ ShortMeansAll /\ ShortOfAnswer

USE DEF IdsOf

LEMMA QueryFits ==
    ASSUME query \in Queries
    PROVE  /\ query.like \in Seq(Nodes) /\ IsInjective(query.like) /\ ToSet(query.like) = Nodes
           /\ query.exact \in Seq(Nodes) /\ IsInjective(query.exact)
           /\ query.passage \in Seq(Nodes) /\ IsInjective(query.passage)
           /\ query.statuses \subseteq Reachable /\ "active" \in query.statuses
           /\ query.links \subseteq SUBSET Nodes
           /\ AllAdmitted(graph, query) \subseteq Nodes
           /\ \A n \in AllAdmitted(graph, query) : graph.status[n] # Gone
<1>1. /\ \A ranking \in {query.like, query.exact, query.passage} :
              ranking \in Seq(Nodes) /\ IsInjective(ranking)
      /\ ToSet(query.like) = Nodes
      /\ query.statuses \subseteq Reachable /\ "active" \in query.statuses
      /\ query.links \subseteq SUBSET Nodes
    BY QueriesAssumption
<1>2. Gone \notin Reachable
    BY DEF Gone, Reachable, SupersededStatuses
<1> QED BY <1>1, <1>2 DEF AllAdmitted, Admits

LEMMA NothingYet ==
    /\ ToSet(<<>>) = {} /\ IsInjective(<<>>) /\ Len(<<>>) = 0 /\ \A S : <<>> \in Seq(S)
    /\ Ids(<<>>) = <<>>
<1>1. DOMAIN <<>> = {}
    OBVIOUS
<1>2. Ids(<<>>) = <<>>
    BY <1>1 DEF Ids
<1> QED BY <1>1, <1>2, EmptySeq DEF ToSet, IsInjective

LEMMA SeedsAre ==
    ASSUME NEW s \in Seq(Records)
    PROVE  /\ Ids(s) \in Seq(Nodes) /\ Len(Ids(s)) = Len(s) /\ ToSet(s) \subseteq Records
           /\ ToSet(Ids(s)) = IdsOf(ToSet(s))
           /\ IsInjective(Ids(s)) =>
                 IsInjective(s) /\ \A q, r \in ToSet(s) : q.id = r.id => q = r
<1>1. /\ Len(s) \in Nat /\ DOMAIN s = 1 .. Len(s) /\ s \in [1 .. Len(s) -> Records]
    BY LenProperties
<1>2. \A i \in 1 .. Len(s) : s[i].id \in Nodes
    BY <1>1 DEF Records
<1>3. Ids(s) \in [1 .. Len(s) -> Nodes] /\ DOMAIN Ids(s) = 1 .. Len(s)
    BY <1>1, <1>2 DEF Ids
<1>4. Ids(s) \in Seq(Nodes) /\ Len(Ids(s)) = Len(s)
    BY <1>1, <1>3, SeqDef
<1>5. \A i \in 1 .. Len(s) : Ids(s)[i] = s[i].id
    BY <1>1 DEF Ids
<1>6. ToSet(Ids(s)) = IdsOf(ToSet(s))
    BY <1>1, <1>3, <1>5 DEF ToSet
<1>7. ASSUME IsInjective(Ids(s))
      PROVE  \A i, j \in 1 .. Len(s) : s[i].id = s[j].id => i = j
    BY <1>3, <1>5, <1>7 DEF IsInjective
<1>8. ASSUME IsInjective(Ids(s))
      PROVE  IsInjective(s) /\ \A q, r \in ToSet(s) : q.id = r.id => q = r
    BY <1>1, <1>7, <1>8 DEF IsInjective, ToSet
<1> QED BY <1>1, <1>4, <1>6, <1>8 DEF ToSet

\* What another call makes of a graph is a graph, in which what was gone still is.
LEMMA AfterKeeps ==
    ASSUME graph \in [status : [Nodes -> Statuses], lineage : SUBSET (Nodes \X Nodes)],
           NEW g \in After(graph)
    PROVE  /\ g \in [status : [Nodes -> Statuses], lineage : SUBSET (Nodes \X Nodes)]
           /\ \A n \in Nodes : graph.status[n] = Gone => g.status[n] = Gone
<1> USE DEF Statuses, Reachable, SupersededStatuses, Gone
<1> DEFINE live == {n \in Nodes : graph.status[n] = "active"}
           pairs == {p \in Nodes \X Nodes :
                        p[1] # p[2] /\ graph.status[p[1]] # Gone /\ graph.status[p[2]] # Gone}
<1>1. \/ \E p \in pairs \cap (live \X live), how \in SupersededStatuses :
            g = [status |-> [graph.status EXCEPT ![p[1]] = how], lineage |-> graph.lineage \cup {p}]
      \/ \E n \in {m \in Nodes : graph.status[m] = "historical"} : g = [graph EXCEPT !.status[n] = "active"]
      \/ \E p \in pairs : g = [graph EXCEPT !.lineage = @ \cup {p}]
      \/ \E n \in live : g = [status |-> [graph.status EXCEPT ![n] = Gone],
                              lineage |-> {e \in graph.lineage : n \notin Range(e)}]
    BY DEF After
<1>2. CASE \E p \in pairs \cap (live \X live), how \in SupersededStatuses :
             g = [status |-> [graph.status EXCEPT ![p[1]] = how], lineage |-> graph.lineage \cup {p}]
    BY <1>2
<1>3. CASE \E n \in {m \in Nodes : graph.status[m] = "historical"} : g = [graph EXCEPT !.status[n] = "active"]
    BY <1>3
<1>4. CASE \E p \in pairs : g = [graph EXCEPT !.lineage = @ \cup {p}]
    BY <1>4
<1>5. CASE \E n \in live : g = [status |-> [graph.status EXCEPT ![n] = Gone],
                                lineage |-> {e \in graph.lineage : n \notin Range(e)}]
    BY <1>5
<1> QED BY <1>1, <1>2, <1>3, <1>4, <1>5

LEMMA FirstFetchFits == ASSUME NEW q \in Queries PROVE FirstFetch(q) \in 1 .. MaxK
<1>1. K * Overfetch \in Nat \ {0}
    BY LimitsAssumption
<1>2. Min({K * Overfetch, MaxK}) = IF K * Overfetch < MaxK THEN K * Overfetch ELSE MaxK
    BY <1>1, LimitsAssumption, LeastOfTwo
<1> QED BY <1>1, <1>2, LimitsAssumption DEF FirstFetch

\* The search before it has begun, and each time it begins again.
LEMMA ArmsAfresh ==
    ASSUME vec' = Unsought, lex' = Unread, seeds' = <<>>, fold' = Unfolded,
           expansion' = Unexpanded, stage' \in {"before", "arms"}
    PROVE  /\ vec' \in [at : {"find", "fetch", "done"}, due : Seq(Nodes), ids : Seq(Nodes), nodes : SUBSET Records]
           /\ IsInjective(vec.ids)' /\ (IdsOf(vec.nodes) \cup ToSet(vec.due) = ToSet(vec.ids))'
           /\ lex' \in [at : {"nodes", "passages", "done"}, nodes : Seq(Nodes), passages : Seq(Nodes), guarded : SUBSET Nodes]
           /\ seeds' \in Seq(Records) /\ IsInjective(Ids(seeds))'
           /\ expansion' \in [nodes : SUBSET Records, due : SUBSET query'.links, unstamped : SUBSET Records]
           /\ ArmsFit' /\ DeclaredStands' /\ DeclaredHitSurvives' /\ ShortMeansAll' /\ ShortOfAnswer'
           /\ (ToSet(vec.ids) \cup ToSet(lex.nodes) \cup ToSet(lex.passages))' = {} /\ Seen' = {}
<1>1. /\ vec'.at = "find" /\ vec'.due = <<>> /\ vec'.ids = <<>> /\ vec'.nodes = {}
      /\ lex'.at = "nodes" /\ lex'.nodes = <<>> /\ lex'.passages = <<>> /\ lex'.guarded = {}
      /\ expansion'.nodes = {}
    BY DEF Unsought, Unread, Unexpanded
<1>2. (ToSet(vec.ids) \cup ToSet(lex.nodes) \cup ToSet(lex.passages))' = {} /\ Seen' = {}
    BY <1>1, NothingYet DEF Seen
<1>3. ArmsFit'
    BY <1>1, NothingYet DEF ArmsFit
<1>4. DeclaredStands' /\ DeclaredHitSurvives' /\ ShortMeansAll' /\ ShortOfAnswer'
    BY <1>1 DEF DeclaredStands, DeclaredHitSurvives, ShortMeansAll, ShortOfAnswer
<1> QED BY <1>1, <1>2, <1>3, <1>4, NothingYet DEF Unsought, Unread, Unexpanded

LEMMA SearchInitInv == SearchInit => SearchInv
<1> SUFFICES ASSUME SearchInit PROVE SearchInv
    OBVIOUS
<1> USE DEF SearchInit
<1>1. /\ vec.at = "find" /\ vec.due = <<>> /\ vec.ids = <<>> /\ vec.nodes = {}
      /\ lex.at = "nodes" /\ lex.nodes = <<>> /\ lex.passages = <<>> /\ lex.guarded = {}
      /\ expansion.nodes = {} /\ stage = "before"
    BY DEF Unsought, Unread, Unexpanded
<1>2. fetch \in 1 .. MaxK
    BY FirstFetchFits
<1>3. graph \in [status : [Nodes -> Statuses], lineage : SUBSET (Nodes \X Nodes)]
    BY DEF Fresh, Statuses, Reachable
<1>4. SearchTypeOK
    BY <1>1, <1>2, <1>3, NothingYet DEF SearchTypeOK, Unsought, Unread, Unexpanded
<1>5. ArmsFit
    BY <1>1, NothingYet DEF ArmsFit
<1>6. FoundWasAdmitted
    BY <1>1, NothingYet DEF FoundWasAdmitted, Seen
<1>7. DeclaredStands /\ DeclaredHitSurvives /\ ShortMeansAll /\ ShortOfAnswer
    BY <1>1 DEF DeclaredStands, DeclaredHitSurvives, ShortMeansAll, ShortOfAnswer
<1> QED BY <1>4, <1>5, <1>6, <1>7 DEF SearchInv

LEMMA WriteBeforeInv == ASSUME SearchInv, WriteBefore PROVE SearchInv'
<1> USE DEF SearchInv, WriteBefore
<1>1. graph' \in [status : [Nodes -> Statuses], lineage : SUBSET (Nodes \X Nodes)]
    BY AfterKeeps DEF SearchTypeOK
<1>2. SearchTypeOK'
    BY <1>1 DEF SearchTypeOK, Ids
<1>3. ArmsFit'
    BY DEF ArmsFit
<1>4. FoundWasAdmitted'
    BY DEF FoundWasAdmitted, Seen
<1>5. DeclaredStands' /\ DeclaredHitSurvives' /\ ShortMeansAll' /\ ShortOfAnswer'
    BY DEF DeclaredStands, DeclaredHitSurvives, ShortMeansAll, ShortOfAnswer
<1> QED BY <1>2, <1>3, <1>4, <1>5

LEMMA BeginSearchInv == ASSUME SearchInv, BeginSearch PROVE SearchInv'
<1> USE DEF SearchInv, BeginSearch
<1>1. vec = Unsought /\ lex = Unread /\ vec.at = "find"
    BY DEF ArmsFit
<1>2. SearchTypeOK'
    BY LimitsAssumption DEF SearchTypeOK, Ids, AllAdmitted
<1>3. ArmsFit'
    BY <1>1 DEF ArmsFit
<1>4. vec.ids = <<>> /\ lex.nodes = <<>> /\ lex.passages = <<>>
    BY <1>1 DEF Unsought, Unread
<1>5. Seen \subseteq AllAdmitted(graph, query)
    BY DEF FoundWasAdmitted
<1>6. FoundWasAdmitted'
    BY <1>4, <1>5, NothingYet DEF FoundWasAdmitted, Seen, AllAdmitted, Admits
<1>7. DeclaredStands' /\ DeclaredHitSurvives' /\ ShortMeansAll' /\ ShortOfAnswer'
    BY <1>1 DEF DeclaredStands, DeclaredHitSurvives, ShortMeansAll, ShortOfAnswer
<1> QED BY <1>2, <1>3, <1>6, <1>7

\* Before the answer, what the search may return now has been admitted.
LEMMA AdmittedNow ==
    ASSUME SearchInv, stage \notin {"before", "answered"}
    PROVE  /\ AllAdmitted(graph, query) \subseteq admitted
           /\ writes = 0 => admitted = AllAdmitted(graph, query)
BY DEF SearchInv, FoundWasAdmitted

LEMMA VectorFindInv == ASSUME SearchInv, VectorFind PROVE SearchInv'
<1> DEFINE hits == First(fetch, Matching(query.like))
<1>1. stage = "arms" /\ vec.at = "find" /\ vec = Unsought
    BY DEF SearchInv, VectorFind, ArmsFit
<1>2. vec' = [vec EXCEPT !.at = "fetch", !.due = hits, !.ids = hits]
    BY DEF VectorFind
<1>3. UNCHANGED <<graph, query, fetch, lex, stage, seeds, fold, expansion, writes, admitted>>
    BY DEF VectorFind
<1>4. fetch \in Nat
    BY LimitsAssumption DEF SearchInv, SearchTypeOK
<1>5. /\ hits \in Seq(Nodes) /\ IsInjective(hits) /\ ToSet(hits) \subseteq AllAdmitted(graph, query)
      /\ Len(hits) <= fetch
      /\ Len(hits) < fetch => ToSet(hits) = AllAdmitted(graph, query)
  <2>1. /\ query.like \in Seq(Nodes) /\ IsInjective(query.like) /\ ToSet(query.like) = Nodes
        /\ AllAdmitted(graph, query) \subseteq Nodes
      BY QueryFits DEF SearchInv, SearchTypeOK
  <2>2. /\ hits \in Seq(Nodes) /\ IsInjective(hits)
        /\ ToSet(hits) \subseteq AllAdmitted(graph, query) \cap ToSet(query.like)
        /\ Len(hits) <= fetch
        /\ Len(hits) < fetch => ToSet(hits) = AllAdmitted(graph, query) \cap ToSet(query.like)
      BY <1>4, <2>1, FirstAmong DEF Matching
  <2>3. AllAdmitted(graph, query) \cap ToSet(query.like) = AllAdmitted(graph, query)
      BY <2>1
  <2> QED BY <2>2, <2>3
<1> HIDE DEF hits
<1>6. /\ vec'.at = "fetch" /\ vec'.due = hits /\ vec'.ids = hits /\ vec'.nodes = {}
      /\ vec' = [at |-> "fetch", due |-> hits, ids |-> hits, nodes |-> {}]
    BY <1>1, <1>2 DEF Unsought
<1>7. SearchTypeOK'
    BY <1>3, <1>5, <1>6 DEF SearchInv, SearchTypeOK, Ids
<1>8. ArmsFit'
    BY <1>1, <1>3, <1>5, <1>6 DEF SearchInv, ArmsFit
<1>9. FoundWasAdmitted'
    BY <1>1, <1>3, <1>5, <1>6, AdmittedNow DEF SearchInv, FoundWasAdmitted, Seen, AllAdmitted, Admits
<1>10. DeclaredStands' /\ DeclaredHitSurvives' /\ ShortOfAnswer'
    BY <1>1, <1>3 DEF DeclaredStands, DeclaredHitSurvives, ShortOfAnswer
<1>11. ShortMeansAll'
    BY <1>1, <1>3, <1>5, <1>6, AdmittedNow DEF ShortMeansAll
<1> QED BY <1>7, <1>8, <1>9, <1>10, <1>11 DEF SearchInv

\* One node more is read; if it is gone it is no result, and then something was written.
LEMMA VectorFetchInv == ASSUME SearchInv, VectorFetch PROVE SearchInv'
<1>1. /\ stage = "arms" /\ vec.at = "fetch"
      /\ UNCHANGED <<graph, query, fetch, lex, stage, seeds, fold, expansion, writes, admitted>>
    BY DEF VectorFetch
<1>2. /\ vec \in [at : {"find", "fetch", "done"}, due : Seq(Nodes), ids : Seq(Nodes), nodes : SUBSET Records]
      /\ IsInjective(vec.ids) /\ IdsOf(vec.nodes) \cup ToSet(vec.due) = ToSet(vec.ids)
      /\ IsInjective(vec.due) /\ IdsOf(vec.nodes) \cap ToSet(vec.due) = {}
    BY DEF SearchInv, SearchTypeOK, ArmsFit
<1>3. /\ vec' \in [at : {"find", "fetch", "done"}, due : Seq(Nodes), ids : Seq(Nodes), nodes : SUBSET Records]
      /\ IsInjective(vec'.ids) /\ IdsOf(vec'.nodes) \cup ToSet(vec'.due) = ToSet(vec'.ids)
      /\ IsInjective(vec'.due) /\ IdsOf(vec'.nodes) \cap ToSet(vec'.due) = {}
      /\ vec'.at # "find" /\ (vec'.at = "done" => vec'.due = <<>>)
      /\ ToSet(vec'.ids) \subseteq ToSet(vec.ids)
      /\ (\A n \in ToSet(vec.ids) : graph.status[n] # Gone) => vec'.ids = vec.ids
  <2>1. CASE vec.due = <<>>
    <3>1. vec' = [vec EXCEPT !.at = "done"]
        BY <2>1 DEF VectorFetch
    <3> QED BY <1>2, <2>1, <3>1
  <2>2. CASE vec.due # <<>>
    <3> DEFINE n == Head(vec.due)
               now == {Read(m) : m \in Standing({n})}
               left == IF graph.status[n] = Gone THEN Among(Nodes \ {n}, vec.ids) ELSE vec.ids
    <3>1. vec' = [vec EXCEPT !.due = Tail(@), !.ids = left, !.nodes = @ \cup now]
        BY <2>2 DEF VectorFetch
    <3>2. /\ n \in Nodes /\ Tail(vec.due) \in Seq(Nodes) /\ IsInjective(Tail(vec.due))
          /\ n \in ToSet(vec.due) /\ ToSet(Tail(vec.due)) = ToSet(vec.due) \ {n}
      <4>1. /\ Head(vec.due) \in Nodes /\ Tail(vec.due) \in Seq(Nodes)
            /\ Len(Tail(vec.due)) = Len(vec.due) - 1
            /\ \A i \in 1 .. Len(Tail(vec.due)) : Tail(vec.due)[i] = vec.due[i + 1]
          BY <1>2, <2>2, HeadTailProperties
      <4>2. /\ Len(vec.due) \in Nat \ {0} /\ DOMAIN vec.due = 1 .. Len(vec.due)
            /\ DOMAIN Tail(vec.due) = 1 .. Len(Tail(vec.due))
          BY <1>2, <2>2, <4>1, LenProperties, EmptySeq
      <4>3. n = vec.due[1]
          BY <1>2, <2>2
      <4> DEFINE t == Tail(vec.due)
                 d == vec.due
      <4> HIDE DEF n, t, d
      <4>4. /\ Len(d) \in Nat \ {0} /\ Len(t) = Len(d) - 1 /\ DOMAIN d = 1 .. Len(d)
            /\ DOMAIN t = 1 .. Len(t) /\ \A i \in 1 .. Len(t) : t[i] = d[i + 1]
            /\ n = d[1] /\ \A i, j \in 1 .. Len(d) : d[i] = d[j] => i = j
          BY <1>2, <4>1, <4>2, <4>3 DEF t, d, IsInjective
      <4>5. IsInjective(t)
          BY <4>4 DEF IsInjective
      <4>6. n \in ToSet(d) /\ n \notin ToSet(t) /\ ToSet(t) \subseteq ToSet(d)
          BY <4>4 DEF ToSet
      <4>7. ASSUME NEW x \in ToSet(d), x # n
            PROVE  x \in ToSet(t)
        <5>1. PICK i \in 1 .. Len(d) : x = d[i]
            BY <4>4 DEF ToSet
        <5>2. i - 1 \in 1 .. Len(t) /\ t[i - 1] = d[i]
            BY <4>4, <4>7, <5>1
        <5> QED BY <4>4, <5>1, <5>2 DEF ToSet
      <4> QED BY <4>1, <4>5, <4>6, <4>7 DEF n, t, d
    <3>3. graph.status \in [Nodes -> Statuses]
        BY DEF SearchInv, SearchTypeOK
    <3> HIDE DEF n
    <3>4. now \subseteq Records /\ IdsOf(now) = IF graph.status[n] = Gone THEN {} ELSE {n}
      <4>1. CASE graph.status[n] = Gone
        <5>1. now = {}
            BY <4>1 DEF Standing
        <5> QED BY <4>1, <5>1
      <4>2. CASE graph.status[n] # Gone
        <5>1. now = {Read(n)}
            BY <4>2 DEF Standing
        <5>2. Read(n) \in Records /\ Read(n).id = n
            BY <3>2, <3>3 DEF Read, Records
        <5> QED BY <4>2, <5>1, <5>2
      <4> QED BY <4>1, <4>2
    <3>5. /\ left \in Seq(Nodes) /\ IsInjective(left)
          /\ ToSet(left) = IF graph.status[n] = Gone THEN ToSet(vec.ids) \ {n} ELSE ToSet(vec.ids)
      <4>1. /\ Among(Nodes \ {n}, vec.ids) \in Seq(Nodes) /\ IsInjective(Among(Nodes \ {n}, vec.ids))
            /\ ToSet(Among(Nodes \ {n}, vec.ids)) = (Nodes \ {n}) \cap ToSet(vec.ids)
          BY <1>2, AmongOnce
      <4>2. ToSet(vec.ids) \subseteq Nodes
          BY <1>2, MembersCount
      <4> QED BY <1>2, <4>1, <4>2
    <3>6. n \in ToSet(vec.ids)
        BY <1>2, <3>2
    <3>7. graph.status[n] # Gone => left = vec.ids
        OBVIOUS
    <3> HIDE DEF now, left
    <3>8. /\ vec'.due = Tail(vec.due) /\ vec'.ids = left /\ vec'.nodes = vec.nodes \cup now
          /\ vec'.at = vec.at
          /\ vec' = [at |-> vec.at, due |-> Tail(vec.due), ids |-> left, nodes |-> vec.nodes \cup now]
        BY <1>2, <3>1
    <3>9. IdsOf(vec'.nodes) = IdsOf(vec.nodes) \cup IdsOf(now)
        BY <3>8
    <3>10. /\ IdsOf(vec'.nodes) \cup ToSet(vec'.due) = ToSet(vec'.ids)
           /\ IdsOf(vec'.nodes) \cap ToSet(vec'.due) = {}
      <4> HIDE DEF IdsOf
      <4>1. CASE graph.status[n] = Gone
          BY <1>2, <3>2, <3>4, <3>5, <3>8, <3>9, <4>1
      <4>2. CASE graph.status[n] # Gone
          BY <1>2, <3>2, <3>4, <3>5, <3>8, <3>9, <4>2
      <4> QED BY <4>1, <4>2
    <3>11. vec' \in [at : {"find", "fetch", "done"}, due : Seq(Nodes), ids : Seq(Nodes), nodes : SUBSET Records]
        BY <1>2, <3>2, <3>4, <3>5, <3>8
    <3> QED BY <1>1, <3>2, <3>5, <3>6, <3>7, <3>8, <3>10, <3>11
  <2> QED BY <2>1, <2>2
<1>4. SearchTypeOK'
    BY <1>1, <1>3 DEF SearchInv, SearchTypeOK, Ids
<1>5. ArmsFit'
    BY <1>1, <1>3 DEF SearchInv, ArmsFit
<1>6. FoundWasAdmitted'
    BY <1>1, <1>3 DEF SearchInv, FoundWasAdmitted, Seen, AllAdmitted, Admits
<1>7. DeclaredStands' /\ DeclaredHitSurvives' /\ ShortOfAnswer'
    BY <1>1 DEF DeclaredStands, DeclaredHitSurvives, ShortOfAnswer
<1>8. ShortMeansAll'
  <2>1. ToSet(vec.ids) \subseteq admitted
      BY DEF SearchInv, FoundWasAdmitted
  <2>2. writes = 0 => \A n \in ToSet(vec.ids) : graph.status[n] # Gone
      BY <1>1, <2>1, AdmittedNow, QueryFits DEF SearchInv, SearchTypeOK
  <2>3. writes = 0 => vec'.ids = vec.ids
      BY <1>3, <2>2
  <2> QED BY <1>1, <2>3 DEF SearchInv, ShortMeansAll
<1> QED BY <1>4, <1>5, <1>6, <1>7, <1>8 DEF SearchInv

\* What a list protects is in it.
LEMMA GuardingIsIn ==
    ASSUME NEW hits \in Seq(Nodes)
    PROVE  Guarding(hits) \subseteq ToSet(hits) /\ Guarding(hits) \subseteq Nodes
<1>1. Len(hits) \in Nat /\ DOMAIN hits = 1 .. Len(hits) /\ (hits # <<>> => Len(hits) # 0)
    BY LenProperties, EmptySeq
<1>2. hits # <<>> => 1 \in DOMAIN hits
    BY <1>1
<1>3. Guarding(hits) \subseteq ToSet(hits)
    BY <1>2 DEF Guarding, ToSet
<1> QED BY <1>3, MembersCount

\* A list of what may be returned joins the lexical arm's.
LEMMA ListInv ==
    ASSUME SearchInv, stage = "arms", lex.at # "done",
           UNCHANGED <<graph, query, fetch, vec, stage, seeds, fold, expansion, writes, admitted>>,
           lex' \in [at : {"nodes", "passages", "done"}, nodes : Seq(Nodes), passages : Seq(Nodes), guarded : SUBSET Nodes],
           IsInjective(lex'.nodes), IsInjective(lex'.passages),
           ToSet(lex'.nodes) \cup ToSet(lex'.passages) \subseteq admitted,
           lex'.guarded \subseteq ToSet(lex'.nodes) \cup ToSet(lex'.passages),
           lex'.at # "done" => lex'.passages = <<>>
    PROVE  SearchInv'
<1>1. SearchTypeOK'
    BY DEF SearchInv, SearchTypeOK, Ids
<1>2. ArmsFit'
    BY DEF SearchInv, ArmsFit
<1>3. FoundWasAdmitted'
    BY DEF SearchInv, FoundWasAdmitted, Seen, AllAdmitted, Admits
<1>4. DeclaredStands' /\ DeclaredHitSurvives' /\ ShortOfAnswer' /\ ShortMeansAll'
    BY DEF SearchInv, DeclaredStands, DeclaredHitSurvives, ShortOfAnswer, ShortMeansAll
<1> QED BY <1>1, <1>2, <1>3, <1>4 DEF SearchInv

LEMMA LexNodesInv == ASSUME SearchInv, LexNodes PROVE SearchInv'
<1> DEFINE hits == First(fetch, Matching(query.exact))
<1>1. /\ stage = "arms" /\ lex.at = "nodes"
      /\ lex' = [lex EXCEPT !.at = "passages", !.nodes = hits, !.guarded = Guarding(hits)]
      /\ UNCHANGED <<graph, query, fetch, vec, stage, seeds, fold, expansion, writes, admitted>>
    BY DEF LexNodes
<1>2. hits \in Seq(Nodes) /\ IsInjective(hits) /\ ToSet(hits) \subseteq AllAdmitted(graph, query)
  <2>1. query.exact \in Seq(Nodes) /\ IsInjective(query.exact) /\ fetch \in Nat
      BY QueryFits, LimitsAssumption DEF SearchInv, SearchTypeOK
  <2> QED BY <2>1, FirstAmong DEF Matching
<1> HIDE DEF hits
<1>3. lex \in [at : {"nodes", "passages", "done"}, nodes : Seq(Nodes), passages : Seq(Nodes), guarded : SUBSET Nodes]
      /\ IsInjective(lex.passages) /\ ToSet(lex.passages) \subseteq admitted /\ lex.passages = <<>>
    BY <1>1 DEF SearchInv, SearchTypeOK, ArmsFit, FoundWasAdmitted
<1>4. /\ lex'.nodes = hits /\ lex'.passages = lex.passages /\ lex'.guarded = Guarding(hits)
      /\ lex' = [at |-> "passages", nodes |-> hits, passages |-> lex.passages, guarded |-> Guarding(hits)]
    BY <1>1, <1>3
<1>5. Guarding(hits) \subseteq ToSet(hits) /\ Guarding(hits) \subseteq Nodes
    BY <1>2, GuardingIsIn
<1>6. lex' \in [at : {"nodes", "passages", "done"}, nodes : Seq(Nodes), passages : Seq(Nodes), guarded : SUBSET Nodes]
    BY <1>2, <1>3, <1>4, <1>5
<1>7. ToSet(hits) \subseteq admitted
    BY <1>1, <1>2, AdmittedNow
<1> QED BY <1>1, <1>2, <1>3, <1>4, <1>5, <1>6, <1>7, ListInv

LEMMA LexPassagesInv == ASSUME SearchInv, LexPassages PROVE SearchInv'
<1> DEFINE hits == Bridged(query.passage)
<1>1. /\ stage = "arms" /\ lex.at = "passages"
      /\ lex' = [lex EXCEPT !.at = "done", !.passages = hits, !.guarded = @ \cup Guarding(hits)]
      /\ UNCHANGED <<graph, query, fetch, vec, stage, seeds, fold, expansion, writes, admitted>>
    BY DEF LexPassages
<1>2. hits \in Seq(Nodes) /\ IsInjective(hits) /\ ToSet(hits) \subseteq AllAdmitted(graph, query)
  <2>1. query.passage \in Seq(Nodes) /\ IsInjective(query.passage)
      BY QueryFits DEF SearchInv, SearchTypeOK
  <2> QED BY <2>1, AmongOnce DEF Bridged, Matching
<1> HIDE DEF hits
<1>3. lex \in [at : {"nodes", "passages", "done"}, nodes : Seq(Nodes), passages : Seq(Nodes), guarded : SUBSET Nodes]
      /\ IsInjective(lex.nodes) /\ ToSet(lex.nodes) \cup ToSet(lex.passages) \subseteq admitted
      /\ lex.guarded \subseteq ToSet(lex.nodes)
    BY <1>1, NothingYet DEF SearchInv, SearchTypeOK, ArmsFit, FoundWasAdmitted
<1>4. /\ lex'.nodes = lex.nodes /\ lex'.passages = hits
      /\ lex'.guarded = lex.guarded \cup Guarding(hits)
      /\ lex' = [at |-> "done", nodes |-> lex.nodes, passages |-> hits, guarded |-> lex.guarded \cup Guarding(hits)]
    BY <1>1, <1>3
<1>5. Guarding(hits) \subseteq ToSet(hits) /\ Guarding(hits) \subseteq Nodes
    BY <1>2, GuardingIsIn
<1>6. lex' \in [at : {"nodes", "passages", "done"}, nodes : Seq(Nodes), passages : Seq(Nodes), guarded : SUBSET Nodes]
    BY <1>2, <1>3, <1>4, <1>5
<1>7. ToSet(hits) \subseteq admitted
    BY <1>1, <1>2, AdmittedNow
<1> QED BY <1>1, <1>2, <1>3, <1>4, <1>5, <1>6, <1>7, ListInv

\* The fusion's seeds: what it kept of the rankings and could still read.
LEMMA FuseEffect ==
    ASSUME SearchInv, FuseSeeds
    PROVE  /\ stage = "arms" /\ stage' = "fused" /\ vec.at = "done" /\ lex.at = "done"
           /\ UNCHANGED <<graph, query, fetch, vec, lex, fold, expansion, writes, admitted>>
           /\ seeds' \in Seq(Records) /\ IsInjective(Ids(seeds'))
           /\ ToSet(Ids(seeds')) \subseteq admitted
           /\ Standing(lex.guarded) \subseteq ToSet(Ids(seeds'))
           /\ (ToSet(vec.ids) = admitted /\ Len(vec.ids) < fetch) =>
                 ToSet(Ids(seeds')) = admitted /\ Len(seeds') < fetch
<1> DEFINE lists == ToSet(vec.ids) \cup ToSet(lex.nodes) \cup ToSet(lex.passages)
           order == Fused(<<vec.ids, lex.nodes, lex.passages>>, FusionLimit, lex.guarded)
           known == IdsOf(vec.nodes)
           now == {Read(n) : n \in Standing(ToSet(order) \ known)}
           nodes == vec.nodes \cup now
           found == Among(IdsOf(nodes), order)
<1>1. /\ stage = "arms" /\ stage' = "fused" /\ vec.at = "done" /\ lex.at = "done"
      /\ UNCHANGED <<graph, query, fetch, vec, lex, fold, expansion, writes, admitted>>
      /\ seeds' = [i \in DOMAIN found |-> CHOOSE r \in nodes : r.id = found[i]]
    BY DEF FuseSeeds
<1>2. /\ vec.ids \in Seq(Nodes) /\ vec.nodes \subseteq Records /\ IsInjective(vec.ids)
      /\ lex.nodes \in Seq(Nodes) /\ lex.passages \in Seq(Nodes)
      /\ lex.guarded \subseteq lists /\ lists \subseteq admitted
      /\ known \subseteq ToSet(vec.ids)
      /\ graph.status \in [Nodes -> Statuses]
    BY DEF SearchInv, SearchTypeOK, ArmsFit, FoundWasAdmitted
<1>3. known = ToSet(vec.ids)
  <2>1. vec.due = <<>> /\ known \cup ToSet(vec.due) = ToSet(vec.ids)
      BY <1>1 DEF SearchInv, SearchTypeOK, ArmsFit
  <2> QED BY <2>1, NothingYet
<1>4. fetch \in Nat /\ FusionLimit \in Nat /\ fetch <= FusionLimit
  <2>1. fetch \in Nat
      BY LimitsAssumption DEF SearchInv, SearchTypeOK
  <2>2. LineageOverfetch \in Nat \ {0}
      BY LimitsAssumption
  <2>3. fetch * LineageOverfetch \in Nat /\ fetch <= fetch * LineageOverfetch
      BY <2>1, <2>2
  <2> QED BY <2>1, <2>3 DEF FusionLimit
<1>5. /\ order \in Seq(Nodes) /\ IsInjective(order)
      /\ ToSet(order) \subseteq lists /\ lex.guarded \cap lists \subseteq ToSet(order)
      /\ Cardinality(lists) <= FusionLimit => ToSet(order) = lists
  <2>1. /\ vec.ids \in Seq(Nodes) /\ lex.nodes \in Seq(Nodes) /\ lex.passages \in Seq(Nodes)
        /\ FusionLimit \in Nat
      BY <1>2, <1>4
  <2>2. order = Fused(<<vec.ids, lex.nodes, lex.passages>>, FusionLimit, lex.guarded)
      OBVIOUS
  <2>3. lists = Found(<<vec.ids, lex.nodes, lex.passages>>)
      BY DEF Found
  <2> HIDE DEF order, lists
  <2> QED BY <2>1, <2>2, <2>3, FusedOnce
<1> HIDE DEF order, lists, known
<1>6. now \subseteq Records /\ IdsOf(now) = Standing(ToSet(order) \ known)
  <2>1. \A n \in ToSet(order) : n \in Nodes
      BY <1>5, MembersCount
  <2>2. \A n \in ToSet(order) : Read(n) \in Records /\ Read(n).id = n
      BY <1>2, <2>1 DEF Read, Records
  <2> QED BY <2>2 DEF Standing
<1>7. nodes \subseteq Records /\ IdsOf(nodes) = known \cup Standing(ToSet(order) \ known)
    BY <1>2, <1>6 DEF known
<1> HIDE DEF now, nodes
<1>8. /\ found \in Seq(Nodes) /\ IsInjective(found) /\ ToSet(found) = IdsOf(nodes) \cap ToSet(order)
      /\ Len(found) = Cardinality(IdsOf(nodes) \cap ToSet(order))
    BY <1>5, AmongOnce
<1> HIDE DEF found
<1>9. seeds' \in Seq(Records) /\ Ids(seeds') = found /\ Len(seeds') = Len(found)
  <2>1. Len(found) \in Nat /\ DOMAIN found = 1 .. Len(found)
      BY <1>8, LenProperties
  <2>2. \A i \in 1 .. Len(found) : \E r \in nodes : r.id = found[i]
    <3> TAKE i \in 1 .. Len(found)
    <3>1. found[i] \in IdsOf(nodes)
        BY <1>8, <2>1 DEF ToSet
    <3> QED BY <3>1
  <2>3. \A i \in 1 .. Len(found) : seeds'[i] \in nodes /\ seeds'[i].id = found[i]
      BY <1>1, <2>1, <2>2
  <2>4. seeds' \in [1 .. Len(found) -> Records] /\ DOMAIN seeds' = 1 .. Len(found)
      BY <1>1, <1>7, <2>1, <2>3
  <2>5. seeds' \in Seq(Records) /\ Len(seeds') = Len(found)
      BY <2>1, <2>4, SeqDef
  <2>6. Ids(seeds') \in Seq(Nodes) /\ Len(Ids(seeds')) = Len(found)
      BY <2>5, SeedsAre
  <2>7. \A i \in 1 .. Len(found) : Ids(seeds')[i] = found[i]
      BY <2>3, <2>4 DEF Ids
  <2>8. Ids(seeds') = found
      BY <1>8, <2>6, <2>7, SeqEqual
  <2> QED BY <2>5, <2>8
<1>10. ToSet(found) \subseteq admitted
    BY <1>2, <1>5, <1>8
<1>11. Standing(lex.guarded) \subseteq ToSet(found)
    BY <1>2, <1>5, <1>7, <1>8 DEF Standing
<1>12. ASSUME ToSet(vec.ids) = admitted, Len(vec.ids) < fetch
       PROVE  ToSet(found) = admitted /\ Len(found) < fetch
  <2>1. lists = ToSet(vec.ids)
      BY <1>2, <1>12 DEF lists
  <2>2. Cardinality(lists) = Len(vec.ids) /\ Len(vec.ids) \in Nat
      BY <1>2, <2>1, MembersCount, LenProperties
  <2>3. ToSet(order) = ToSet(vec.ids)
      BY <1>4, <1>5, <1>12, <2>1, <2>2
  <2>4. IdsOf(nodes) \cap ToSet(order) = ToSet(vec.ids)
      BY <1>3, <1>7, <2>3
  <2> QED BY <1>8, <1>12, <2>1, <2>2, <2>4
<1> QED BY <1>1, <1>8, <1>9, <1>10, <1>11, <1>12

LEMMA FuseSeedsInv == ASSUME SearchInv, FuseSeeds PROVE SearchInv'
<1>1. /\ stage = "arms" /\ stage' = "fused" /\ vec.at = "done" /\ lex.at = "done"
      /\ UNCHANGED <<graph, query, fetch, vec, lex, fold, expansion, writes, admitted>>
      /\ seeds' \in Seq(Records) /\ IsInjective(Ids(seeds'))
      /\ ToSet(Ids(seeds')) \subseteq admitted
      /\ Standing(lex.guarded) \subseteq ToSet(Ids(seeds'))
      /\ (ToSet(vec.ids) = admitted /\ Len(vec.ids) < fetch) =>
            ToSet(Ids(seeds')) = admitted /\ Len(seeds') < fetch
    BY FuseEffect
<1>2. SearchTypeOK'
    BY <1>1 DEF SearchInv, SearchTypeOK
<1>3. ArmsFit'
    BY <1>1 DEF SearchInv, ArmsFit
<1>4. Seen' \subseteq admitted
  <2>1. ToSet(Ids(seeds')) = IdsOf(ToSet(seeds'))
      BY <1>1, SeedsAre
  <2>2. Seen' = IdsOf(ToSet(seeds')) \cup IdsOf(expansion.nodes)
      BY <1>1 DEF Seen
  <2>3. IdsOf(expansion.nodes) \subseteq admitted
      BY DEF SearchInv, FoundWasAdmitted, Seen
  <2> QED BY <1>1, <2>1, <2>2, <2>3
<1>5. FoundWasAdmitted'
    BY <1>1, <1>4, AdmittedNow DEF SearchInv, FoundWasAdmitted, AllAdmitted, Admits
<1>6. DeclaredStands'
    BY <1>1 DEF DeclaredStands, Standing
<1>7. DeclaredHitSurvives' /\ ShortOfAnswer'
    BY <1>1 DEF DeclaredHitSurvives, ShortOfAnswer
<1>8. ShortMeansAll'
    BY <1>1 DEF SearchInv, ShortMeansAll
<1> QED BY <1>2, <1>3, <1>5, <1>6, <1>7, <1>8 DEF SearchInv

\* The cut keeps at most k and what is protected; a list shorter than k, whole.
LEMMA SurvivorsFit ==
    ASSUME NEW kept \in Seq(Records), IsInjective(Ids(kept)), fetch \in Nat,
           lex.guarded \subseteq Nodes
    PROVE  /\ Survivors(kept) \in Seq(Records) /\ IsInjective(Survivors(kept))
           /\ ToSet(Survivors(kept)) \subseteq ToSet(kept)
           /\ \A r \in ToSet(kept) : r.id \in lex.guarded => r \in ToSet(Survivors(kept))
           /\ Len(Survivors(kept)) <= fetch + Cardinality(lex.guarded)
           /\ Len(kept) <= fetch => ToSet(Survivors(kept)) = ToSet(kept)
<1> DEFINE best == ToSet(First(fetch, kept))
           rescued == {r \in ToSet(kept) : r.id \in lex.guarded}
           left == best \cup rescued
<1>1. /\ IsInjective(kept) /\ ToSet(kept) \subseteq Records
      /\ \A q, r \in ToSet(kept) : q.id = r.id => q = r
    BY SeedsAre
<1>2. /\ First(fetch, kept) \in Seq(Records) /\ IsInjective(First(fetch, kept))
      /\ best \subseteq ToSet(kept) /\ Len(First(fetch, kept)) <= fetch
      /\ Len(kept) <= fetch => best = ToSet(kept)
    BY <1>1, FirstOnce
<1>3. IsFiniteSet(best) /\ Cardinality(best) <= fetch /\ Cardinality(best) \in Nat
  <2>1. IsFiniteSet(best) /\ Cardinality(best) = Len(First(fetch, kept))
      BY <1>2, MembersCount
  <2> QED BY <1>2, <2>1, FS_CardinalityType
<1>4. IsFiniteSet(rescued) /\ Cardinality(rescued) <= Cardinality(lex.guarded)
      /\ Cardinality(rescued) \in Nat /\ Cardinality(lex.guarded) \in Nat
  <2> DEFINE f == [r \in rescued |-> r.id]
  <2>1. f \in Injection(rescued, lex.guarded)
      BY <1>1 DEF Injection, IsInjective
  <2>2. IsFiniteSet(lex.guarded)
      BY NodesAssumption, FS_Subset
  <2> QED BY <2>1, <2>2, FS_Injection, FS_CardinalityType
<1> HIDE DEF best
<1>5. Survivors(kept) = Among(left, kept) /\ left \subseteq ToSet(kept)
    BY <1>2 DEF Survivors, best
<1>6. /\ \A r \in ToSet(kept) : r.id \in lex.guarded => r \in left
      /\ Len(kept) <= fetch => left = ToSet(kept)
    BY <1>2
<1> HIDE DEF rescued
<1>7. Cardinality(left) <= fetch + Cardinality(lex.guarded)
  <2>1. Cardinality(left) = Cardinality(best) + Cardinality(rescued) - Cardinality(best \cap rescued)
      BY <1>3, <1>4, FS_Union
  <2>2. Cardinality(best \cap rescued) \in Nat
      BY <1>3, FS_Intersection, FS_CardinalityType
  <2> QED BY <1>3, <1>4, <2>1, <2>2
<1> HIDE DEF left
<1>8. left \cap ToSet(kept) = left
    BY <1>5
<1>9. /\ Among(left, kept) \in Seq(Records) /\ IsInjective(Among(left, kept))
      /\ ToSet(Among(left, kept)) = left /\ Len(Among(left, kept)) = Cardinality(left)
    BY <1>1, <1>8, AmongOnce
<1> QED BY <1>5, <1>6, <1>7, <1>9

\* Records apart by their ids stay so in any part of them.
LEMMA PartApart ==
    ASSUME NEW s \in Seq(Records), IsInjective(Ids(s)),
           NEW t \in Seq(Records), IsInjective(t), ToSet(t) \subseteq ToSet(s)
    PROVE  IsInjective(Ids(t))
<1>1. \A q, r \in ToSet(s) : q.id = r.id => q = r
    BY SeedsAre
<1>2. DOMAIN t = 1 .. Len(t) /\ Len(t) \in Nat
    BY LenProperties
<1>3. DOMAIN Ids(t) = 1 .. Len(t) /\ \A i \in 1 .. Len(t) : Ids(t)[i] = t[i].id
    BY <1>2 DEF Ids
<1>4. \A i \in 1 .. Len(t) : t[i] \in ToSet(s)
    BY <1>2 DEF ToSet
<1>5. \A i, j \in 1 .. Len(t) : t[i] = t[j] => i = j
    BY <1>2 DEF IsInjective
<1> QED BY <1>1, <1>3, <1>4, <1>5 DEF IsInjective

LEMMA CollapseEffect ==
    ASSUME SearchInv, CollapseLineage
    PROVE  /\ stage = "fused" /\ stage' = "collapsed"
           /\ UNCHANGED <<graph, query, fetch, vec, lex, expansion, writes, admitted>>
           /\ seeds' \in Seq(Records) /\ IsInjective(Ids(seeds')) /\ ToSet(seeds') \subseteq ToSet(seeds)
           /\ \A n \in ToSet(Ids(seeds)) : n \in lex.guarded => n \in ToSet(Ids(seeds'))
           /\ Len(seeds') <= fetch + Cardinality(lex.guarded)
           /\ Len(seeds) < fetch =>
                 ToSet(Ids(seeds)) \subseteq ToSet(Ids(seeds')) \cup {p[1].id : p \in fold'.pairs}
<1> DEFINE Keeps(r) == Foldable(r) => HostFor(r.id) = r.id
           keeping == {r \in ToSet(seeds) : Keeps(r)}
           kept == Among(keeping, seeds)
           pairs == {<<r, HostFor(r.id)>> : r \in {s \in ToSet(seeds) : ~Keeps(s)}}
<1>1. /\ stage = "fused" /\ stage' = "collapsed"
      /\ UNCHANGED <<graph, query, fetch, vec, lex, expansion, writes, admitted>>
      /\ seeds' = Survivors(kept) /\ fold'.pairs = pairs
    BY DEF CollapseLineage
<1>2. /\ seeds \in Seq(Records) /\ IsInjective(Ids(seeds)) /\ lex.guarded \subseteq Nodes /\ fetch \in Nat
    BY LimitsAssumption DEF SearchInv, SearchTypeOK
<1>3. IsInjective(seeds) /\ ToSet(Ids(seeds)) = IdsOf(ToSet(seeds))
    BY <1>2, SeedsAre
<1>4. \A r \in ToSet(seeds) : r.id \in lex.guarded => Keeps(r)
    BY DEF Foldable, Protected
<1> HIDE DEF Keeps
<1>5. \A r \in ToSet(seeds) : ~Keeps(r) => \E p \in pairs : p[1].id = r.id
  <2> SUFFICES ASSUME NEW r \in ToSet(seeds), ~Keeps(r)
               PROVE  \E p \in pairs : p[1].id = r.id
      OBVIOUS
  <2>1. <<r, HostFor(r.id)>> \in pairs
      OBVIOUS
  <2>2. <<r, HostFor(r.id)>>[1] = r
      OBVIOUS
  <2> HIDE DEF pairs
  <2> QED BY <2>1, <2>2
<1> HIDE DEF pairs
<1>6. /\ kept \in Seq(Records) /\ IsInjective(kept) /\ ToSet(kept) = keeping \cap ToSet(seeds)
      /\ Len(kept) <= Len(seeds)
    BY <1>2, <1>3, AmongOnce
<1> HIDE DEF kept
<1>7. ToSet(kept) = keeping
    BY <1>6
<1>8. IsInjective(Ids(kept))
    BY <1>2, <1>6, PartApart
<1>9. /\ seeds' \in Seq(Records) /\ IsInjective(seeds') /\ ToSet(seeds') \subseteq ToSet(kept)
      /\ \A r \in ToSet(kept) : r.id \in lex.guarded => r \in ToSet(seeds')
      /\ Len(seeds') <= fetch + Cardinality(lex.guarded)
      /\ Len(kept) <= fetch => ToSet(seeds') = ToSet(kept)
    BY <1>1, <1>2, <1>6, <1>8, SurvivorsFit
<1>10. ToSet(seeds') \subseteq ToSet(seeds)
    BY <1>7, <1>9
<1>11. IsInjective(Ids(seeds'))
    BY <1>2, <1>9, <1>10, PartApart
<1>12. ToSet(Ids(seeds')) = IdsOf(ToSet(seeds'))
    BY <1>9, SeedsAre
<1>13. \A n \in ToSet(Ids(seeds)) : n \in lex.guarded => n \in ToSet(Ids(seeds'))
    BY <1>3, <1>4, <1>7, <1>9, <1>12
<1>14. ASSUME Len(seeds) < fetch, NEW n \in ToSet(Ids(seeds))
       PROVE  n \in ToSet(Ids(seeds')) \cup {p[1].id : p \in fold'.pairs}
  <2>1. PICK r \in ToSet(seeds) : r.id = n
      BY <1>3
  <2>2. Len(kept) <= fetch
    <3>1. Len(kept) \in Nat /\ Len(seeds) \in Nat
        BY <1>2, <1>6, LenProperties
    <3> QED BY <1>2, <1>6, <1>14, <3>1
  <2>3. CASE Keeps(r)
      BY <1>7, <1>9, <1>12, <2>1, <2>2, <2>3
  <2>4. CASE ~Keeps(r)
      BY <1>1, <1>5, <2>1, <2>4
  <2> QED BY <2>3, <2>4
<1> QED BY <1>1, <1>9, <1>10, <1>11, <1>13, <1>14

LEMMA CollapseLineageInv == ASSUME SearchInv, CollapseLineage PROVE SearchInv'
<1>1. /\ stage = "fused" /\ stage' = "collapsed"
      /\ UNCHANGED <<graph, query, fetch, vec, lex, expansion, writes, admitted>>
      /\ seeds' \in Seq(Records) /\ IsInjective(Ids(seeds')) /\ ToSet(seeds') \subseteq ToSet(seeds)
      /\ \A n \in ToSet(Ids(seeds)) : n \in lex.guarded => n \in ToSet(Ids(seeds'))
      /\ Len(seeds') <= fetch + Cardinality(lex.guarded)
      /\ Len(seeds) < fetch =>
            ToSet(Ids(seeds)) \subseteq ToSet(Ids(seeds')) \cup {p[1].id : p \in fold'.pairs}
    BY CollapseEffect
<1>2. SearchTypeOK'
    BY <1>1 DEF SearchInv, SearchTypeOK
<1>3. ArmsFit'
    BY <1>1 DEF SearchInv, ArmsFit
<1>4. Seen' \subseteq Seen
    BY <1>1 DEF Seen
<1>5. FoundWasAdmitted'
    BY <1>1, <1>4 DEF SearchInv, FoundWasAdmitted, AllAdmitted, Admits
<1>6. DeclaredStands' /\ ShortOfAnswer'
    BY <1>1 DEF DeclaredStands, ShortOfAnswer
<1>7. DeclaredHitSurvives'
  <2>1. Standing(lex.guarded) \subseteq ToSet(Ids(seeds))
      BY <1>1 DEF SearchInv, DeclaredStands
  <2>2. Standing(lex.guarded) \subseteq ToSet(Ids(seeds'))
      BY <1>1, <2>1 DEF Standing
  <2> QED BY <1>1, <2>2 DEF DeclaredHitSurvives, Standing
<1>8. ShortMeansAll'
    BY <1>1 DEF SearchInv, ShortMeansAll
<1> QED BY <1>2, <1>3, <1>5, <1>6, <1>7, <1>8 DEF SearchInv

LEMMA ReadEdgesInv == ASSUME SearchInv, ReadEdges PROVE SearchInv'
<1>1. /\ stage = "collapsed" /\ stage' = "expanding"
      /\ UNCHANGED <<graph, query, fetch, vec, lex, seeds, fold, writes, admitted>>
      /\ expansion'.nodes = {}
      /\ expansion' \in [nodes : SUBSET Records, due : SUBSET query.links, unstamped : SUBSET Records]
    BY DEF ReadEdges, Unexpanded
<1>2. SearchTypeOK'
    BY <1>1 DEF SearchInv, SearchTypeOK, Ids
<1>3. ArmsFit'
    BY <1>1 DEF SearchInv, ArmsFit
<1>4. Seen' \subseteq Seen
    BY <1>1 DEF Seen
<1>5. FoundWasAdmitted'
    BY <1>1, <1>4 DEF SearchInv, FoundWasAdmitted, AllAdmitted, Admits
<1>6. DeclaredStands' /\ DeclaredHitSurvives' /\ ShortOfAnswer'
    BY <1>1 DEF DeclaredStands, DeclaredHitSurvives, ShortOfAnswer
<1>7. ShortMeansAll'
    BY <1>1 DEF SearchInv, ShortMeansAll, Ids
<1> QED BY <1>2, <1>3, <1>5, <1>6, <1>7 DEF SearchInv

\* A neighbour followed to is current, and what is current may be returned.
LEMMA FollowEdgeInv == ASSUME SearchInv, FollowEdge PROVE SearchInv'
<1>1. PICK e \in expansion.due :
         expansion' = [expansion EXCEPT !.nodes = @ \cup {Read(n) : n \in {m \in e \ Seen : Follows(m)}},
                                        !.due = @ \ {e}]
    BY DEF FollowEdge
<1> DEFINE more == {Read(n) : n \in {m \in e \ Seen : Follows(m)}}
<1>2. /\ stage = "expanding"
      /\ UNCHANGED <<graph, query, fetch, vec, lex, stage, seeds, fold, writes, admitted>>
    BY DEF FollowEdge
<1>3. /\ expansion \in [nodes : SUBSET Records, due : SUBSET query.links, unstamped : SUBSET Records]
      /\ e \subseteq Nodes /\ graph.status \in [Nodes -> Statuses] /\ "active" \in query.statuses
    BY QueryFits DEF SearchInv, SearchTypeOK
<1>4. \A n \in {m \in e \ Seen : Follows(m)} : Read(n) \in Records /\ Read(n).id = n /\ n \in admitted
  <2> SUFFICES ASSUME NEW n \in e, graph.status[n] = "active"
               PROVE  Read(n) \in Records /\ Read(n).id = n /\ n \in admitted
      BY DEF Follows
  <2>1. n \in AllAdmitted(graph, query)
      BY <1>3 DEF AllAdmitted, Admits
  <2>2. Read(n) \in Records /\ Read(n).id = n
      BY <1>3 DEF Read, Records
  <2> QED BY <1>2, <2>1, <2>2, AdmittedNow
<1>5. more \subseteq Records /\ IdsOf(more) \subseteq admitted
    BY <1>4
<1> HIDE DEF more
<1>6. /\ expansion'.nodes = expansion.nodes \cup more
      /\ expansion' = [nodes |-> expansion.nodes \cup more, due |-> expansion.due \ {e},
                       unstamped |-> expansion.unstamped]
    BY <1>1, <1>3 DEF more
<1>7. expansion' \in [nodes : SUBSET Records, due : SUBSET query.links, unstamped : SUBSET Records]
    BY <1>3, <1>5, <1>6
<1>8. SearchTypeOK'
    BY <1>2, <1>7 DEF SearchInv, SearchTypeOK, Ids
<1>9. ArmsFit'
    BY <1>2 DEF SearchInv, ArmsFit
<1>10. Seen' \subseteq admitted
  <2>1. Seen' = Seen \cup IdsOf(more)
      BY <1>2, <1>6 DEF Seen
  <2> QED BY <1>5, <2>1 DEF SearchInv, FoundWasAdmitted
<1>11. FoundWasAdmitted'
    BY <1>2, <1>10 DEF SearchInv, FoundWasAdmitted, AllAdmitted, Admits
<1>12. DeclaredStands' /\ DeclaredHitSurvives' /\ ShortOfAnswer'
    BY <1>2 DEF DeclaredStands, DeclaredHitSurvives, ShortOfAnswer
<1>13. ShortMeansAll'
    BY <1>2 DEF SearchInv, ShortMeansAll, Ids
<1> QED BY <1>8, <1>9, <1>11, <1>12, <1>13 DEF SearchInv

LEMMA AnswerInv == ASSUME SearchInv, Answer PROVE SearchInv'
<1>1. /\ stage = "expanding" /\ stage' = "answered" /\ Enough
      /\ UNCHANGED <<graph, query, fetch, vec, lex, seeds, fold, writes, admitted>>
      /\ expansion' = [expansion EXCEPT !.unstamped = InScope]
    BY DEF Answer
<1>2. /\ expansion \in [nodes : SUBSET Records, due : SUBSET query.links, unstamped : SUBSET Records]
      /\ seeds \in Seq(Records)
    BY DEF SearchInv, SearchTypeOK
<1>3. InScope \subseteq Records
    BY <1>2, SeedsAre DEF InScope
<1>4. /\ expansion'.nodes = expansion.nodes
      /\ expansion' \in [nodes : SUBSET Records, due : SUBSET query.links, unstamped : SUBSET Records]
    BY <1>1, <1>2, <1>3
<1>5. SearchTypeOK'
    BY <1>1, <1>4 DEF SearchInv, SearchTypeOK, Ids
<1>6. ArmsFit'
    BY <1>1 DEF SearchInv, ArmsFit
<1>7. FoundWasAdmitted'
    BY <1>1, <1>4 DEF SearchInv, FoundWasAdmitted, Seen
<1>8. DeclaredStands' /\ DeclaredHitSurvives'
    BY <1>1 DEF DeclaredStands, DeclaredHitSurvives
<1>9. ShortMeansAll'
    BY <1>1 DEF SearchInv, ShortMeansAll, Ids
<1>10. ShortOfAnswer'
  <2>1. InScope' = InScope /\ Scoped' = Scoped
      BY <1>1, <1>4 DEF InScope, Scoped
  <2>2. IsFiniteSet(InScope) /\ Cardinality(InScope) \in Nat /\ fetch \in Nat
    <3>1. IsFiniteSet(InScope)
      <4>1. IsFiniteSet(Records)
        <5>1. IsFiniteSet(Statuses)
          <6>1. IsFiniteSet({"historical"} \cup {"corrected"} \cup {"active"} \cup {Gone})
              BY FS_Singleton, FS_Union
          <6>2. Statuses = {"historical"} \cup {"corrected"} \cup {"active"} \cup {Gone}
              BY DEF Statuses, Reachable, SupersededStatuses
          <6> QED BY <6>1, <6>2
        <5>2. IsFiniteSet(Nodes \X Statuses)
            BY <5>1, NodesAssumption, FS_Product
        <5> DEFINE f == [p \in Nodes \X Statuses |-> [id |-> p[1], status |-> p[2]]]
        <5>3. f \in Surjection(Nodes \X Statuses, Records)
          <6>1. f \in [Nodes \X Statuses -> Records]
              BY DEF Records
          <6>2. ASSUME NEW r \in Records
                PROVE  \E p \in Nodes \X Statuses : f[p] = r
            <7>1. <<r.id, r.status>> \in Nodes \X Statuses /\ r = [id |-> r.id, status |-> r.status]
                BY DEF Records
            <7>2. f[<<r.id, r.status>>] = r
                BY <7>1
            <7> HIDE DEF f
            <7> QED BY <7>1, <7>2
          <6> QED BY <6>1, <6>2 DEF Surjection
        <5> QED BY <5>2, <5>3, FS_Surjection
      <4> QED BY <1>3, <4>1, FS_Subset
    <3> QED BY <3>1, LimitsAssumption, FS_CardinalityType DEF SearchInv, SearchTypeOK
  <2>3. (Scoped /\ Cardinality(InScope) < K /\ fetch < MaxK) => Len(vec.ids) < fetch
      BY <1>1, <2>2, LimitsAssumption DEF Enough
  <2> QED BY <1>1, <2>1, <2>3 DEF ShortOfAnswer
<1> QED BY <1>5, <1>6, <1>7, <1>8, <1>9, <1>10 DEF SearchInv

LEMMA WidenInv == ASSUME SearchInv, Widen PROVE SearchInv'
<1>1. /\ vec' = Unsought /\ lex' = Unread /\ stage' = "arms" /\ stage = "expanding"
      /\ seeds' = <<>> /\ fold' = Unfolded /\ expansion' = Unexpanded
      /\ UNCHANGED <<graph, query, writes, admitted>> /\ fetch' = Min({fetch * 2, MaxK})
    BY DEF Widen
<1>2. fetch' \in 1 .. MaxK
  <2>1. fetch * 2 \in Nat \ {0} /\ MaxK \in Nat \ {0}
      BY LimitsAssumption DEF SearchInv, SearchTypeOK
  <2>2. fetch' = IF fetch * 2 < MaxK THEN fetch * 2 ELSE MaxK
      BY <1>1, <2>1, LeastOfTwo
  <2> QED BY <2>1, <2>2
<1>3. SearchTypeOK'
    BY <1>1, <1>2, ArmsAfresh DEF SearchInv, SearchTypeOK
<1>4. FoundWasAdmitted'
    BY <1>1, ArmsAfresh, AdmittedNow DEF FoundWasAdmitted, AllAdmitted, Admits
<1> QED BY <1>1, <1>3, <1>4, ArmsAfresh DEF SearchInv

LEMMA StampNodeInv == ASSUME SearchInv, StampNode PROVE SearchInv'
<1>1. /\ stage = "answered"
      /\ UNCHANGED <<query, fetch, vec, lex, stage, seeds, fold, writes, admitted>>
    BY DEF StampNode
<1>2. PICK r \in expansion.unstamped :
         /\ expansion' = [expansion EXCEPT !.unstamped = @ \ {r}]
         /\ graph' = [graph EXCEPT !.status[r.id] = r.status]
    BY DEF StampNode
<1>3. expansion \in [nodes : SUBSET Records, due : SUBSET query.links, unstamped : SUBSET Records]
    BY DEF SearchInv, SearchTypeOK
<1>4. /\ expansion' \in [nodes : SUBSET Records, due : SUBSET query.links, unstamped : SUBSET Records]
      /\ expansion'.nodes = expansion.nodes /\ r.id \in Nodes /\ r.status \in Statuses
    BY <1>2, <1>3 DEF Records
<1>5. graph' \in [status : [Nodes -> Statuses], lineage : SUBSET (Nodes \X Nodes)]
    BY <1>2, <1>4 DEF SearchInv, SearchTypeOK
<1>6. SearchTypeOK'
    BY <1>1, <1>4, <1>5 DEF SearchInv, SearchTypeOK, Ids
<1>7. ArmsFit'
    BY <1>1 DEF SearchInv, ArmsFit
<1>8. FoundWasAdmitted'
    BY <1>1, <1>4 DEF SearchInv, FoundWasAdmitted, Seen
<1>9. DeclaredStands' /\ DeclaredHitSurvives'
    BY <1>1 DEF DeclaredStands, DeclaredHitSurvives
<1>10. ShortMeansAll'
    BY <1>1 DEF SearchInv, ShortMeansAll, Ids
<1>11. ShortOfAnswer'
    BY <1>1, <1>4 DEF SearchInv, ShortOfAnswer, InScope, Scoped
<1> QED BY <1>6, <1>7, <1>8, <1>9, <1>10, <1>11 DEF SearchInv

LEMMA WriteBesideInv == ASSUME SearchInv, WriteBeside PROVE SearchInv'
<1>1. /\ stage # "before" /\ writes < MaxWrites /\ writes' = writes + 1
      /\ UNCHANGED <<query, fetch, vec, lex, stage, seeds, fold, expansion>>
    BY DEF WriteBeside
<1>2. PICK g \in After(graph) : graph' = g /\ admitted' = admitted \cup AllAdmitted(g, query)
    BY DEF WriteBeside
<1>3. /\ graph' \in [status : [Nodes -> Statuses], lineage : SUBSET (Nodes \X Nodes)]
      /\ \A n \in Nodes : graph.status[n] = Gone => graph'.status[n] = Gone
    BY <1>2, AfterKeeps DEF SearchInv, SearchTypeOK
<1>4. writes \in Nat /\ writes' \in Nat /\ writes' # 0 /\ writes' <= MaxWrites
    BY <1>1, LimitsAssumption DEF SearchInv, SearchTypeOK
<1>5. admitted \subseteq admitted' /\ admitted' \subseteq Nodes
    BY <1>2 DEF SearchInv, SearchTypeOK, AllAdmitted
<1>6. SearchTypeOK'
    BY <1>1, <1>3, <1>4, <1>5 DEF SearchInv, SearchTypeOK, Ids
<1>7. ArmsFit'
    BY <1>1 DEF SearchInv, ArmsFit
<1>8. AllAdmitted(graph, query)' \subseteq admitted'
    BY <1>1, <1>2 DEF AllAdmitted, Admits
<1>9. FoundWasAdmitted'
    BY <1>1, <1>4, <1>5, <1>8 DEF SearchInv, FoundWasAdmitted, Seen
<1>10. Standing(lex.guarded)' \subseteq Standing(lex.guarded)
    BY <1>1, <1>3 DEF SearchInv, SearchTypeOK, Standing
<1>11. DeclaredStands' /\ DeclaredHitSurvives'
    BY <1>1, <1>10 DEF SearchInv, DeclaredStands, DeclaredHitSurvives, Ids
<1>12. ShortMeansAll'
    BY <1>4 DEF ShortMeansAll
<1>13. ShortOfAnswer'
    BY <1>1 DEF SearchInv, ShortOfAnswer, InScope, Scoped
<1> QED BY <1>6, <1>7, <1>9, <1>11, <1>12, <1>13 DEF SearchInv

LEMMA SearchNextInv == SearchInv /\ [SearchNext]_searchVars => SearchInv'
<1> SUFFICES ASSUME SearchInv, [SearchNext]_searchVars PROVE SearchInv'
    OBVIOUS
<1>1. CASE UNCHANGED searchVars
  <2>1. UNCHANGED <<graph, query, fetch, vec, lex, stage, seeds, fold, expansion, writes, admitted>>
      BY <1>1 DEF searchVars
  <2>2. SearchTypeOK' /\ ArmsFit'
      BY <2>1 DEF SearchInv, SearchTypeOK, ArmsFit, Ids
  <2>3. FoundWasAdmitted'
      BY <2>1 DEF SearchInv, FoundWasAdmitted, Seen, AllAdmitted, Admits
  <2>4. DeclaredStands' /\ DeclaredHitSurvives'
      BY <2>1 DEF SearchInv, DeclaredStands, DeclaredHitSurvives, Standing, Ids
  <2>5. ShortMeansAll'
      BY <2>1 DEF SearchInv, ShortMeansAll, Ids
  <2>6. ShortOfAnswer'
      BY <2>1 DEF SearchInv, ShortOfAnswer, InScope, Scoped
  <2> QED BY <2>2, <2>3, <2>4, <2>5, <2>6 DEF SearchInv
<1>2. CASE SearchNext
    BY <1>2, WriteBeforeInv, BeginSearchInv, VectorFindInv, VectorFetchInv, LexNodesInv, LexPassagesInv,
       FuseSeedsInv, CollapseLineageInv, ReadEdgesInv, FollowEdgeInv, AnswerInv, WidenInv, StampNodeInv,
       WriteBesideInv DEF SearchNext
<1> QED BY <1>1, <1>2

LEMMA SearchInvHolds == SearchSpec => []SearchInv
BY SearchInitInv, SearchNextInv, PTL DEF SearchSpec

\* What a search returns was, at some moment of it, a node it might return
\* (hybrid_retrieval.py, graph_expansion.py), whatever is written beside it.
THEOREM AnswersAreSound == SearchSpec => []AnswerIsSound
<1>1. SearchInv => AnswerIsSound
    BY DEF SearchInv, FoundWasAdmitted, AnswerIsSound, GatedWhenFound
<1> QED BY <1>1, SearchInvHolds, PTL

\* The best hit for a term the caller declared is in the result, past the fusion, the
\* fold and both cuts (fusion.py, hybrid_retrieval.py), unless the node is gone; and
\* the result passes k by no more than such hits.
THEOREM DeclaredHitsSurvive == SearchSpec => []DeclaredHitSurvives
<1>1. SearchInv => DeclaredHitSurvives
    BY DEF SearchInv
<1> QED BY <1>1, SearchInvHolds, PTL

\* A scoped search that comes back short, below its ceiling and with nothing written
\* beside it, has returned all there was, but for what is folded into a successor
\* (_retrieve_metacontext_scoped).
THEOREM ScopesAreSearchedThrough == SearchSpec => []ScopeIsSearchedThrough
<1>1. ASSUME SearchInv PROVE ScopeIsSearchedThrough
  <2> SUFFICES ASSUME stage = "answered", Scoped, writes = 0, fetch < MaxK, Cardinality(InScope) < K
               PROVE  query.scope \cap admitted \subseteq IdsOf(InScope) \cup {p[1].id : p \in fold.pairs}
      BY DEF ScopeIsSearchedThrough
  <2>1. Len(vec.ids) < fetch /\ vec.at # "find"
      BY <1>1 DEF SearchInv, ShortOfAnswer, ArmsFit
  <2>2. admitted \subseteq ToSet(Ids(seeds)) \cup {p[1].id : p \in fold.pairs}
      BY <1>1, <2>1 DEF SearchInv, ShortMeansAll
  <2>3. ToSet(Ids(seeds)) = IdsOf(ToSet(seeds))
      BY <1>1, SeedsAre DEF SearchInv, SearchTypeOK
  <2>4. query.scope \cap ToSet(Ids(seeds)) \subseteq IdsOf(InScope)
      BY <2>3 DEF InScope
  <2> QED BY <2>2, <2>4
<1> QED BY <1>1, SearchInvHolds, PTL

--------------------------------------------------------------------------------
(* The fold of retired versions.                                                *)

LEMMA LeastNat ==
    ASSUME NEW T \in SUBSET Nat, T # {}
    PROVE  \E t \in T : \A u \in T : t <= u
<1> DEFINE R == OpToRel(<, Nat)
<1>1. IsWellFoundedOn(R, Nat)
    BY NatLessThanWellFounded
<1>2. \A u, t \in Nat : u < t => <<u, t>> \in R
    BY DEF OpToRel
<1> HIDE DEF R
<1>3. PICK t \in T : \A u \in T : <<u, t>> \notin R
    BY <1>1, WFMin
<1>4. \A u \in T : t <= u
  <2> SUFFICES ASSUME NEW u \in T
               PROVE  t <= u
      OBVIOUS
  <2>1. u \in Nat /\ t \in Nat /\ ~(u < t)
      BY <1>2, <1>3
  <2> QED BY <2>1
<1> QED BY <1>4

\* What has a member outside it, going up from m, has a first one.
LEMMA UpFrom ==
    ASSUME NEW m \in Int, NEW n \in Int, NEW S,
           m \in S, \A i \in m .. n - 1 : i \in S => i + 1 \in S
    PROVE  \A i \in m .. n : i \in S
<1> SUFFICES ASSUME NEW i \in m .. n, i \notin S
             PROVE  FALSE
    OBVIOUS
<1> DEFINE T == {k \in Nat : m + k <= n /\ m + k \notin S}
<1>1. i - m \in T
    OBVIOUS
<1>2. T \in SUBSET Nat
    OBVIOUS
<1>3. PICK k \in T : \A u \in T : k <= u
    BY <1>1, <1>2, LeastNat
<1>4. k # 0
    BY <1>3
<1>5. k - 1 \in Nat /\ ~(k <= k - 1)
    BY <1>3, <1>4
<1>6. k - 1 \notin T
    BY <1>3, <1>5
<1>7. m + (k - 1) \in m .. n - 1 /\ m + (k - 1) \in S
    BY <1>3, <1>5, <1>6
<1>8. m + (k - 1) + 1 = m + k
    BY <1>3
<1>9. m + k \in S
    BY <1>7, <1>8
<1> QED BY <1>3, <1>9

\* f takes the step again and again, from a.
Repeats(f, X, a, step) ==
    f \in [Nat -> X] /\ f[0] = a /\ \A i \in Nat : f[i + 1] = step[f[i]]

\* A step can be taken any number of times.
LEMMA StepsExist ==
    ASSUME NEW X, NEW a \in X, NEW step \in [X -> X]
    PROVE  \E f : Repeats(f, X, a, step)
<1> DEFINE Upto(m, g) == /\ g \in [0 .. m -> X] /\ g[0] = a
                         /\ \A i \in 0 .. m - 1 : g[i + 1] = step[g[i]]
           S == {m \in Nat : \E g : Upto(m, g)}
<1>1. \A m \in Nat : m \in S
  <2>1. 0 \in S
    <3>1. Upto(0, [i \in 0 .. 0 |-> a])
        OBVIOUS
    <3> QED BY <3>1
  <2>2. \A m \in Nat : m \in S => m + 1 \in S
    <3> HIDE DEF S
    <3> SUFFICES ASSUME NEW m \in Nat, m \in S
                 PROVE  m + 1 \in S
        OBVIOUS
    <3>1. PICK g : Upto(m, g)
        BY DEF S
    <3> DEFINE h == [i \in 0 .. m + 1 |-> IF i <= m THEN g[i] ELSE step[g[m]]]
    <3>2. g[m] \in X /\ \A i \in 0 .. m : g[i] \in X
        BY <3>1
    <3>3. h \in [0 .. m + 1 -> X]
        BY <3>2
    <3>4. h[0] = a
        BY <3>1
    <3>5. \A i \in 0 .. (m + 1) - 1 : h[i + 1] = step[h[i]]
      <4> SUFFICES ASSUME NEW i \in 0 .. m
                   PROVE  h[i + 1] = step[h[i]]
          OBVIOUS
      <4>1. CASE i = m
          BY <4>1
      <4>2. CASE i # m
        <5>1. i \in 0 .. m - 1 /\ i + 1 <= m /\ i <= m
            BY <4>2
        <5> QED BY <3>1, <5>1
      <4> QED BY <4>1, <4>2
    <3> HIDE DEF h
    <3>6. Upto(m + 1, h)
        BY <3>3, <3>4, <3>5
    <3> QED BY <3>6 DEF S
  <2> HIDE DEF S
  <2> SUFFICES ASSUME NEW m \in Nat
               PROVE  m \in S
      OBVIOUS
  <2>3. \A i \in 0 .. m : i \in S
      BY <2>1, <2>2, UpFrom
  <2> QED BY <2>3
<1>2. ASSUME NEW m \in Nat, NEW n \in Nat, m <= n, NEW g, Upto(m, g), NEW h, Upto(n, h)
      PROVE  \A i \in 0 .. m : g[i] = h[i]
  <2> DEFINE E == {i \in 0 .. m : g[i] = h[i]}
  <2>1. 0 \in E
      BY <1>2
  <2>2. \A i \in 0 .. m - 1 : i \in E => i + 1 \in E
      BY <1>2
  <2> HIDE DEF E
  <2>3. \A i \in 0 .. m : i \in E
      BY <2>1, <2>2, UpFrom
  <2> QED BY <2>3 DEF E
<1> DEFINE G == [m \in Nat |-> CHOOSE g : Upto(m, g)]
           f == [m \in Nat |-> G[m][m]]
<1>3. \A m \in Nat : Upto(m, G[m])
    BY <1>1
<1> HIDE DEF G
<1>4. \A m \in Nat : G[m][m] \in X /\ G[m + 1][m + 1] = step[G[m][m]]
  <2> SUFFICES ASSUME NEW m \in Nat
               PROVE  G[m][m] \in X /\ G[m + 1][m + 1] = step[G[m][m]]
      OBVIOUS
  <2>1. Upto(m, G[m]) /\ Upto(m + 1, G[m + 1]) /\ m + 1 \in Nat /\ m <= m + 1
      BY <1>3
  <2>2. G[m + 1][m + 1] = step[G[m + 1][m]]
      BY <2>1
  <2>3. G[m][m] = G[m + 1][m] /\ G[m][m] \in X
    <3>1. \A i \in 0 .. m : G[m][i] = G[m + 1][i]
      <4> HIDE DEF Upto
      <4> QED BY <1>2, <2>1
    <3> QED BY <2>1, <3>1
  <2> QED BY <2>2, <2>3
<1>5. f \in [Nat -> X]
    BY <1>4
<1>6. f[0] = a
    BY <1>3
<1>7. \A i \in Nat : f[i + 1] = step[f[i]]
    BY <1>4
<1> HIDE DEF f
<1> QED BY <1>5, <1>6, <1>7 DEF Repeats

\* The best of a set is in it.
LEMMA BestIsIn ==
    ASSUME NEW S, NEW s \in Seq(Nodes), S # {}, S \subseteq ToSet(s)
    PROVE  BestOf(S, s) \in S
<1>1. \A x \in S : Place(x, s) \in Nat
  <2>1. DOMAIN s = 1 .. Len(s) /\ Len(s) \in Nat
      BY LenProperties
  <2>2. \A x \in ToSet(s) : Place(x, s) \in DOMAIN s
      BY DEF ToSet, Place
  <2> QED BY <2>1, <2>2
<1> DEFINE T == {Place(x, s) : x \in S}
<1>2. T \in SUBSET Nat /\ T # {}
    BY <1>1
<1>3. PICK t \in T : \A u \in T : t <= u
    BY <1>2, LeastNat
<1>4. \E x \in S : \A y \in S : Place(x, s) <= Place(y, s)
    BY <1>3
<1> QED BY <1>4 DEF BestOf

\* The walks a retired version may take: along lineage between seeds, to no node twice,
\* past no protected one.
Paths(n) ==
    {p \in Seq(Nodes) :
        /\ Len(p) >= 1 /\ p[1] = n /\ IsInjective(p) /\ ToSet(p) \subseteq ToSet(Ids(seeds))
        /\ \A i \in 1 .. Len(p) - 1 : p[i + 1] \in Successors(p[i])
        /\ \A i \in 2 .. Len(p) - 1 : p[i] \notin Protected}

Stopped(p) ==
    \/ Successors(p[Len(p)]) \subseteq ToSet(p)
    \/ Len(p) > 1 /\ p[Len(p)] \in Protected

LEMMA OnwardFits ==
    ASSUME seeds \in Seq(Records), NEW n, NEW p \in Paths(n)
    PROVE  /\ Onward(p) \in Paths(n)
           /\ Stopped(p) => Onward(p) = p
           /\ ~Stopped(p) => Len(Onward(p)) = Len(p) + 1
<1>1. /\ p \in Seq(Nodes) /\ Len(p) \in Nat /\ DOMAIN p = 1 .. Len(p)
      /\ Len(p) >= 1 /\ p[1] = n /\ IsInjective(p) /\ ToSet(p) \subseteq ToSet(Ids(seeds))
      /\ \A i \in 1 .. Len(p) - 1 : p[i + 1] \in Successors(p[i])
      /\ \A i \in 2 .. Len(p) - 1 : p[i] \notin Protected
    BY LenProperties DEF Paths
<1>0. Len(p) \in Nat /\ Len(p) >= 1
    BY <1>1
<1> DEFINE last == p[Len(p)]
           ahead == Successors(last) \ ToSet(p)
           b == BestOf(ahead, Ids(seeds))
<1>2. CASE Stopped(p)
  <2>1. ahead = {} \/ (Len(p) > 1 /\ last \in Protected)
      BY <1>2 DEF Stopped
  <2>2. Onward(p) = p
      BY <2>1 DEF Onward
  <2> QED BY <1>2, <2>2
<1>3. CASE ~Stopped(p)
  <2>1. ahead # {} /\ ~(Len(p) > 1 /\ last \in Protected)
      BY <1>3 DEF Stopped
  <2>2. Onward(p) = Append(p, b)
      BY <2>1 DEF Onward
  <2>3. Ids(seeds) \in Seq(Nodes) /\ ToSet(Ids(seeds)) \subseteq Nodes
      BY SeedsAre, MembersCount
  <2>4. ahead \subseteq ToSet(Ids(seeds))
      BY DEF Successors
  <2>5. b \in ahead
    <3> HIDE DEF ahead
    <3> QED BY <2>1, <2>3, <2>4, BestIsIn
  <2>6. b \in Successors(last) /\ b \notin ToSet(p) /\ b \in Nodes /\ b \in ToSet(Ids(seeds))
      BY <2>3, <2>4, <2>5
  <2> HIDE DEF b, ahead
  <2> DEFINE q == Append(p, b)
  <2>7. /\ q \in Seq(Nodes) /\ Len(q) = Len(p) + 1
        /\ \A i \in 1 .. Len(p) : q[i] = p[i]
        /\ q[Len(p) + 1] = b
      BY <1>1, <2>6, AppendProperties
  <2>8. DOMAIN q = 1 .. Len(p) + 1
      BY <2>7, LenProperties
  <2> HIDE DEF q
  <2>9. IsInjective(q)
    <3>1. \A i \in 1 .. Len(p) : p[i] # b
        BY <1>1, <2>6 DEF ToSet
    <3>2. \A i, j \in 1 .. Len(p) : p[i] = p[j] => i = j
        BY <1>1 DEF IsInjective
    <3>3. \A i \in 1 .. Len(p) + 1 : i \in 1 .. Len(p) \/ i = Len(p) + 1
        BY <1>1
    <3>4. q[Len(p) + 1] = b
        BY <1>1, <2>7
    <3> QED BY <2>7, <2>8, <3>1, <3>2, <3>3, <3>4 DEF IsInjective
  <2>10. ToSet(q) \subseteq ToSet(Ids(seeds))
    <3>1. \A i \in 1 .. Len(p) : p[i] \in ToSet(Ids(seeds))
        BY <1>1 DEF ToSet
    <3>2. \A i \in 1 .. Len(p) + 1 : i \in 1 .. Len(p) \/ i = Len(p) + 1
        BY <1>0
    <3>3. \A i \in 1 .. Len(p) + 1 : q[i] \in ToSet(Ids(seeds))
        BY <2>6, <2>7, <3>1, <3>2
    <3> QED BY <2>8, <3>3 DEF ToSet
  <2>11. \A i \in 1 .. Len(q) - 1 : q[i + 1] \in Successors(q[i])
    <3> SUFFICES ASSUME NEW i \in 1 .. Len(p)
                 PROVE  q[i + 1] \in Successors(q[i])
        BY <1>1, <2>7
    <3>1. CASE i = Len(p)
        BY <1>1, <2>6, <2>7, <3>1
    <3>2. CASE i # Len(p)
      <4>1. i \in 1 .. Len(p) - 1 /\ i + 1 \in 1 .. Len(p)
          BY <1>0, <3>2
      <4> QED BY <1>1, <2>7, <4>1
    <3> QED BY <3>1, <3>2
  <2>12. \A i \in 2 .. Len(q) - 1 : q[i] \notin Protected
    <3> SUFFICES ASSUME NEW i \in 2 .. Len(p)
                 PROVE  q[i] \notin Protected
        BY <1>1, <2>7
    <3>1. CASE i = Len(p)
        BY <1>1, <2>1, <2>7, <3>1
    <3>2. CASE i # Len(p)
      <4>1. i \in 2 .. Len(p) - 1 /\ i \in 1 .. Len(p)
          BY <1>0, <3>2
      <4> QED BY <1>1, <2>7, <4>1
    <3> QED BY <3>1, <3>2
  <2>13. Len(q) >= 1 /\ q[1] = n
      BY <1>1, <2>7
  <2>14. q \in Paths(n)
      BY <2>7, <2>9, <2>10, <2>11, <2>12, <2>13 DEF Paths
  <2> QED BY <1>3, <2>2, <2>7, <2>14 DEF q
<1> QED BY <1>2, <1>3

\* A walk is such a path, and goes on until it is stopped: it has as many steps to take
\* as there are seeds, and takes one each time.
LEMMA WalkEnds ==
    ASSUME seeds \in Seq(Records), IsInjective(Ids(seeds)), NEW n \in ToSet(Ids(seeds))
    PROVE  Walk(n) \in Paths(n) /\ Stopped(Walk(n))
<1> DEFINE X == Paths(n)
           a == <<n>>
           step == [p \in X |-> Onward(p)]
<1>1. Ids(seeds) \in Seq(Nodes) /\ ToSet(Ids(seeds)) \subseteq Nodes
    BY SeedsAre, MembersCount
<1>2. a \in X
  <2>1. a \in Seq(Nodes) /\ Len(a) = 1 /\ a[1] = n /\ DOMAIN a = {1}
      BY <1>1
  <2>2. IsInjective(a)
      BY <2>1 DEF IsInjective
  <2>3. ToSet(a) \subseteq ToSet(Ids(seeds))
      BY <2>1 DEF ToSet
  <2> QED BY <2>1, <2>2, <2>3 DEF Paths
<1>3. step \in [X -> X]
    BY OnwardFits
<1>4. \E f : Repeats(f, X, a, step)
  <2> HIDE DEF X, a, step
  <2> QED BY <1>2, <1>3, StepsExist
<1> DEFINE path[steps \in Nat] == IF steps = 0 THEN <<n>> ELSE Onward(path[steps - 1])
<1>5. path = [steps \in Nat |-> IF steps = 0 THEN <<n>> ELSE Onward(path[steps - 1])]
  <2>1. PICK f \in [Nat -> X] : f[0] = a /\ \A i \in Nat : f[i + 1] = step[f[i]]
      BY <1>4 DEF Repeats
  <2>2. \A i \in Nat : f[i] = IF i = 0 THEN <<n>> ELSE Onward(f[i - 1])
    <3> SUFFICES ASSUME NEW i \in Nat, i # 0
                 PROVE  f[i] = Onward(f[i - 1])
        BY <2>1
    <3>1. i - 1 \in Nat /\ (i - 1) + 1 = i
        OBVIOUS
    <3>2. f[(i - 1) + 1] = step[f[i - 1]] /\ f[i - 1] \in X
        BY <2>1, <3>1
    <3> QED BY <3>1, <3>2
  <2>3. f = [i \in Nat |-> IF i = 0 THEN <<n>> ELSE Onward(f[i - 1])]
      BY <2>1, <2>2
  <2> QED BY <2>3
<1>6. path[0] = a /\ \A i \in Nat : path[i + 1] = Onward(path[i])
  <2> HIDE DEF path
  <2>1. \A i \in Nat : i + 1 \in Nat /\ i + 1 # 0 /\ (i + 1) - 1 = i
      OBVIOUS
  <2> QED BY <1>5, <2>1
<1>7. Walk(n) = path[Len(seeds)]
    BY DEF Walk
<1> HIDE DEF path
<1>8. Len(seeds) \in Nat
    BY LenProperties
<1> DEFINE S == {i \in Nat : path[i] \in X /\ (Stopped(path[i]) \/ Len(path[i]) = i + 1)}
<1>9. 0 \in S
  <2>1. Len(a) = 0 + 1 /\ path[0] \in X
      BY <1>2, <1>6
  <2> QED BY <1>6, <2>1
<1>10. \A i \in 0 .. Len(seeds) - 1 : i \in S => i + 1 \in S
  <2> SUFFICES ASSUME NEW i \in Nat, i \in S
               PROVE  i + 1 \in S
      BY <1>8
  <2>1. path[i] \in X /\ (Stopped(path[i]) \/ Len(path[i]) = i + 1) /\ path[i + 1] = Onward(path[i])
      BY <1>6
  <2>2. /\ path[i + 1] \in X
        /\ Stopped(path[i]) => path[i + 1] = path[i]
        /\ ~Stopped(path[i]) => Len(path[i + 1]) = Len(path[i]) + 1
      BY <2>1, OnwardFits
  <2>3. Stopped(path[i + 1]) \/ Len(path[i + 1]) = (i + 1) + 1
      BY <2>1, <2>2
  <2> QED BY <2>2, <2>3
<1> HIDE DEF S
<1>11. Len(seeds) \in S
  <2> DEFINE N == Len(seeds)
  <2>1. N \in Int /\ 0 \in Int /\ N \in 0 .. N /\ \A i \in 0 .. N - 1 : i \in S => i + 1 \in S
      BY <1>8, <1>10
  <2> HIDE DEF N
  <2>2. \A i \in 0 .. N : i \in S
      BY <1>9, <2>1, UpFrom
  <2> QED BY <2>1, <2>2 DEF N
<1> DEFINE w == path[Len(seeds)]
<1>12. w \in X /\ (Stopped(w) \/ Len(w) = Len(seeds) + 1)
    BY <1>11 DEF S
<1> HIDE DEF w
<1>13. Len(w) # Len(seeds) + 1
  <2>1. w \in Seq(Nodes) /\ IsInjective(w) /\ ToSet(w) \subseteq ToSet(Ids(seeds))
      BY <1>12 DEF Paths
  <2>2. Cardinality(ToSet(w)) = Len(w)
      BY <2>1, MembersCount
  <2>3. /\ IsFiniteSet(ToSet(Ids(seeds))) /\ Cardinality(ToSet(Ids(seeds))) = Len(seeds)
      BY <1>1, SeedsAre, MembersCount
  <2>4. Cardinality(ToSet(w)) <= Cardinality(ToSet(Ids(seeds)))
      BY <2>1, <2>3, FS_Subset
  <2> QED BY <1>8, <2>2, <2>3, <2>4
<1> QED BY <1>7, <1>12, <1>13 DEF w

\* The lineage the fold reads: between seeds.
LineageRead == {e \in graph.lineage : Range(e) \subseteq ToSet(Ids(seeds))}

LEMMA LineageReadIs ==
    ASSUME graph.lineage \subseteq Nodes \X Nodes, NEW m, NEW n
    PROVE  <<m, n>> \in LineageRead <=> m \in ToSet(Ids(seeds)) /\ n \in Successors(m)
<1>1. DOMAIN <<m, n>> = {1, 2}
    OBVIOUS
<1>2. Range(<<m, n>>) = {m, n}
    BY <1>1 DEF Range
<1> QED BY <1>2 DEF LineageRead, Successors

\* A walk that can be taken up again at one of its nodes has gone round a cycle.
LEMMA RoundIsCycle ==
    ASSUME seeds \in Seq(Records), graph.lineage \subseteq Nodes \X Nodes,
           NEW n, NEW p \in Paths(n), NEW j \in 1 .. Len(p), p[j] \in Successors(p[Len(p)])
    PROVE  p[j] \in Cycles(LineageRead)
<1>1. /\ p \in Seq(Nodes) /\ DOMAIN p = 1 .. Len(p) /\ ToSet(p) \subseteq ToSet(Ids(seeds))
      /\ \A i \in 1 .. Len(p) - 1 : p[i + 1] \in Successors(p[i])
    BY LenProperties DEF Paths
<1>2. Len(p) \in Nat
    BY <1>1, LenProperties
<1>3. \A i \in 1 .. Len(p) : p[i] \in ToSet(Ids(seeds)) /\ p[i] \in Nodes
  <2>1. ToSet(p) \subseteq Nodes
      BY <1>1, MembersCount
  <2> QED BY <1>1, <2>1 DEF ToSet
<1> SUFFICES ASSUME NEW S \in SUBSET Nodes,
                    \A e \in LineageRead : e[1] \in S \cup {p[j]} => e[2] \in S
             PROVE  p[j] \in S
    BY <1>3 DEF Cycles
<1>4. \A x, y : x \in S \cup {p[j]} /\ x \in ToSet(Ids(seeds)) /\ y \in Successors(x) => y \in S
  <2> TAKE x, y
  <2> HAVE x \in S \cup {p[j]} /\ x \in ToSet(Ids(seeds)) /\ y \in Successors(x)
  <2>1. <<x, y>> \in LineageRead /\ <<x, y>>[1] = x /\ <<x, y>>[2] = y
      BY LineageReadIs
  <2> QED BY <2>1
<1> DEFINE T == {i \in 1 .. Len(p) : p[i] \in S \cup {p[j]}}
<1>5. j \in T
    OBVIOUS
<1>6. \A i \in j .. Len(p) - 1 : i \in T => i + 1 \in T
  <2> SUFFICES ASSUME NEW i \in j .. Len(p) - 1, i \in T
               PROVE  i + 1 \in T
      OBVIOUS
  <2>1. i \in 1 .. Len(p) - 1 /\ i \in 1 .. Len(p) /\ i + 1 \in 1 .. Len(p)
      BY <1>2
  <2>2. p[i] \in S \cup {p[j]} /\ p[i] \in ToSet(Ids(seeds)) /\ p[i + 1] \in Successors(p[i])
      BY <1>1, <1>3, <2>1
  <2>3. p[i + 1] \in S
      BY <1>4, <2>2
  <2> QED BY <2>1, <2>3
<1> HIDE DEF T
<1>7. Len(p) \in T
  <2>1. j \in Int /\ Len(p) \in Int /\ Len(p) \in j .. Len(p)
      BY <1>2
  <2>2. \A i \in j .. Len(p) : i \in T
      BY <1>5, <1>6, <2>1, UpFrom
  <2> QED BY <2>1, <2>2
<1>8. p[Len(p)] \in S \cup {p[j]} /\ Len(p) \in 1 .. Len(p)
    BY <1>7 DEF T
<1> QED BY <1>3, <1>4, <1>8

EndsAt(n, w) ==
    /\ HostFor(n) = w[Len(w)]
    /\ Successors(w[Len(w)]) \subseteq {w[Len(w)]} \/ (Len(w) > 1 /\ w[Len(w)] \in Protected)

ClosesAt(n, w, j) ==
    /\ w[j] \in Successors(w[Len(w)]) /\ w[Len(w)] \notin Protected
    /\ HostFor(n) = BestOf({w[k] : k \in j .. Len(w)}, Ids(seeds))
    /\ HostFor(n) \in {w[k] : k \in j .. Len(w)}

\* The end of the walk hosts the version, or the best of the cycle the walk closed.
LEMMA HostIs ==
    ASSUME seeds \in Seq(Records), IsInjective(Ids(seeds)), NEW n \in ToSet(Ids(seeds))
    PROVE  \E w \in Paths(n) : EndsAt(n, w) \/ \E j \in 1 .. Len(w) - 1 : ClosesAt(n, w, j)
<1> DEFINE w == Walk(n)
           last == w[Len(w)]
           behind == Successors(last) \ {last}
           b == BestOf(behind, Ids(seeds))
           j == Place(b, w)
           round == ToSet(SubSeq(w, j, Len(w)))
<1>1. w \in Paths(n) /\ Stopped(w)
    BY WalkEnds
<1>2. CASE behind = {} \/ (Len(w) > 1 /\ last \in Protected)
  <2>1. HostFor(n) = last
      BY <1>2 DEF HostFor
  <2> HIDE DEF w
  <2> QED BY <1>1, <1>2, <2>1 DEF EndsAt
<1>3. CASE ~(behind = {} \/ (Len(w) > 1 /\ last \in Protected))
  <2>1. HostFor(n) = BestOf(round, Ids(seeds))
      BY <1>3 DEF HostFor, CycleHost
  <2> HIDE DEF w
  <2>2. /\ w \in Seq(Nodes) /\ DOMAIN w = 1 .. Len(w) /\ ToSet(w) \subseteq ToSet(Ids(seeds))
        /\ Len(w) >= 1 /\ IsInjective(w)
      BY <1>1, LenProperties DEF Paths
  <2>3. Len(w) \in Nat
      BY <2>2, LenProperties
  <2>4. Successors(last) \subseteq ToSet(w)
      BY <1>1, <1>3 DEF Stopped
  <2>5. Ids(seeds) \in Seq(Nodes)
      BY SeedsAre
  <2>6. b \in behind
    <3>1. behind # {} /\ behind \subseteq ToSet(Ids(seeds))
        BY <1>3, <2>2, <2>4
    <3> HIDE DEF behind
    <3> QED BY <2>5, <3>1, BestIsIn
  <2>7. b \in ToSet(w) /\ b # last /\ b \in Successors(last)
      BY <2>4, <2>6
  <2> HIDE DEF b
  <2>8. j \in 1 .. Len(w) /\ w[j] = b
      BY <2>2, <2>7 DEF ToSet, Place
  <2> HIDE DEF j
  <2>9. j \in 1 .. Len(w) - 1
      BY <2>3, <2>7, <2>8
  <2>10. round = {w[k] : k \in j .. Len(w)}
    <3> DEFINE s == SubSeq(w, j, Len(w))
    <3>1. \A k \in j .. Len(w) : w[k] \in Nodes
        BY <2>2, <2>3, <2>8
    <3>2. /\ s \in Seq(Nodes) /\ Len(s) = IF j <= Len(w) THEN Len(w) - j + 1 ELSE 0
          /\ \A k \in 1 .. Len(w) - j + 1 : s[k] = w[j + k - 1]
        BY <2>3, <2>8, <3>1, SubSeqProperties
    <3> HIDE DEF s
    <3>3. DOMAIN s = 1 .. Len(w) - j + 1
      <4>1. Len(s) = Len(w) - j + 1
          BY <2>3, <2>8, <3>2
      <4> QED BY <3>2, <4>1, LenProperties
    <3>4. \A k \in j .. Len(w) : k - j + 1 \in 1 .. Len(w) - j + 1 /\ j + (k - j + 1) - 1 = k
        BY <2>3, <2>8
    <3>5. \A k \in 1 .. Len(w) - j + 1 : j + k - 1 \in j .. Len(w)
        BY <2>3, <2>8
    <3>6. \A k \in j .. Len(w) : w[k] \in ToSet(s)
        BY <3>2, <3>3, <3>4 DEF ToSet
    <3>7. \A x \in ToSet(s) : \E k \in j .. Len(w) : x = w[k]
        BY <3>2, <3>3, <3>5 DEF ToSet
    <3> QED BY <3>6, <3>7 DEF s
  <2> HIDE DEF round
  <2>11. BestOf(round, Ids(seeds)) \in round
    <3>1. w[j] \in round
        BY <2>3, <2>8, <2>10
    <3>2. round \subseteq ToSet(w)
      <4>1. \A k \in j .. Len(w) : k \in 1 .. Len(w)
          BY <2>3, <2>8
      <4> QED BY <2>2, <2>10, <4>1 DEF ToSet
    <3> QED BY <2>2, <2>5, <3>1, <3>2, BestIsIn
  <2>12. Len(w) > 1
      BY <2>3, <2>9
  <2>13. last \notin Protected
      BY <1>3, <2>12
  <2> QED BY <1>1, <2>1, <2>7, <2>8, <2>9, <2>10, <2>11, <2>13 DEF ClosesAt
<1> QED BY <1>2, <1>3

\* A version that nothing follows hosts itself.
LEMMA EndHostsItself ==
    ASSUME seeds \in Seq(Records), IsInjective(Ids(seeds)), NEW n \in ToSet(Ids(seeds)),
           Successors(n) \subseteq {n}
    PROVE  HostFor(n) = n
<1>1. PICK w \in Paths(n) : EndsAt(n, w) \/ \E j \in 1 .. Len(w) - 1 : ClosesAt(n, w, j)
    BY HostIs
<1>2. /\ Len(w) \in Nat /\ DOMAIN w = 1 .. Len(w) /\ Len(w) >= 1 /\ w[1] = n /\ IsInjective(w)
      /\ \A i \in 1 .. Len(w) - 1 : w[i + 1] \in Successors(w[i])
    BY LenProperties DEF Paths
<1>3. Len(w) = 1
  <2> SUFFICES ASSUME Len(w) # 1
               PROVE  FALSE
      OBVIOUS
  <2>1. 1 \in 1 .. Len(w) - 1 /\ 1 \in DOMAIN w /\ 1 + 1 \in DOMAIN w /\ 1 # 1 + 1
      BY <1>2
  <2>2. w[1 + 1] = w[1]
      BY <1>2, <2>1
  <2> QED BY <1>2, <2>1, <2>2 DEF IsInjective
<1>4. ~ \E j \in 1 .. Len(w) - 1 : TRUE
    BY <1>3
<1> QED BY <1>1, <1>2, <1>3, <1>4 DEF EndsAt

\* A retired version keeps its slot beside a later one only on a cycle.
LEMMA KeptOnCycle ==
    ASSUME seeds \in Seq(Records), IsInjective(Ids(seeds)), graph.lineage \subseteq Nodes \X Nodes,
           NEW n \in ToSet(Ids(seeds)), n \notin Protected, HostFor(n) = n,
           ~(Successors(n) \subseteq {n})
    PROVE  n \in Cycles(LineageRead)
<1>1. PICK w \in Paths(n) : EndsAt(n, w) \/ \E j \in 1 .. Len(w) - 1 : ClosesAt(n, w, j)
    BY HostIs
<1>2. /\ Len(w) \in Nat /\ DOMAIN w = 1 .. Len(w) /\ Len(w) >= 1 /\ w[1] = n /\ IsInjective(w)
    BY LenProperties DEF Paths
<1>3. PICK j \in 1 .. Len(w) - 1 :
          w[j] \in Successors(w[Len(w)]) /\ HostFor(n) \in {w[k] : k \in j .. Len(w)}
    BY <1>1 DEF EndsAt, ClosesAt
<1>4. PICK k \in j .. Len(w) : w[k] = w[1]
    BY <1>2, <1>3
<1>5. k \in 1 .. Len(w) /\ 1 \in 1 .. Len(w)
    BY <1>2
<1>6. k = 1
    BY <1>2, <1>4, <1>5 DEF IsInjective
<1>7. j = 1 /\ j \in 1 .. Len(w)
    BY <1>2, <1>6
<1> QED BY <1>2, <1>3, <1>7, RoundIsCycle

\* Without cycles, what hosts another is protected or the last of its line.
LEMMA HostStaysAcyclic ==
    ASSUME seeds \in Seq(Records), IsInjective(Ids(seeds)), graph.lineage \subseteq Nodes \X Nodes,
           NEW n \in ToSet(Ids(seeds)), Cycles(LineageRead) = {}
    PROVE  /\ HostFor(n) \in ToSet(Ids(seeds))
           /\ HostFor(n) \in Protected \/ HostFor(HostFor(n)) = HostFor(n)
<1>1. PICK w \in Paths(n) : EndsAt(n, w) \/ \E j \in 1 .. Len(w) - 1 : ClosesAt(n, w, j)
    BY HostIs
<1>2. Len(w) \in Nat /\ DOMAIN w = 1 .. Len(w) /\ Len(w) >= 1 /\ ToSet(w) \subseteq ToSet(Ids(seeds))
    BY LenProperties DEF Paths
<1>3. ~ \E j \in 1 .. Len(w) - 1 : w[j] \in Successors(w[Len(w)])
  <2>1. \A j \in 1 .. Len(w) - 1 : j \in 1 .. Len(w)
      BY <1>2
  <2> QED BY <2>1, RoundIsCycle
<1>4. w[Len(w)] \in ToSet(Ids(seeds))
  <2>1. Len(w) \in DOMAIN w
      BY <1>2
  <2> QED BY <1>2, <2>1 DEF ToSet
<1>5. HostFor(n) = w[Len(w)]
    BY <1>1, <1>3 DEF EndsAt, ClosesAt
<1>6. Successors(HostFor(n)) \subseteq {HostFor(n)} \/ HostFor(n) \in Protected
    BY <1>1, <1>3, <1>5 DEF EndsAt, ClosesAt
<1> QED BY <1>4, <1>5, <1>6, EndHostsItself

\* Where no version has two that follow it, the best of a cycle hosts all that come to
\* it, itself included: whoever walks from it goes round the same cycle.
LEMMA HostStaysUnforked ==
    ASSUME seeds \in Seq(Records), IsInjective(Ids(seeds)), graph.lineage \subseteq Nodes \X Nodes,
           NEW n \in ToSet(Ids(seeds)), n \notin Protected, ~Forked(LineageRead)
    PROVE  /\ HostFor(n) \in ToSet(Ids(seeds))
           /\ HostFor(n) \in Protected \/ HostFor(HostFor(n)) = HostFor(n)
<1>1. PICK w \in Paths(n) : EndsAt(n, w) \/ \E j \in 1 .. Len(w) - 1 : ClosesAt(n, w, j)
    BY HostIs
<1>2. /\ DOMAIN w = 1 .. Len(w) /\ w[1] = n /\ IsInjective(w)
      /\ \A i \in 1 .. Len(w) - 1 : w[i + 1] \in Successors(w[i])
      /\ \A i \in 2 .. Len(w) - 1 : w[i] \notin Protected
      /\ ToSet(w) \subseteq ToSet(Ids(seeds))
    BY LenProperties DEF Paths
<1>3. Len(w) \in Nat /\ Len(w) >= 1
    BY LenProperties DEF Paths
<1>4. \A i \in 1 .. Len(w) : w[i] \in ToSet(Ids(seeds))
    BY <1>2 DEF ToSet
<1>5. \A m, x, y : m \in ToSet(Ids(seeds)) /\ x \in Successors(m) /\ y \in Successors(m) => x = y
  <2> TAKE m, x, y
  <2> HAVE m \in ToSet(Ids(seeds)) /\ x \in Successors(m) /\ y \in Successors(m)
  <2>1. /\ <<m, x>> \in LineageRead /\ <<m, x>>[1] = m /\ <<m, x>>[2] = x
        /\ <<m, y>> \in LineageRead /\ <<m, y>>[1] = m /\ <<m, y>>[2] = y
      BY LineageReadIs
  <2> QED BY <2>1 DEF Forked
<1>6. CASE EndsAt(n, w)
  <2>1. HostFor(n) \in ToSet(Ids(seeds))
      BY <1>3, <1>4, <1>6 DEF EndsAt
  <2>2. Successors(HostFor(n)) \subseteq {HostFor(n)} \/ HostFor(n) \in Protected
      BY <1>6 DEF EndsAt
  <2> QED BY <2>1, <2>2, EndHostsItself
<1>7. CASE \E j \in 1 .. Len(w) - 1 : ClosesAt(n, w, j)
  <2>1. PICK j \in 1 .. Len(w) - 1 :
            /\ w[j] \in Successors(w[Len(w)]) /\ w[Len(w)] \notin Protected
            /\ HostFor(n) = BestOf({w[k] : k \in j .. Len(w)}, Ids(seeds))
            /\ HostFor(n) \in {w[k] : k \in j .. Len(w)}
      BY <1>7 DEF ClosesAt
  <2> DEFINE C == {w[k] : k \in j .. Len(w)}
             h == HostFor(n)
  <2>2. /\ \A k \in j .. Len(w) : k \in 1 .. Len(w)
        /\ \A k \in j .. Len(w) : k # Len(w) => k + 1 \in j .. Len(w) /\ k \in 1 .. Len(w) - 1
        /\ j \in j .. Len(w) /\ Len(w) \in j .. Len(w) /\ j \in Int /\ j # Len(w)
        /\ Len(w) \in 1 .. Len(w)
      BY <1>3
  <2>3. \A x \in C : x \in ToSet(Ids(seeds)) /\ x \notin Protected
    <3> SUFFICES ASSUME NEW k \in j .. Len(w)
                 PROVE  w[k] \in ToSet(Ids(seeds)) /\ w[k] \notin Protected
        OBVIOUS
    <3>1. k = 1 \/ k = Len(w) \/ k \in 2 .. Len(w) - 1
        BY <1>3
    <3>2. w[k] \notin Protected
        BY <1>2, <2>1, <3>1
    <3> QED BY <1>4, <2>2, <3>2
  <2>4. \A k \in j .. Len(w) : \E x \in C : x # w[k] /\ Successors(w[k]) = {x}
    <3> SUFFICES ASSUME NEW k \in j .. Len(w)
                 PROVE  \E x \in C : x # w[k] /\ Successors(w[k]) = {x}
        OBVIOUS
    <3>1. w[k] \in ToSet(Ids(seeds))
        BY <2>3
    <3>2. CASE k = Len(w)
      <4>1. w[j] # w[k]
          BY <1>2, <2>2, <3>2 DEF IsInjective
      <4>2. w[j] \in C /\ w[j] \in Successors(w[k])
          BY <2>1, <2>2, <3>2
      <4>3. Successors(w[k]) = {w[j]}
          BY <1>5, <3>1, <4>2
      <4> QED BY <4>1, <4>2, <4>3
    <3>3. CASE k # Len(w)
      <4>1. k \in 1 .. Len(w) /\ k + 1 \in 1 .. Len(w) /\ k # k + 1 /\ k \in 1 .. Len(w) - 1
            /\ k + 1 \in j .. Len(w)
          BY <2>2, <3>3
      <4>2. w[k + 1] # w[k]
          BY <1>2, <4>1 DEF IsInjective
      <4>3. w[k + 1] \in C /\ w[k + 1] \in Successors(w[k])
          BY <1>2, <4>1
      <4>4. Successors(w[k]) = {w[k + 1]}
          BY <1>5, <3>1, <4>3
      <4> QED BY <4>2, <4>3, <4>4
    <3> QED BY <3>2, <3>3
  \* What holds one node of the cycle and what follows each, holds all.
  <2>5. ASSUME NEW D \in SUBSET C, D # {}, \A x \in D : \A y \in Successors(x) : y \in D
        PROVE  D = C
    <3> DEFINE T == {k \in j .. Len(w) : w[k] \in D}
    <3>1. PICK k \in j .. Len(w) : k \in T
        BY <2>5
    <3>2. \A i \in j .. Len(w) - 1 : i \in T => i + 1 \in T
      <4> SUFFICES ASSUME NEW i \in j .. Len(w) - 1, i \in T
                   PROVE  i + 1 \in T
          OBVIOUS
      <4>1. i \in 1 .. Len(w) - 1 /\ i + 1 \in j .. Len(w)
          BY <1>3, <2>2
      <4>2. w[i + 1] \in D
          BY <1>2, <2>5, <4>1
      <4> QED BY <4>1, <4>2
    <3> HIDE DEF T
    <3>3. Len(w) \in T
      <4>1. k \in Int /\ Len(w) \in Int /\ Len(w) \in k .. Len(w)
          BY <1>3, <2>2
      <4>2. \A i \in k .. Len(w) - 1 : i \in T => i + 1 \in T
          BY <1>3, <2>2, <3>2
      <4>3. \A i \in k .. Len(w) : i \in T
          BY <3>1, <4>1, <4>2, UpFrom
      <4> QED BY <4>1, <4>3
    <3>4. j \in T
        BY <2>1, <2>2, <2>5, <3>3 DEF T
    <3>5. \A i \in j .. Len(w) : i \in T
      <4>1. j \in Int /\ Len(w) \in Int
          BY <1>3, <2>2
      <4> QED BY <3>2, <3>4, <4>1, UpFrom
    <3> QED BY <3>5 DEF T
  <2>6. h \in C /\ h \in ToSet(Ids(seeds))
      BY <2>1, <2>3
  <2>7. PICK v \in Paths(h) : EndsAt(h, v) \/ \E i \in 1 .. Len(v) - 1 : ClosesAt(h, v, i)
    <3> HIDE DEF h
    <3> QED BY <2>6, HostIs
  <2> HIDE DEF C
  <2>8. /\ v[1] = h /\ \A i \in 1 .. Len(v) - 1 : v[i + 1] \in Successors(v[i])
      BY DEF Paths
  <2>9. Len(v) \in Nat /\ Len(v) >= 1
      BY LenProperties DEF Paths
  <2>10. \A x \in C : \E y \in C : y # x /\ Successors(x) = {y}
      BY <2>4 DEF C
  <2>11. \A i \in 1 .. Len(v) : v[i] \in C
    <3> DEFINE T == {i \in Nat : v[i] \in C}
    <3>1. 1 \in T /\ 1 \in Int /\ Len(v) \in Int
        BY <2>6, <2>8, <2>9
    <3>2. \A i \in 1 .. Len(v) - 1 : i \in T => i + 1 \in T
        BY <2>8, <2>10
    <3> HIDE DEF T
    <3>3. \A i \in 1 .. Len(v) : i \in T
        BY <3>1, <3>2, UpFrom
    <3> QED BY <3>3 DEF T
  <2>12. v[Len(v)] \in C /\ v[Len(v)] \notin Protected /\ ~(Successors(v[Len(v)]) \subseteq {v[Len(v)]})
    <3>1. v[Len(v)] \in C
        BY <2>9, <2>11
    <3> QED BY <2>3, <2>10, <3>1
  <2>13. PICK i \in 1 .. Len(v) - 1 :
             /\ v[i] \in Successors(v[Len(v)])
             /\ HostFor(h) = BestOf({v[k] : k \in i .. Len(v)}, Ids(seeds))
      BY <2>7, <2>12 DEF EndsAt, ClosesAt
  <2> DEFINE D == {v[k] : k \in i .. Len(v)}
  <2>14. D = C
    <3>1. \A k \in i .. Len(v) : k \in 1 .. Len(v)
        BY <2>9
    <3>2. D \in SUBSET C
        BY <2>11, <3>1
    <3>3. i \in i .. Len(v)
        BY <2>9
    <3>4. D # {} /\ v[i] \in D
        BY <3>3
    <3>5. \A k \in i .. Len(v) : \A y \in Successors(v[k]) : y \in D
      <4> SUFFICES ASSUME NEW k \in i .. Len(v), NEW y \in Successors(v[k])
                   PROVE  y \in D
          OBVIOUS
      <4>1. PICK x \in C : Successors(v[k]) = {x}
          BY <2>10, <2>11, <3>1
      <4>2. CASE k = Len(v)
          BY <2>13, <3>4, <4>1, <4>2
      <4>3. CASE k # Len(v)
        <5>1. k \in 1 .. Len(v) - 1 /\ k + 1 \in i .. Len(v)
            BY <2>9, <4>3
        <5>2. v[k + 1] \in D /\ v[k + 1] \in Successors(v[k])
            BY <2>8, <5>1
        <5> QED BY <4>1, <5>2
      <4> QED BY <4>2, <4>3
    <3>6. \A x \in D : \A y \in Successors(x) : y \in D
        BY <3>5
    <3> HIDE DEF D
    <3> QED BY <2>5, <3>2, <3>4, <3>6
  <2>15. HostFor(h) = h
      BY <2>1, <2>13, <2>14 DEF C
  <2> QED BY <2>6, <2>15
<1> QED BY <1>1, <1>6, <1>7

\* What the collapse writes down keeps the promises of the fold.
LEMMA CollapseFolds == ASSUME SearchInv, CollapseLineage PROVE HistoryFolds'
<1> DEFINE Keeps(r) == Foldable(r) => HostFor(r.id) = r.id
           keeping == {r \in ToSet(seeds) : Keeps(r)}
           kept == Among(keeping, seeds)
           pairs == {<<r, HostFor(r.id)>> : r \in {s \in ToSet(seeds) : ~Keeps(s)}}
<1>1. /\ UNCHANGED <<graph, query, lex>>
      /\ fold'.pairs = pairs /\ fold'.kept = ToSet(kept) /\ fold'.read = LineageRead
    BY DEF CollapseLineage, LineageRead
<1>2. /\ seeds \in Seq(Records) /\ IsInjective(Ids(seeds)) /\ graph.lineage \subseteq Nodes \X Nodes
    BY DEF SearchInv, SearchTypeOK
<1>3. IsInjective(seeds) /\ ToSet(Ids(seeds)) = IdsOf(ToSet(seeds)) /\ ToSet(seeds) \subseteq Records
    BY <1>2, SeedsAre
<1>4. \A r : Foldable(r)' = Foldable(r)
    BY <1>1 DEF Foldable, Protected
<1>5. ToSet(kept) = {r \in ToSet(seeds) : Keeps(r)}
  <2>1. keeping \cap ToSet(seeds) = keeping
      OBVIOUS
  <2> HIDE DEF keeping
  <2>2. ToSet(kept) = keeping \cap ToSet(seeds)
      BY <1>2, <1>3, AmongOnce
  <2> QED BY <2>1, <2>2 DEF keeping
<1>6. \A p \in pairs : \E r \in ToSet(seeds) :
          /\ p[1] = r /\ p[2] = HostFor(r.id) /\ Foldable(r) /\ HostFor(r.id) # r.id
    OBVIOUS
<1> HIDE DEF kept, pairs
<1>7. ASSUME Cycles(LineageRead) = {} \/ ~Forked(LineageRead), NEW p \in pairs
      PROVE  \E r \in ToSet(kept) : r.id = p[2]
  <2>1. PICK r \in ToSet(seeds) : p[1] = r /\ p[2] = HostFor(r.id) /\ Foldable(r)
      BY <1>6
  <2>2. r.id \in ToSet(Ids(seeds)) /\ r.id \notin Protected
      BY <1>3, <2>1 DEF Foldable, IdsOf
  <2> DEFINE h == HostFor(r.id)
  <2>3. h \in ToSet(Ids(seeds)) /\ (h \in Protected \/ HostFor(h) = h)
      BY <1>2, <1>7, <2>2, HostStaysAcyclic, HostStaysUnforked
  <2>4. PICK s \in ToSet(seeds) : s.id = h
      BY <1>3, <2>3 DEF IdsOf
  <2>5. Keeps(s)
      BY <2>3, <2>4 DEF Foldable
  <2> QED BY <1>5, <2>1, <2>4, <2>5
<1>8. ASSUME NEW r \in ToSet(kept), Foldable(r), NEW e \in LineageRead, e[1] = r.id, e[2] # r.id
      PROVE  r.id \in Cycles(LineageRead)
  <2>1. r \in ToSet(seeds) /\ HostFor(r.id) = r.id
      BY <1>5, <1>8
  <2>2. r.id \in ToSet(Ids(seeds)) /\ r.id \notin Protected
      BY <1>3, <1>8, <2>1 DEF Foldable, IdsOf
  <2>3. e = <<e[1], e[2]>>
      BY <1>2 DEF LineageRead
  <2>4. e[2] \in Successors(r.id)
      BY <1>2, <1>8, <2>3, LineageReadIs
  <2> QED BY <1>2, <1>8, <2>1, <2>2, <2>4, KeptOnCycle
<1>9. \A p \in pairs : p[1].status # "active" /\ p[1].id \notin query.valid
    BY <1>6 DEF Foldable, Protected, SupersededStatuses
<1>10. /\ (Cycles(fold'.read) = {} \/ ~Forked(fold'.read)) =>
             \A p \in fold'.pairs : \E r \in fold'.kept : r.id = p[2]
       /\ \A r \in fold'.kept :
             (Foldable(r)' /\ \E e \in fold'.read : e[1] = r.id /\ e[2] # r.id) => r.id \in Cycles(fold'.read)
       /\ \A p \in fold'.pairs : p[1].status # "active" /\ p[1].id \notin query'.valid
    BY <1>1, <1>4, <1>7, <1>8, <1>9
<1> QED BY <1>10 DEF HistoryFolds, Cycles, Forked

LEMMA HistoryFoldsNext == SearchInv /\ HistoryFolds /\ [SearchNext]_searchVars => HistoryFolds'
<1> SUFFICES ASSUME SearchInv, HistoryFolds, [SearchNext]_searchVars
             PROVE  HistoryFolds'
    OBVIOUS
<1>1. CASE CollapseLineage
    BY <1>1, CollapseFolds
<1>2. CASE WriteBeside \/ UNCHANGED searchVars
    BY <1>2 DEF HistoryFolds, WriteBeside, searchVars, Foldable, Protected, Cycles, Forked
<1>3. ASSUME ~CollapseLineage, ~WriteBeside, SearchNext
      PROVE  stage' # "collapsed"
    BY <1>3 DEF SearchNext, WriteBefore, BeginSearch, VectorFind, VectorFetch, LexNodes, LexPassages,
                FuseSeeds, ReadEdges, FollowEdge, Answer, Widen, StampNode
<1> QED BY <1>1, <1>2, <1>3 DEF HistoryFolds

\* collapse_lineage, whatever the shape of the lineage: without both cycles and forks,
\* a version folded away hangs on a result that kept its slot; a retired version is kept
\* beside a later one only on a cycle; nothing current and no answer valid at the moment
\* asked about is folded.
THEOREM HistoryStaysFolded == SearchSpec => []HistoryFolds
<1>1. SearchInit => HistoryFolds
    BY DEF SearchInit, HistoryFolds
<1> QED BY <1>1, HistoryFoldsNext, SearchInvHolds, PTL DEF SearchSpec

--------------------------------------------------------------------------------
(* The gate: its invariant.                                                  *)

USE GateAssumption DEF Claim, vars, turnVars, stored, connection, counts

\* Where a call is while it holds its turn.
Turning == {"in", "switched", "doomed", "done"}

\* Who holds a turn is what the calls' places say: users' turns beside each other, a
\* mover's beside nobody's.
TurnsAreHeld ==
    /\ \A c \in Calls : working[c] # NoGraph <=> call[c].at \in Turning /\ call[c].tool # "use"
    /\ \A c \in Calls : mover = c <=> call[c].at \in Turning /\ call[c].tool = "use"
    /\ mover # NoTask => \A c \in Calls : working[c] = NoGraph

\* But for a dashboard read under way, storage is on the graph the session is on.
StorageFollowsSession == mover # Viz => selected = database

\* What a call has gone through says what it is: only a switch has switched, only a
\* delete is about to delete, and not the graph the session is on.
PlacesFitTools ==
    \A c \in Calls :
        /\ call[c].at = "switched" => call[c].tool = "use"
        /\ call[c].at = "doomed" => call[c].tool = "delete" /\ call[c].graph # database
        /\ call[c].at = "asked" => call[c].token = NoJudge
        /\ call[c].at = "claimed" => call[c].judge \in Judges
        /\ call[c].tool # "none" => call[c].graph \in Graphs

\* A call that names a token is judged by its claim's judge, or by nobody.
CallsKeepTheirToken ==
    \A c \in Calls : call[c].token # NoJudge => call[c].judge \in {call[c].token, NoJudge}

GateInv ==
    /\ TypeOK
    /\ TurnsAreHeld
    /\ StorageFollowsSession
    /\ PlacesFitTools
    /\ CallsKeepTheirToken
    /\ ActiveGraphExists
    /\ WritesLandWhereNamed
    /\ TokenCreditsItsClaim
    /\ RecordedWhereItRan

--------------------------------------------------------------------------------

\* A call not under way has no tool, no judge and some seat.
LEMMA IdleIs ==
    ASSUME seat \in Seats
    PROVE  \E s \in Seats : Idle = [at |-> "idle", tool |-> "none", graph |-> NoGraph,
                                    token |-> NoJudge, judge |-> NoJudge, seat |-> s]
BY DEF Idle

\* The session starts in the graph it was started on, with nobody in a turn.
LEMMA InitGate == Init => GateInv
<1> SUFFICES ASSUME Init PROVE GateInv
    OBVIOUS
<1>1. PICK s \in Seats : Idle = [at |-> "idle", tool |-> "none", graph |-> NoGraph,
                                token |-> NoJudge, judge |-> NoJudge, seat |-> s]
    BY IdleIs DEF Init
<1>2. Idle \in CallRecord
    BY <1>1 DEF CallRecord, Steps
<1>3. TypeOK
    BY <1>2 DEF Init, TypeOK
<1>4. \A c \in Calls : call[c] = Idle
    BY DEF Init
<1> QED BY <1>1, <1>3, <1>4 DEF Init, GateInv, TurnsAreHeld, StorageFollowsSession, PlacesFitTools,
        CallsKeepTheirToken, ActiveGraphExists, WritesLandWhereNamed, TokenCreditsItsClaim,
        RecordedWhereItRan, Turning

\* Who holds a turn has it to itself against every mover, and storage is where the
\* session is.
LEMMA InTurn ==
    ASSUME GateInv, NEW c \in Calls, call[c].at \in Turning
    PROVE  /\ selected = database
           /\ call[c].tool # "use" => mover = NoTask /\ working[c] # NoGraph
           /\ call[c].tool = "use" => mover = c /\ \A d \in Calls : working[d] = NoGraph
BY DEF GateInv, TurnsAreHeld, StorageFollowsSession

\* A call that begins takes no turn and touches nothing but itself.
LEMMA BeginStep ==
    ASSUME GateInv, NEW c \in Calls, NEW r \in CallRecord, Begin(c, r),
           r.at \in {"approving", "queued", "asked"}, r.tool # "none", r.graph \in Graphs,
           r.token # NoJudge => r.judge \in {r.token, NoJudge}, r.at = "asked" => r.token = NoJudge,
           UNCHANGED <<turnVars, database, stored, seat, connection, recorded>>
    PROVE  GateInv'
<1>1. /\ call'[c] = r
      /\ \A d \in Calls \ {c} : call'[d] = call[d]
      /\ call[c].at = "idle"
    BY DEF Begin, GateInv, TypeOK
<1>2. TypeOK'
    BY DEF Begin, GateInv, TypeOK
<1>3. TurnsAreHeld'
    BY <1>1 DEF GateInv, TurnsAreHeld, Turning
<1>4. PlacesFitTools' /\ CallsKeepTheirToken'
    BY <1>1 DEF GateInv, PlacesFitTools, CallsKeepTheirToken
<1> QED BY <1>2, <1>3, <1>4 DEF GateInv, StorageFollowsSession, ActiveGraphExists,
        WritesLandWhereNamed, TokenCreditsItsClaim, RecordedWhereItRan

LEMMA StartStep ==
    ASSUME GateInv, NEW c \in Calls, NEW g \in Graphs, NEW claim \in Claim \cup {NoClaim},
           StartUse(c, g) \/ StartDelete(c, g) \/ StartClaim(c, g) \/ StartWrite(c, g, claim)
    PROVE  GateInv'
<1>1. PICK s \in Seats : Idle = [at |-> "idle", tool |-> "none", graph |-> NoGraph,
                                token |-> NoJudge, judge |-> NoJudge, seat |-> s]
    BY IdleIs DEF GateInv, TypeOK
<1>2. JudgeOf(binding) \in Judges \cup {NoJudge} /\ JudgeOf(claim) \in Judges \cup {NoJudge}
    BY DEF JudgeOf, GateInv, TypeOK
<1>3. CASE StartUse(c, g)
    BY <1>1, <1>2, <1>3, BeginStep DEF StartUse, CallRecord, Steps
<1>4. CASE StartDelete(c, g)
    BY <1>1, <1>4, BeginStep DEF StartDelete, CallRecord, Steps
<1>5. CASE StartClaim(c, g)
    BY <1>1, <1>5, BeginStep DEF StartClaim, CallRecord, Steps, GateInv, TypeOK
<1>6. CASE StartWrite(c, g, claim)
  <2> DEFINE r(k, j) == [Idle EXCEPT !.at = "approving", !.tool = "write", !.graph = g,
                           !.token = k, !.judge = j]
             stands == IF claim = NoClaim THEN binding ELSE claim
  <2>1. Begin(c, r(JudgeOf(claim), JudgeOf(stands)))
      BY <1>6 DEF StartWrite
  <2>2. ASSUME NEW k \in Judges \cup {NoJudge}, NEW j \in Judges \cup {NoJudge}
        PROVE  r(k, j) \in CallRecord /\ r(k, j).at = "approving" /\ r(k, j).tool = "write"
               /\ r(k, j).graph = g /\ r(k, j).token = k /\ r(k, j).judge = j
      BY <1>1 DEF CallRecord, Steps
  <2>3. JudgeOf(claim) # NoJudge => JudgeOf(stands) = JudgeOf(claim)
      BY DEF JudgeOf
  <2>4. JudgeOf(stands) \in Judges \cup {NoJudge}
      BY <1>2
  <2> HIDE DEF r, stands
  <2> QED BY <1>2, <1>6, <2>1, <2>2, <2>3, <2>4, BeginStep DEF StartWrite
<1> QED BY <1>3, <1>4, <1>5, <1>6

\* What a step does to the calls, when it changes one of them.
LEMMA OneCall ==
    ASSUME TypeOK, NEW c \in Calls, NEW r \in CallRecord, call' = [call EXCEPT ![c] = r]
    PROVE  /\ call' \in [Calls -> CallRecord]
           /\ call'[c] = r
           /\ \A d \in Calls \ {c} : call'[d] = call[d]
BY DEF TypeOK

\* A call that is over is idle.
LEMMA ToIdle ==
    ASSUME TypeOK, NEW c \in Calls, call' = [call EXCEPT ![c] = Idle]
    PROVE  /\ call' \in [Calls -> CallRecord]
           /\ call'[c].at = "idle" /\ call'[c].tool = "none" /\ call'[c].token = NoJudge
           /\ \A d \in Calls \ {c} : call'[d] = call[d]
<1>1. PICK s \in Seats : Idle = [at |-> "idle", tool |-> "none", graph |-> NoGraph,
                                token |-> NoJudge, judge |-> NoJudge, seat |-> s]
    BY IdleIs DEF TypeOK
<1>2. Idle \in CallRecord
    BY <1>1 DEF CallRecord, Steps
<1> QED BY <1>1, <1>2, OneCall

\* A call that goes on is as it was, but for its place.
LEMMA ToPlace ==
    ASSUME TypeOK, NEW c \in Calls, NEW p \in Steps, Goes(c, p)
    PROVE  /\ call' \in [Calls -> CallRecord]
           /\ call'[c] = [call[c] EXCEPT !.at = p]
           /\ call'[c].at = p /\ call'[c].tool = call[c].tool /\ call'[c].graph = call[c].graph
           /\ call'[c].token = call[c].token /\ call'[c].judge = call[c].judge
           /\ \A d \in Calls \ {c} : call'[d] = call[d]
BY DEF TypeOK, Goes, CallRecord

\* Before the turn: the approval and the policy are read, and nothing is taken.
LEMMA ReadStep ==
    ASSUME GateInv, NEW c \in Calls, ReadApproval(c) \/ ReadPolicy(c)
    PROVE  GateInv'
<1>1. CASE ReadApproval(c)
  <2> DEFINE j == Credited(call[c].judge)
             p == IF call[c].tool = "write" /\ j = NoJudge THEN "policy" ELSE "queued"
  <2>1. j \in {call[c].judge, NoJudge}
      BY DEF Credited
  <2>2. call' = [call EXCEPT ![c] = [call[c] EXCEPT !.judge = j, !.at = p]]
      BY <1>1 DEF ReadApproval, GateInv, TypeOK
  <2>3. p \in {"policy", "queued"}
      OBVIOUS
  <2> HIDE DEF j, p
  <2>4. [call[c] EXCEPT !.judge = j, !.at = p] \in CallRecord
    <3>1. call[c] \in CallRecord /\ j \in Judges \cup {NoJudge} /\ p \in Steps
        BY <2>1, <2>3 DEF GateInv, TypeOK, CallRecord, Steps
    <3> QED BY <3>1 DEF CallRecord
  <2>5. /\ call' \in [Calls -> CallRecord]
        /\ call'[c].at = p /\ call'[c].tool = call[c].tool /\ call'[c].graph = call[c].graph
        /\ call'[c].token = call[c].token /\ call'[c].judge = j
        /\ \A d \in Calls \ {c} : call'[d] = call[d]
      BY <2>2, <2>4, OneCall DEF GateInv, TypeOK, CallRecord
  <2>6. TypeOK'
      BY <1>1, <2>5 DEF ReadApproval, GateInv, TypeOK
  <2>7. TurnsAreHeld'
      BY <1>1, <2>3, <2>5 DEF ReadApproval, GateInv, TurnsAreHeld, Turning
  <2>8. PlacesFitTools' /\ CallsKeepTheirToken'
      BY <1>1, <2>1, <2>3, <2>5 DEF ReadApproval, GateInv, PlacesFitTools, CallsKeepTheirToken
  <2> QED BY <1>1, <2>6, <2>7, <2>8 DEF ReadApproval, GateInv, StorageFollowsSession,
          ActiveGraphExists, WritesLandWhereNamed, TokenCreditsItsClaim, RecordedWhereItRan
<1>2. CASE ReadPolicy(c)
  <2>1. \/ call' = [call EXCEPT ![c] = Idle]
        \/ Goes(c, "queued")
      BY <1>2 DEF ReadPolicy, Goes, GateInv, TypeOK
  <2>2. /\ call' \in [Calls -> CallRecord]
        /\ call'[c].at \in {"idle", "queued"} /\ call'[c].tool \in {"none", call[c].tool}
        /\ call'[c].tool # "none" => call'[c].graph = call[c].graph
        /\ call'[c].token # NoJudge => call'[c].token = call[c].token /\ call'[c].judge = call[c].judge
        /\ \A d \in Calls \ {c} : call'[d] = call[d]
      BY <2>1, ToIdle, ToPlace DEF GateInv, Steps
  <2>3. TypeOK'
      BY <1>2, <2>2 DEF ReadPolicy, GateInv, TypeOK
  <2>4. TurnsAreHeld'
      BY <1>2, <2>2 DEF ReadPolicy, GateInv, TurnsAreHeld, Turning
  <2>5. PlacesFitTools' /\ CallsKeepTheirToken'
      BY <1>2, <2>2 DEF ReadPolicy, GateInv, PlacesFitTools, CallsKeepTheirToken
  <2> QED BY <1>2, <2>3, <2>4, <2>5 DEF ReadPolicy, GateInv, StorageFollowsSession,
          ActiveGraphExists, WritesLandWhereNamed, TokenCreditsItsClaim, RecordedWhereItRan
<1> QED BY <1>1, <1>2

\* A turn is taken where nobody's turn excludes it.
LEMMA TakeTurnStep ==
    ASSUME GateInv, NEW c \in Calls, TakeTurn(c)
    PROVE  GateInv'
<1>1. /\ call' \in [Calls -> CallRecord]
      /\ call'[c].at = "in" /\ call'[c].tool = call[c].tool /\ call'[c].graph = call[c].graph
      /\ call'[c].token = call[c].token /\ call'[c].judge = call[c].judge
      /\ \A d \in Calls \ {c} : call'[d] = call[d]
    BY ToPlace DEF TakeTurn, GateInv, Steps
<1>2. TypeOK'
    BY <1>1 DEF TakeTurn, Turn!Begin, Turn!BeginMove, GateInv, TypeOK
<1>3. TurnsAreHeld'
  <2>1. CASE call[c].tool = "use"
      BY <1>1, <2>1 DEF TakeTurn, Turn!BeginMove, GateInv, TurnsAreHeld, Turning, TypeOK
  <2>2. CASE call[c].tool # "use"
      BY <1>1, <2>2 DEF TakeTurn, Turn!Begin, GateInv, TurnsAreHeld, Turning, TypeOK
  <2> QED BY <2>1, <2>2
<1>4. PlacesFitTools' /\ CallsKeepTheirToken'
    BY <1>1 DEF TakeTurn, GateInv, PlacesFitTools, CallsKeepTheirToken
<1>5. StorageFollowsSession'
    BY DEF TakeTurn, Turn!Begin, Turn!BeginMove, GateInv, StorageFollowsSession, TurnsAreHeld
<1> QED BY <1>2, <1>3, <1>4, <1>5 DEF TakeTurn, GateInv,
        ActiveGraphExists, WritesLandWhereNamed, TokenCreditsItsClaim, RecordedWhereItRan

\* A decision is written where the session is, which the gate has just compared with the
\* graph the call named.
LEMMA WriteStep ==
    ASSUME GateInv, NEW c \in Calls, Write(c)
    PROVE  GateInv'
<1> DEFINE row == [graph |-> call[c].graph, token |-> call[c].token, judge |-> call[c].judge]
<1>1. /\ call' \in [Calls -> CallRecord]
      /\ call'[c].at = "done" /\ call'[c].tool = call[c].tool /\ call'[c].graph = call[c].graph
      /\ call'[c].token = call[c].token /\ call'[c].judge = call[c].judge
      /\ \A d \in Calls \ {c} : call'[d] = call[d]
    BY ToPlace DEF Write, GateInv, Steps
<1>2. selected = database /\ call[c].graph = database /\ database \in Graphs
    BY InTurn DEF Write, PassesGate, Turning, GateInv, TypeOK
<1>3. row \in Row /\ row.graph = selected /\ (row.token # NoJudge => row.judge \in {row.token, NoJudge})
    BY <1>2 DEF Row, GateInv, TypeOK, CallRecord, CallsKeepTheirToken
<1>4. rows' = [rows EXCEPT ![selected] = @ \cup {row}]
    BY DEF Write
<1> HIDE DEF row
<1>5. TypeOK'
    BY <1>1, <1>3, <1>4 DEF Write, GateInv, TypeOK
<1>6. TurnsAreHeld'
    BY <1>1 DEF Write, GateInv, TurnsAreHeld, Turning
<1>7. PlacesFitTools' /\ CallsKeepTheirToken'
    BY <1>1 DEF Write, GateInv, PlacesFitTools, CallsKeepTheirToken
<1>8. \A g \in Graphs : \A r \in rows'[g] : r \in rows[g] \/ (g = selected /\ r = row)
    BY <1>4 DEF GateInv, TypeOK
<1>9. WritesLandWhereNamed' /\ TokenCreditsItsClaim'
    BY <1>2, <1>3, <1>8 DEF Write, GateInv, WritesLandWhereNamed, TokenCreditsItsClaim, ActiveGraphExists
<1> QED BY <1>5, <1>6, <1>7, <1>9 DEF Write, GateInv, StorageFollowsSession,
        ActiveGraphExists, RecordedWhereItRan

\* A switch moves session and storage together, alone in its turn.
LEMMA SwitchStep ==
    ASSUME GateInv, NEW c \in Calls, SwitchGraph(c)
    PROVE  GateInv'
<1>1. /\ call' \in [Calls -> CallRecord]
      /\ call'[c].at = "switched" /\ call'[c].tool = "use" /\ call'[c].graph = call[c].graph
      /\ call'[c].token = call[c].token /\ call'[c].judge = call[c].judge
      /\ \A d \in Calls \ {c} : call'[d] = call[d]
    BY ToPlace DEF SwitchGraph, GateInv, Steps
<1>2. call[c].graph \in Graphs /\ mover = c /\ \A d \in Calls : working[d] = NoGraph
    BY InTurn DEF SwitchGraph, Turning, GateInv, PlacesFitTools
<1>3. \A d \in Calls : call[d].at # "doomed"
    BY <1>2 DEF GateInv, TurnsAreHeld, PlacesFitTools, Turning
<1>4. TypeOK'
    BY <1>1, <1>2 DEF SwitchGraph, Turn!Move, GateInv, TypeOK
<1>5. TurnsAreHeld'
    BY <1>1 DEF SwitchGraph, Turn!Move, GateInv, TurnsAreHeld, Turning
<1>6. PlacesFitTools' /\ CallsKeepTheirToken'
    BY <1>1, <1>2, <1>3 DEF SwitchGraph, GateInv, PlacesFitTools, CallsKeepTheirToken
<1>7. StorageFollowsSession' /\ ActiveGraphExists'
    BY DEF SwitchGraph, Turn!Move, StorageFollowsSession, ActiveGraphExists
<1>8. WritesLandWhereNamed' /\ TokenCreditsItsClaim' /\ RecordedWhereItRan'
    BY DEF SwitchGraph, GateInv, WritesLandWhereNamed, TokenCreditsItsClaim, RecordedWhereItRan
<1> QED BY <1>4, <1>5, <1>6, <1>7, <1>8 DEF GateInv

\* The judge looked at again after a switch, and the graph looked up before a deletion.
LEMMA CheckStep ==
    ASSUME GateInv, NEW c \in Calls, RecheckJudge(c) \/ CheckDelete(c)
    PROVE  GateInv'
<1>1. /\ call' \in [Calls -> CallRecord]
      /\ call[c].at \in Turning /\ call'[c].at \in {"done", "doomed"}
      /\ call'[c].at = "doomed" => call[c].tool = "delete" /\ call[c].graph # database
      /\ call'[c].tool = call[c].tool /\ call'[c].graph = call[c].graph
      /\ call'[c].token = call[c].token /\ call'[c].judge = call[c].judge
      /\ \A d \in Calls \ {c} : call'[d] = call[d]
    BY ToPlace DEF RecheckJudge, CheckDelete, MayDelete, GateInv, Steps, Turning
<1>2. TypeOK'
    BY <1>1 DEF RecheckJudge, CheckDelete, GateInv, TypeOK
<1>3. TurnsAreHeld'
    BY <1>1 DEF RecheckJudge, CheckDelete, GateInv, TurnsAreHeld, Turning
<1>4. PlacesFitTools' /\ CallsKeepTheirToken'
    BY <1>1 DEF RecheckJudge, CheckDelete, GateInv, PlacesFitTools, CallsKeepTheirToken
<1> QED BY <1>2, <1>3, <1>4 DEF RecheckJudge, CheckDelete, GateInv, StorageFollowsSession,
        ActiveGraphExists, WritesLandWhereNamed, TokenCreditsItsClaim, RecordedWhereItRan

\* A deletion takes with the graph every decision in it, and its turn keeps the session
\* off that graph.
LEMMA DeleteStep ==
    ASSUME GateInv, NEW c \in Calls, DeleteGraph(c)
    PROVE  GateInv'
<1>1. /\ call' \in [Calls -> CallRecord]
      /\ call'[c].at = "done" /\ call'[c].tool = call[c].tool /\ call'[c].graph = call[c].graph
      /\ call'[c].token = call[c].token /\ call'[c].judge = call[c].judge
      /\ \A d \in Calls \ {c} : call'[d] = call[d]
    BY ToPlace DEF DeleteGraph, GateInv, Steps
<1>2. call[c].graph # database /\ call[c].graph \in Graphs
    BY DEF DeleteGraph, GateInv, PlacesFitTools
<1>3. TypeOK'
    BY <1>1 DEF DeleteGraph, GateInv, TypeOK
<1>4. TurnsAreHeld'
    BY <1>1 DEF DeleteGraph, GateInv, TurnsAreHeld, Turning
<1>5. PlacesFitTools' /\ CallsKeepTheirToken'
    BY <1>1 DEF DeleteGraph, GateInv, PlacesFitTools, CallsKeepTheirToken
<1>6. \A g \in Graphs : rows'[g] = IF g = call[c].graph THEN {} ELSE rows[g]
    BY DEF DeleteGraph, GateInv, TypeOK
<1>7. WritesLandWhereNamed' /\ TokenCreditsItsClaim'
    BY <1>6 DEF DeleteGraph, GateInv, WritesLandWhereNamed, TokenCreditsItsClaim
<1> QED BY <1>2, <1>3, <1>4, <1>5, <1>7 DEF DeleteGraph, GateInv, StorageFollowsSession,
        ActiveGraphExists, RecordedWhereItRan

\* A turn is left by whoever holds it, with the response kept or without.
LEMMA LeaveStep ==
    ASSUME GateInv, NEW c \in Calls, Respond(c) \/ TimeOut(c)
    PROVE  GateInv'
<1>1. /\ call' \in [Calls -> CallRecord]
      /\ call'[c].at = "idle" /\ call'[c].tool = "none" /\ call'[c].token = NoJudge
      /\ \A d \in Calls \ {c} : call'[d] = call[d]
    BY ToIdle DEF Respond, TimeOut, GateInv
<1>2. /\ call[c].at \in Turning
      /\ Leave(c)
      /\ UNCHANGED <<database, stored, seat, connection, counts>>
    BY DEF Respond, TimeOut, Turning
<1>3. selected = database /\ selected' = selected /\ database \in Graphs
    BY <1>2, InTurn DEF Leave, Turn!EndMove, Turn!End, GateInv, TypeOK
<1>4. /\ recorded' \subseteq [graph : Graphs, ran : Graphs]
      /\ RecordedWhereItRan'
    BY <1>3 DEF Respond, TimeOut, Stamp, GateInv, TypeOK, RecordedWhereItRan
<1>5. TypeOK'
    BY <1>1, <1>2, <1>4 DEF Leave, Turn!EndMove, Turn!End, GateInv, TypeOK
<1>6. TurnsAreHeld'
  <2>1. CASE call[c].tool = "use"
    <3>1. mover = c /\ mover' = NoTask /\ working' = working
        BY <1>2, <2>1, InTurn DEF Leave, Turn!EndMove
    <3> QED BY <1>1, <2>1, <3>1 DEF GateInv, TurnsAreHeld, Turning
  <2>2. CASE call[c].tool # "use"
    <3>1. mover = NoTask /\ mover' = mover /\ working' = [working EXCEPT ![c] = NoGraph]
        BY <1>2, <2>2, InTurn DEF Leave, Turn!End
    <3> QED BY <1>1, <2>2, <3>1 DEF GateInv, TurnsAreHeld, Turning, TypeOK
  <2> QED BY <2>1, <2>2
<1>7. PlacesFitTools' /\ CallsKeepTheirToken'
    BY <1>1, <1>2 DEF GateInv, PlacesFitTools, CallsKeepTheirToken
<1>8. StorageFollowsSession'
    BY <1>2, <1>3 DEF StorageFollowsSession
<1> QED BY <1>2, <1>4, <1>5, <1>6, <1>7, <1>8 DEF GateInv,
        ActiveGraphExists, WritesLandWhereNamed, TokenCreditsItsClaim

\* A claim, answered and bound, takes no turn.
LEMMA ClaimStep ==
    ASSUME GateInv, NEW c \in Calls, NEW j \in Judges, AnswerClaim(c, j) \/ BindClaim(c)
    PROVE  GateInv'
<1>1. CASE AnswerClaim(c, j)
  <2>1. /\ call' \in [Calls -> CallRecord]
        /\ call'[c].at = "claimed" /\ call'[c].tool = call[c].tool /\ call'[c].graph = call[c].graph
        /\ call'[c].token = call[c].token /\ call'[c].judge = j
        /\ \A d \in Calls \ {c} : call'[d] = call[d]
    <3> DEFINE r == [call[c] EXCEPT !.at = "claimed", !.judge = j]
    <3>1. r \in CallRecord /\ call' = [call EXCEPT ![c] = r]
        BY <1>1 DEF AnswerClaim, GateInv, TypeOK, CallRecord, Steps
    <3> QED BY <1>1, <3>1, OneCall DEF AnswerClaim, GateInv, TypeOK, CallRecord
  <2>2. call[c].token = NoJudge
      BY <1>1 DEF AnswerClaim, GateInv, PlacesFitTools
  <2>3. TypeOK'
      BY <1>1, <2>1 DEF AnswerClaim, GateInv, TypeOK
  <2>4. TurnsAreHeld'
      BY <1>1, <2>1 DEF AnswerClaim, GateInv, TurnsAreHeld, Turning
  <2>5. PlacesFitTools' /\ CallsKeepTheirToken'
      BY <1>1, <2>1, <2>2 DEF AnswerClaim, GateInv, PlacesFitTools, CallsKeepTheirToken
  <2> QED BY <1>1, <2>3, <2>4, <2>5 DEF AnswerClaim, GateInv, StorageFollowsSession,
          ActiveGraphExists, WritesLandWhereNamed, TokenCreditsItsClaim, RecordedWhereItRan
<1>2. CASE BindClaim(c)
  <2>1. /\ call' \in [Calls -> CallRecord]
        /\ call'[c].at = "idle" /\ call'[c].tool = "none" /\ call'[c].token = NoJudge
        /\ \A d \in Calls \ {c} : call'[d] = call[d]
      BY <1>2, ToIdle DEF BindClaim, GateInv
  <2>2. <<call[c].judge, call[c].seat>> \in Claim
      BY <1>2 DEF BindClaim, GateInv, PlacesFitTools, TypeOK, CallRecord
  <2>3. TypeOK'
      BY <1>2, <2>1, <2>2 DEF BindClaim, GateInv, TypeOK
  <2>4. TurnsAreHeld'
      BY <1>2, <2>1 DEF BindClaim, GateInv, TurnsAreHeld, Turning
  <2>5. PlacesFitTools' /\ CallsKeepTheirToken'
      BY <1>2, <2>1 DEF BindClaim, GateInv, PlacesFitTools, CallsKeepTheirToken
  <2> QED BY <1>2, <2>3, <2>4, <2>5 DEF BindClaim, GateInv, StorageFollowsSession,
          ActiveGraphExists, WritesLandWhereNamed, TokenCreditsItsClaim, RecordedWhereItRan
<1> QED BY <1>1, <1>2

\* The user changes seat, and the dashboard reads another graph between the turns.
LEMMA WorldStep ==
    ASSUME GateInv,
           \/ \E s \in Seats : ChangeSeat(s)
           \/ \E g \in Graphs : Borrow(g)
           \/ GiveBack
           \/ UNCHANGED vars
    PROVE  GateInv'
<1>1. TypeOK'
    BY DEF ChangeSeat, Borrow, GiveBack, GateInv, TypeOK
<1>2. TurnsAreHeld'
    BY DEF ChangeSeat, Borrow, GiveBack, GateInv, TurnsAreHeld
<1>3. StorageFollowsSession'
    BY DEF ChangeSeat, Borrow, GiveBack, GateInv, StorageFollowsSession
<1>4. UNCHANGED <<database, stored, call, recorded>>
    BY DEF ChangeSeat, Borrow, GiveBack
<1> QED BY <1>1, <1>2, <1>3, <1>4 DEF GateInv, PlacesFitTools, CallsKeepTheirToken,
        ActiveGraphExists, WritesLandWhereNamed, TokenCreditsItsClaim, RecordedWhereItRan

\* Every step of the session preserves the invariant.
LEMMA NextGate == GateInv /\ [Next]_vars => GateInv'
<1> SUFFICES ASSUME GateInv, [Next]_vars PROVE GateInv'
    OBVIOUS
<1>1. ASSUME NEW c \in Calls, NEW g \in Graphs, NEW claim \in Claim \cup {NoClaim},
             StartUse(c, g) \/ StartDelete(c, g) \/ StartClaim(c, g) \/ StartWrite(c, g, claim)
      PROVE  GateInv'
    BY <1>1, StartStep
<1>2. ASSUME NEW c \in Calls,
             \/ ReadApproval(c) \/ ReadPolicy(c) \/ TakeTurn(c) \/ Write(c) \/ SwitchGraph(c)
             \/ RecheckJudge(c) \/ CheckDelete(c) \/ DeleteGraph(c) \/ Respond(c) \/ TimeOut(c)
      PROVE  GateInv'
    BY <1>2, ReadStep, TakeTurnStep, WriteStep, SwitchStep, CheckStep, DeleteStep, LeaveStep
<1>3. ASSUME NEW c \in Calls, BindClaim(c) \/ \E j \in Judges : AnswerClaim(c, j)
      PROVE  GateInv'
  <2>1. \E j \in Judges : AnswerClaim(c, j) \/ BindClaim(c)
      BY <1>3 DEF BindClaim, GateInv, PlacesFitTools
  <2> QED BY <2>1, ClaimStep
<1> QED BY <1>1, <1>2, <1>3, WorldStep DEF Next

--------------------------------------------------------------------------------
(* The theorems.                                                             *)

LEMMA GateHolds == Spec => []GateInv
BY InitGate, NextGate, PTL DEF Spec

\* The variables keep their types, the session's graph is there whatever delete_graph
\* removes, and no decision is credited to a judge its call's token does not name.
THEOREM SessionStaysSound == Spec => []SessionIsSound
<1>1. GateInv => SessionIsSound
    BY DEF GateInv, SessionIsSound
<1> QED BY <1>1, GateHolds, PTL

\* The wrong-graph gate, for any interleaving of calls with switches, deletions, claims
\* and dashboard reads: a decision is in the graph its call named, which is there.
THEOREM WritesLand == Spec => []WritesLandWhereNamed
<1>1. GateInv => WritesLandWhereNamed
    BY DEF GateInv
<1> QED BY <1>1, GateHolds, PTL

\* _record_response stamps a response with the graph its call ran in.
THEOREM ResponsesAreStamped == Spec => []RecordedWhereItRan
<1>1. GateInv => RecordedWhereItRan
    BY DEF GateInv
<1> QED BY <1>1, GateHolds, PTL

================================================================================

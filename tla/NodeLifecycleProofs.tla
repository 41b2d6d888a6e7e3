------------------------- MODULE NodeLifecycleProofs -------------------------
(***************************************************************************)
(* For any facts, edges and limits, one tool call at a time, and callers   *)
(* that name active nodes: a node's episodes agree with its status, a      *)
(* wrong claim stays gone, the sources of a merge that can be reversed are *)
(* merged, what it kept is what it moved, no node is merged and un-merged  *)
(* beyond the limit, lineage names one node the store has, the inferences  *)
(* a merge reworded the premises of are flagged, no edge ends at a node    *)
(* that is gone, a reversal gives back what its merge took, and no payload *)
(* lies deeper than merge_undo_depth.  For a depth of one or two the last  *)
(* holds with any calls at once.                                           *)
(***************************************************************************)
EXTENDS NodeLifecycle, FiniteSetTheorems, SequenceTheorems, WellFoundedInduction, TLAPS

-------------------------------------------------------------------------------
(* Numbers, and a step taken again and again.                               *)

LEMMA LeastNat ==
    ASSUME NEW T \in SUBSET Nat, T # {}
    PROVE  \E t \in T : \A u \in T : t <= u
<1> DEFINE R == OpToRel(<, Nat)
<1>1. IsWellFoundedOn(R, Nat)
    BY NatLessThanWellFounded
<1>2. \A u, t \in Nat : u < t => <<u, t>> \in R
    BY DEF OpToRel
<1> HIDE DEF R
<1>3. PICK t \in T : \A u \in T : <<u, t>> \notin R
    BY <1>1, WFMin
<1>4. \A u \in T : t <= u
  <2> SUFFICES ASSUME NEW u \in T
               PROVE  t <= u
      OBVIOUS
  <2>1. u \in Nat /\ t \in Nat /\ ~(u < t)
      BY <1>2, <1>3
  <2> QED BY <2>1
<1> QED BY <1>4

\* What has a member outside it, going up from m, has a first one.
LEMMA UpFrom ==
    ASSUME NEW m \in Int, NEW n \in Int, NEW S,
           m \in S, \A i \in m .. n - 1 : i \in S => i + 1 \in S
    PROVE  \A i \in m .. n : i \in S
<1> SUFFICES ASSUME NEW i \in m .. n, i \notin S
             PROVE  FALSE
    OBVIOUS
<1> DEFINE T == {k \in Nat : m + k <= n /\ m + k \notin S}
<1>1. i - m \in T
    OBVIOUS
<1>2. T \in SUBSET Nat
    OBVIOUS
<1>3. PICK k \in T : \A u \in T : k <= u
    BY <1>1, <1>2, LeastNat
<1>4. k # 0
    BY <1>3
<1>5. k - 1 \in Nat /\ ~(k <= k - 1)
    BY <1>3, <1>4
<1>6. k - 1 \notin T
    BY <1>3, <1>5
<1>7. m + (k - 1) \in m .. n - 1 /\ m + (k - 1) \in S
    BY <1>3, <1>5, <1>6
<1>8. m + (k - 1) + 1 = m + k
    BY <1>3
<1>9. m + k \in S
    BY <1>7, <1>8
<1> QED BY <1>3, <1>9

\* f takes the step again and again, from a.
Repeats(f, X, a, step) ==
    f \in [Nat -> X] /\ f[0] = a /\ \A i \in Nat : f[i + 1] = step[f[i]]

\* A step can be taken any number of times.
LEMMA StepsExist ==
    ASSUME NEW X, NEW a \in X, NEW step \in [X -> X]
    PROVE  \E f : Repeats(f, X, a, step)
<1> DEFINE Upto(m, g) == /\ g \in [0 .. m -> X] /\ g[0] = a
                         /\ \A i \in 0 .. m - 1 : g[i + 1] = step[g[i]]
           S == {m \in Nat : \E g : Upto(m, g)}
<1>1. \A m \in Nat : m \in S
  <2>1. 0 \in S
    <3>1. Upto(0, [i \in 0 .. 0 |-> a])
        OBVIOUS
    <3> QED BY <3>1
  <2>2. \A m \in Nat : m \in S => m + 1 \in S
    <3> HIDE DEF S
    <3> SUFFICES ASSUME NEW m \in Nat, m \in S
                 PROVE  m + 1 \in S
        OBVIOUS
    <3>1. PICK g : Upto(m, g)
        BY DEF S
    <3> DEFINE h == [i \in 0 .. m + 1 |-> IF i <= m THEN g[i] ELSE step[g[m]]]
    <3>2. g[m] \in X /\ \A i \in 0 .. m : g[i] \in X
        BY <3>1
    <3>3. h \in [0 .. m + 1 -> X]
        BY <3>2
    <3>4. h[0] = a
        BY <3>1
    <3>5. \A i \in 0 .. (m + 1) - 1 : h[i + 1] = step[h[i]]
      <4> SUFFICES ASSUME NEW i \in 0 .. m
                   PROVE  h[i + 1] = step[h[i]]
          OBVIOUS
      <4>1. CASE i = m
          BY <4>1
      <4>2. CASE i # m
        <5>1. i \in 0 .. m - 1 /\ i + 1 <= m /\ i <= m
            BY <4>2
        <5> QED BY <3>1, <5>1
      <4> QED BY <4>1, <4>2
    <3> HIDE DEF h
    <3>6. Upto(m + 1, h)
        BY <3>3, <3>4, <3>5
    <3> QED BY <3>6 DEF S
  <2> HIDE DEF S
  <2> SUFFICES ASSUME NEW m \in Nat
               PROVE  m \in S
      OBVIOUS
  <2>3. \A i \in 0 .. m : i \in S
      BY <2>1, <2>2, UpFrom
  <2> QED BY <2>3
<1>2. ASSUME NEW m \in Nat, NEW n \in Nat, m <= n, NEW g, Upto(m, g), NEW h, Upto(n, h)
      PROVE  \A i \in 0 .. m : g[i] = h[i]
  <2> DEFINE E == {i \in 0 .. m : g[i] = h[i]}
  <2>1. 0 \in E
      BY <1>2
  <2>2. \A i \in 0 .. m - 1 : i \in E => i + 1 \in E
      BY <1>2
  <2> HIDE DEF E
  <2>3. \A i \in 0 .. m : i \in E
      BY <2>1, <2>2, UpFrom
  <2> QED BY <2>3 DEF E
<1> DEFINE G == [m \in Nat |-> CHOOSE g : Upto(m, g)]
           f == [m \in Nat |-> G[m][m]]
<1>3. \A m \in Nat : Upto(m, G[m])
    BY <1>1
<1> HIDE DEF G
<1>4. \A m \in Nat : G[m][m] \in X /\ G[m + 1][m + 1] = step[G[m][m]]
  <2> SUFFICES ASSUME NEW m \in Nat
               PROVE  G[m][m] \in X /\ G[m + 1][m + 1] = step[G[m][m]]
      OBVIOUS
  <2>1. Upto(m, G[m]) /\ Upto(m + 1, G[m + 1]) /\ m + 1 \in Nat /\ m <= m + 1
      BY <1>3
  <2>2. G[m + 1][m + 1] = step[G[m + 1][m]]
      BY <2>1
  <2>3. G[m][m] = G[m + 1][m] /\ G[m][m] \in X
    <3>1. \A i \in 0 .. m : G[m][i] = G[m + 1][i]
      <4> HIDE DEF Upto
      <4> QED BY <1>2, <2>1
    <3> QED BY <2>1, <3>1
  <2> QED BY <2>2, <2>3
<1>5. f \in [Nat -> X]
    BY <1>4
<1>6. f[0] = a
    BY <1>3
<1>7. \A i \in Nat : f[i + 1] = step[f[i]]
    BY <1>4
<1> HIDE DEF f
<1> QED BY <1>5, <1>6, <1>7 DEF Repeats

-------------------------------------------------------------------------------
(* The invariant of one call at a time.                                      *)

USE LifecycleAssumption

Episode == [because : Retired, open : BOOLEAN]

\* The episodes of merges, over or not.
Merges(eps) == {i \in DOMAIN eps : eps[i].because = "merged"}
Reversed(eps) == {i \in DOMAIN eps : eps[i].because = "merged" /\ ~eps[i].open}

\* What a node's episodes say beside its status: only the last may be open, and is unless
\* the node is active; one retired for being wrong is so still.
Agree(standing, eps) ==
    /\ standing = "absent" => eps = <<>>
    /\ \A i \in DOMAIN eps :
          /\ eps[i].open <=> standing # "active" /\ i = Len(eps)
          /\ eps[i].because = "corrected" => standing = "corrected"

Sound(standing, eps) ==
    /\ standing \in Statuses
    /\ eps \in Seq(Episode)
    /\ Agree(standing, eps)
    /\ Cardinality(Merges(eps)) <= CycleLimit

\* A payload is of nodes it alone would bring back, and is what its merge moved.
PayloadsAreSound ==
    /\ undo \in [Nodes -> [sources : SUBSET Nodes, edges : SUBSET Edges]]
    /\ \A s \in Nodes :
          /\ status[s] = "absent" => undo[s] = NoUndo
          /\ undo[s] # NoUndo => undo[s].edges = before[s]
          /\ \A x \in undo[s].sources : status[x] = "merged"
          /\ \A t \in Nodes : s # t => undo[s].sources \cap undo[t].sources = {}

Fields == {"op", "nodes", "into", "because", "undo", "puts", "drops", "was"}

Shape(r) ==
    /\ r = [f \in Fields |-> r[f]]
    /\ r.op \in Ops /\ r.nodes \subseteq Nodes
    /\ r.undo \subseteq Edges /\ r.puts \subseteq Edges

\* What a call has planned is still so when it writes, with no other beside it.
Stands(r) ==
    /\ r.op \in {"embed", "merge"} =>
         /\ r.into \in Nodes /\ ~Stored(r.into)
         /\ \A x \in r.nodes : Active(x) /\ CompletedMergeCycles(x) < CycleLimit
    /\ r.op = "merge" => r.undo = Moving(edges, r.nodes)
    /\ r.op = "evict" => r.into \in Nodes
    /\ r.op = "clear" =>
         \A x \in r.nodes :
            r.was[x].status = status[x] /\ r.was[x].lifecycle = lifecycle[x]
    /\ r.op \in {"restore", "reverse"} =>
         /\ r.into \in Nodes /\ Active(r.into)
         /\ r.nodes = undo[r.into].sources
    /\ r.op \in {"update", "supersede"} =>
         /\ r.into \in Nodes /\ r.because \in {"corrected", "historical"}
         /\ \A x \in r.nodes : Active(x) /\ x # r.into
    /\ r.op = "update" => ~Stored(r.into)
    /\ r.op = "status" =>
         \/ r.because = "archived" /\ \A x \in r.nodes : Active(x)
         \/ /\ r.because = "active"
            /\ \A x \in r.nodes : status[x] \in {"archived", "historical"}

LifecycleInv ==
    /\ status = [n \in Nodes |-> status[n]] /\ lifecycle = [n \in Nodes |-> lifecycle[n]]
    /\ call = [c \in Calls |-> call[c]]
    /\ before \in [Nodes -> SUBSET Edges]
    /\ edges \subseteq Edges
    /\ calls \in 0 .. MaxCalls
    /\ \A n \in Nodes : Sound(status[n], lifecycle[n])
    /\ PayloadsAreSound
    /\ \A c \in Calls : Shape(call[c]) /\ Stands(call[c])

-------------------------------------------------------------------------------
(* Episodes.                                                                 *)

LEMMA RetireIs ==
    ASSUME NEW eps \in Seq(Episode), NEW because \in Retired
    PROVE  /\ WithRetirement(eps, because) \in Seq(Episode)
           /\ Len(WithRetirement(eps, because)) = Len(eps) + 1
           /\ DOMAIN WithRetirement(eps, because) = 1 .. Len(eps) + 1
           /\ \A i \in DOMAIN eps : WithRetirement(eps, because)[i] = eps[i]
           /\ WithRetirement(eps, because)[Len(eps) + 1] = [because |-> because, open |-> TRUE]
<1>1. [because |-> because, open |-> TRUE] \in Episode
    BY DEF Episode
<1> QED BY <1>1, AppendProperties DEF WithRetirement

LEMMA ReturnIs ==
    ASSUME NEW eps \in Seq(Episode)
    PROVE  /\ WithReturn(eps) \in Seq(Episode)
           /\ Len(WithReturn(eps)) = Len(eps)
           /\ DOMAIN WithReturn(eps) = DOMAIN eps
           /\ \A i \in DOMAIN eps :
                 /\ WithReturn(eps)[i].because = eps[i].because
                 /\ i # Len(eps) => WithReturn(eps)[i] = eps[i]
                 /\ i = Len(eps) => WithReturn(eps)[i].open = FALSE
<1>1. CASE eps = <<>>
    BY <1>1 DEF WithReturn
<1>2. CASE eps # <<>>
  <2> DEFINE last == Len(eps)
             e == [eps[last] EXCEPT !.open = FALSE]
  <2>1. last \in DOMAIN eps /\ eps[last] \in Episode
      BY <1>2
  <2>2. e \in Episode /\ e.because = eps[last].because /\ e.open = FALSE
      BY <2>1 DEF Episode
  <2>3. WithReturn(eps) = [eps EXCEPT ![last] = e]
      BY <1>2 DEF WithReturn
  <2> HIDE DEF e, last
  <2>4. [eps EXCEPT ![last] = e] \in Seq(Episode) /\ Len([eps EXCEPT ![last] = e]) = Len(eps)
      BY <2>1, <2>2, ExceptSeq
  <2>5. DOMAIN [eps EXCEPT ![last] = e] = DOMAIN eps
      OBVIOUS
  <2>6. \A i \in DOMAIN eps : [eps EXCEPT ![last] = e][i] = IF i = last THEN e ELSE eps[i]
      OBVIOUS
  <2> QED BY <2>2, <2>3, <2>4, <2>5, <2>6, <2>1 DEF last
<1> QED BY <1>1, <1>2

\* A list of episodes has finitely many of merges.
LEMMA MergesAreFew ==
    ASSUME NEW eps \in Seq(Episode)
    PROVE  IsFiniteSet(Merges(eps)) /\ IsFiniteSet(Reversed(eps)) /\ Reversed(eps) \subseteq Merges(eps)
<1>1. DOMAIN eps = 1 .. Len(eps) /\ Len(eps) \in Nat
    OBVIOUS
<1>2. IsFiniteSet(DOMAIN eps)
    BY <1>1, FS_Interval
<1> QED BY <1>2, FS_Subset DEF Merges, Reversed

\* An active node that is retired; a merge adds one to the merges that were reversed.
LEMMA RetireSound ==
    ASSUME NEW eps, Sound("active", eps), NEW because \in Retired,
           because = "merged" => Cardinality(Reversed(eps)) < CycleLimit
    PROVE  Sound(because, WithRetirement(eps, because))
<1> DEFINE new == WithRetirement(eps, because)
<1>1. eps \in Seq(Episode) /\ \A i \in DOMAIN eps : ~eps[i].open /\ eps[i].because # "corrected"
    BY DEF Sound, Agree
<1>2. /\ new \in Seq(Episode) /\ Len(new) = Len(eps) + 1 /\ DOMAIN new = 1 .. Len(eps) + 1
      /\ \A i \in DOMAIN eps : new[i] = eps[i]
      /\ new[Len(eps) + 1] = [because |-> because, open |-> TRUE]
    BY <1>1, RetireIs
<1> HIDE DEF new
<1>3. Len(eps) \in Nat /\ DOMAIN eps = 1 .. Len(eps)
    BY <1>1
<1>4. \A i \in DOMAIN new : i \in DOMAIN eps \/ i = Len(new)
    BY <1>2, <1>3
<1>5. because # "absent" /\ because # "active" /\ because \in Statuses
    BY DEF Retired, Statuses
<1>6. new[Len(new)].open = TRUE /\ new[Len(new)].because = because
    BY <1>2
<1>7. \A i \in DOMAIN eps : i # Len(new) /\ new[i].open = FALSE /\ new[i].because # "corrected"
    BY <1>1, <1>2, <1>3
<1>8. Agree(because, new)
    BY <1>4, <1>5, <1>6, <1>7 DEF Agree
<1>9. Cardinality(Merges(new)) <= CycleLimit
  <2>1. CASE because # "merged"
    <3>1. Merges(new) = Merges(eps)
        BY <2>1, <1>2, <1>3, <1>4, <1>6 DEF Merges
    <3> QED BY <3>1 DEF Sound
  <2>2. CASE because = "merged"
    <3>1. Merges(eps) = Reversed(eps)
        BY <1>1 DEF Merges, Reversed
    <3>2. Merges(new) = Merges(eps) \cup {Len(new)}
        BY <2>2, <1>2, <1>3, <1>4, <1>6 DEF Merges
    <3>3. Len(new) \notin Merges(eps)
        BY <1>2, <1>3 DEF Merges
    <3>4. IsFiniteSet(Merges(eps))
        BY <1>1, MergesAreFew
    <3>5. Cardinality(Merges(new)) = Cardinality(Merges(eps)) + 1
        BY <3>2, <3>3, <3>4, FS_AddElement
    <3>6. Cardinality(Merges(eps)) \in Nat
        BY <3>4, FS_CardinalityType
    <3> QED BY <2>2, <3>1, <3>5, <3>6
  <2> QED BY <2>1, <2>2
<1> QED BY <1>2, <1>5, <1>8, <1>9 DEF Sound, new

\* A retired node that comes back, but for one retired for being wrong.
LEMMA ReturnSound ==
    ASSUME NEW eps, NEW standing \in {"merged", "archived", "historical"}, Sound(standing, eps)
    PROVE  Sound("active", WithReturn(eps))
<1> DEFINE new == WithReturn(eps)
<1>1. /\ eps \in Seq(Episode)
      /\ \A i \in DOMAIN eps : (eps[i].open <=> i = Len(eps)) /\ eps[i].because # "corrected"
    BY DEF Sound, Agree
<1>2. /\ new \in Seq(Episode) /\ Len(new) = Len(eps) /\ DOMAIN new = DOMAIN eps
      /\ \A i \in DOMAIN eps : /\ new[i].because = eps[i].because
                               /\ i # Len(eps) => new[i] = eps[i]
                               /\ i = Len(eps) => new[i].open = FALSE
    BY <1>1, ReturnIs
<1> HIDE DEF new
<1>3. \A i \in DOMAIN new : new[i].open = FALSE
  <2> SUFFICES ASSUME NEW i \in DOMAIN new PROVE new[i].open = FALSE
      OBVIOUS
  <2>1. eps[i] \in Episode /\ i \in DOMAIN eps
      BY <1>1, <1>2
  <2>2. eps[i].open \in BOOLEAN
      BY <2>1 DEF Episode
  <2>3. i # Len(eps) => eps[i].open = FALSE
      BY <2>1, <2>2, <1>1, Zenon
  <2> QED BY <2>1, <2>3, <1>2
<1>4. Agree("active", new)
    BY <1>1, <1>2, <1>3 DEF Agree
<1>5. Merges(new) = Merges(eps)
    BY <1>2 DEF Merges
<1> QED BY <1>2, <1>4, <1>5 DEF Sound, Statuses, new

\* A node destroyed, or not yet written, has no episode.
LEMMA BlankSound == Sound("absent", <<>>) /\ \A eps : Sound("absent", eps) => Sound("active", eps)
<1>1. <<>> \in Seq(Episode) /\ DOMAIN <<>> = {}
    OBVIOUS
<1>2. Merges(<<>>) = {}
    BY <1>1 DEF Merges
<1>3. Cardinality(Merges(<<>>)) <= CycleLimit
  <2>1. Cardinality(Merges(<<>>)) = 0
      BY <1>2, FS_EmptySet
  <2> QED BY <2>1
<1> QED BY <1>1, <1>3 DEF Sound, Agree, Statuses

-------------------------------------------------------------------------------
(* Plans.                                                                    *)

\* The one call there is becomes r.
Becomes(c, r) == call' = [call EXCEPT ![c] = r]

OneAtATime == \A c, d \in Calls : c = d

LEMMA CallsStand ==
    ASSUME LifecycleInv, OneAtATime, NEW c \in Calls, NEW r, Becomes(c, r), Shape(r), Stands(r)'
    PROVE  /\ call' = [d \in Calls |-> call'[d]]
           /\ \A d \in Calls : Shape(call'[d]) /\ Stands(call[d])'
<1>1. call' = [d \in Calls |-> r]
    BY DEF LifecycleInv, OneAtATime, Becomes
<1> QED BY <1>1

LEMMA StandsStill ==
    ASSUME NEW r, Stands(r), UNCHANGED <<status, lifecycle, undo, edges>>
    PROVE  Stands(r)'
BY DEF Stands, Stored, Active, CompletedMergeCycles, Moving, Incident

\* A step that plans and writes nothing keeps the invariant, if the plan stands.
LEMMA PlanInv ==
    ASSUME LifecycleInv, OneAtATime, UNCHANGED <<graph, before>>, calls' \in 0 .. MaxCalls,
           NEW c \in Calls, NEW r, Becomes(c, r), Shape(r), Stands(r)
    PROVE  LifecycleInv'
<1>1. UNCHANGED <<status, lifecycle, undo, edges, before>>
    BY DEF graph
<1>2. Stands(r)'
    BY <1>1, StandsStill
<1>3. /\ call' = [d \in Calls |-> call'[d]]
      /\ \A d \in Calls : Shape(call'[d]) /\ Stands(call[d])'
    BY <1>2, CallsStand
<1>4. PayloadsAreSound'
    BY <1>1 DEF LifecycleInv, PayloadsAreSound
<1> QED BY <1>1, <1>3, <1>4 DEF LifecycleInv

\* NoCall, field by field.
LEMMA NoCallIs ==
    /\ NoCall = [f \in Fields |-> NoCall[f]]
    /\ NoCall.op = "none" /\ NoCall.nodes = {} /\ NoCall.into = Document /\ NoCall.because = "active"
    /\ NoCall.undo = {} /\ NoCall.puts = {} /\ NoCall.drops = {}
BY DEF NoCall, Fields

LEMMA NothingPlanned == Shape(NoCall)
BY NoCallIs DEF Shape, Ops

\* A call that is over, or has planned nothing yet, stands on nothing.
LEMMA NothingStands == Stands(NoCall) /\ Stands(NoCall)'
BY NoCallIs DEF Stands

LEMMA DoneInv ==
    ASSUME LifecycleInv, OneAtATime, UNCHANGED <<graph, before, calls>>, NEW c \in Calls, Done(c)
    PROVE  LifecycleInv'
<1>1. Becomes(c, NoCall) /\ calls' \in 0 .. MaxCalls
    BY DEF Done, Becomes, LifecycleInv
<1> QED BY <1>1, NothingPlanned, NothingStands, PlanInv

LEMMA PlanStands ==
    ASSUME LifecycleInv, OneAtATime, NEW c \in Calls, NEW r, Plan(c, r), Shape(r), Stands(r)
    PROVE  LifecycleInv'
<1>1. Becomes(c, r) /\ UNCHANGED <<graph, before>> /\ calls' = calls + 1 /\ calls < MaxCalls
    BY DEF Plan, Becomes
<1>2. calls' \in 0 .. MaxCalls
    BY <1>1 DEF LifecycleInv
<1> QED BY <1>1, <1>2, PlanInv

LEMMA EdgeIs ==
    ASSUME NEW s \in Nodes \cup Others, NEW d \in Nodes \cup Others, NEW t \in Types
    PROVE  Edge(s, d, t) \in Edges
BY DEF Edge, Edges

LEMMA GateMergeInv ==
    ASSUME LifecycleInv, OneAtATime, NEW c \in Calls, NEW S \in SUBSET Nodes, NEW n \in Fresh,
           GateMerge(c, S, n)
    PROVE  LifecycleInv'
<1> DEFINE r == [NoCall EXCEPT !.op = "embed", !.nodes = S, !.into = n]
<1>1. n \in Nodes /\ ~Stored(n) /\ \A x \in S : Active(x) /\ CompletedMergeCycles(x) < CycleLimit
    BY DEF GateMerge, Unused, Nodes
<1>2. Plan(c, r)
    BY DEF GateMerge
<1>3. /\ r = [f \in Fields |-> r[f]] /\ r.op = "embed" /\ r.nodes = S /\ r.into = n
      /\ r.undo = {} /\ r.puts = {}
    BY NoCallIs DEF Fields
<1> HIDE DEF r
<1>4. Shape(r) /\ Stands(r)
    BY <1>1, <1>3 DEF Shape, Ops, Stands
<1> QED BY <1>2, <1>4, PlanStands

LEMMA PlanReverseInv ==
    ASSUME LifecycleInv, OneAtATime, NEW c \in Calls, NEW s \in Nodes, PlanReverse(c, s)
    PROVE  LifecycleInv'
<1> PICK S, E : S = undo[s].sources /\ E = undo[s].edges
    OBVIOUS
<1>1. S \subseteq Nodes /\ E \subseteq Edges
    BY DEF LifecycleInv, PayloadsAreSound
<1> DEFINE r == [NoCall EXCEPT !.op = "restore", !.nodes = S, !.into = s, !.puts = E]
<1>2. Plan(c, r) /\ Active(s)
    BY DEF PlanReverse
<1>3. /\ r = [f \in Fields |-> r[f]] /\ r.op = "restore" /\ r.nodes = S /\ r.into = s
      /\ r.undo = {} /\ r.puts = E
    BY NoCallIs DEF Fields
<1> HIDE DEF r
<1>4. Shape(r) /\ Stands(r)
    BY <1>1, <1>2, <1>3 DEF Shape, Ops, Stands
<1> QED BY <1>2, <1>4, PlanStands

\* The callers name an active node to be superseded, and another by which.
LEMMA PlanSupersessionInv ==
    ASSUME LifecycleInv, OneAtATime, ~NamesRetired, NEW c \in Calls, NEW op \in {"update", "supersede"},
           NEW x \in Nodes, NEW y \in Nodes, x # y, NEW because \in {"corrected", "historical"},
           op = "update" => ~Stored(y), PlanSupersession(c, op, x, y, because)
    PROVE  LifecycleInv'
<1> PICK P, D :
        /\ P = {Edge(x, y, Lineage(because))} \cup {Edge(x, i, "evidence_superseded") : i \in Dependents(x)}
        /\ D = {e \in edges : e.dst = x /\ e.type = "supersession_candidate"}
    OBVIOUS
<1>1. P \subseteq Edges
  <2>1. Edge(x, y, Lineage(because)) \in Edges
      BY EdgeIs DEF Lineage, Types
  <2>2. \A i \in Dependents(x) : Edge(x, i, "evidence_superseded") \in Edges
    <3>1. \A i \in Dependents(x) : i \in Nodes \cup Others
        BY DEF Dependents
    <3> QED BY <3>1, EdgeIs DEF Types
  <2> QED BY <2>1, <2>2
<1> DEFINE r == [NoCall EXCEPT !.op = op, !.nodes = {x}, !.into = y, !.because = because,
                               !.puts = P, !.drops = D]
<1>2. Plan(c, r) /\ Active(x)
    BY DEF PlanSupersession, MayName
<1>3. /\ r = [f \in Fields |-> r[f]] /\ r.op = op /\ r.nodes = {x} /\ r.into = y
      /\ r.because = because /\ r.undo = {} /\ r.puts = P
    BY NoCallIs DEF Fields
<1> HIDE DEF r
<1>4. Shape(r) /\ Stands(r)
    BY <1>1, <1>2, <1>3 DEF Shape, Ops, Stands
<1> QED BY <1>2, <1>4, PlanStands

LEMMA PlanStatusInv ==
    ASSUME LifecycleInv, OneAtATime, NEW c \in Calls, NEW x \in Nodes,
           PlanArchive(c, x) \/ PlanRestore(c, x)
    PROVE  LifecycleInv'
<1>1. CASE PlanArchive(c, x)
  <2> DEFINE r == [NoCall EXCEPT !.op = "status", !.nodes = {x}, !.because = "archived"]
  <2>1. Plan(c, r) /\ Active(x)
      BY <1>1 DEF PlanArchive
  <2>2. /\ r = [f \in Fields |-> r[f]] /\ r.op = "status" /\ r.nodes = {x}
        /\ r.because = "archived" /\ r.undo = {} /\ r.puts = {}
      BY NoCallIs DEF Fields
  <2> HIDE DEF r
  <2>3. Shape(r) /\ Stands(r)
      BY <2>1, <2>2 DEF Shape, Ops, Stands
  <2> QED BY <2>1, <2>3, PlanStands
<1>2. CASE PlanRestore(c, x)
  <2> PICK source \in {{}, {Edge(x, Document, "sourced_from")}} :
          /\ status[x] \in {"archived", "historical"}
          /\ Plan(c, [NoCall EXCEPT !.op = "status", !.nodes = {x}, !.because = "active",
                                    !.puts = source])
      BY <1>2 DEF PlanRestore
  <2> DEFINE r == [NoCall EXCEPT !.op = "status", !.nodes = {x}, !.because = "active",
                                 !.puts = source]
  <2>1. Plan(c, r)
      OBVIOUS
  <2>2. /\ r = [f \in Fields |-> r[f]] /\ r.op = "status" /\ r.nodes = {x}
        /\ r.because = "active" /\ r.undo = {} /\ r.puts = source
      BY NoCallIs DEF Fields
  <2>3. source \subseteq Edges
      BY EdgeIs DEF Types
  <2> HIDE DEF r
  <2>4. Shape(r) /\ Stands(r)
      BY <2>2, <2>3 DEF Shape, Ops, Stands
  <2> QED BY <2>1, <2>4, PlanStands
<1> QED BY <1>1, <1>2

LEMMA PlanLinkInv ==
    ASSUME LifecycleInv, OneAtATime, NEW c \in Calls, NEW e \in Links, PlanLink(c, e)
    PROVE  LifecycleInv'
<1> DEFINE r == [NoCall EXCEPT !.op = "link", !.puts = {e}]
<1>1. Plan(c, r)
    BY DEF PlanLink
<1>2. /\ r = [f \in Fields |-> r[f]] /\ r.op = "link" /\ r.nodes = {}
      /\ r.undo = {} /\ r.puts = {e}
    BY NoCallIs DEF Fields
<1> HIDE DEF r
<1>3. Shape(r) /\ Stands(r)
    BY <1>2 DEF Shape, Ops, Stands
<1> QED BY <1>1, <1>3, PlanStands

LEMMA BeginInv ==
    ASSUME LifecycleInv, OneAtATime, ~NamesRetired, NEW c \in Calls, Begin(c)
    PROVE  LifecycleInv'
<1>1. ASSUME NEW x \in Nodes, NEW b \in {"corrected", "historical"}, NEW n \in Fresh,
             PlanUpdate(c, x, n, b)
      PROVE  LifecycleInv'
  <2>1. n \in Nodes /\ ~Stored(n)
      BY <1>1 DEF PlanUpdate, Unused, Nodes
  <2>2. MayName(x) /\ x # n
      BY <1>1, <2>1 DEF PlanUpdate, PlanSupersession, MayName
  <2> QED BY <1>1, <2>1, <2>2, PlanSupersessionInv DEF PlanUpdate
<1>2. ASSUME NEW x \in Nodes, NEW b \in {"corrected", "historical"}, NEW y \in Nodes,
             PlanSupersedeBy(c, x, y, b)
      PROVE  LifecycleInv'
    BY <1>2, PlanSupersessionInv DEF PlanSupersedeBy
<1>3. ASSUME NEW S \in SUBSET Nodes, NEW n \in Fresh, GateMerge(c, S, n) PROVE LifecycleInv'
    BY <1>3, GateMergeInv
<1>4. ASSUME NEW x \in Nodes, PlanReverse(c, x) \/ PlanArchive(c, x) \/ PlanRestore(c, x)
      PROVE  LifecycleInv'
    BY <1>4, PlanReverseInv, PlanStatusInv
<1>5. ASSUME NEW e \in Links, PlanLink(c, e) PROVE LifecycleInv'
    BY <1>5, PlanLinkInv
<1> QED BY <1>1, <1>2, <1>3, <1>4, <1>5 DEF Begin

-------------------------------------------------------------------------------
(* Writes.                                                                   *)

LEMMA FieldsAre ==
    ASSUME LifecycleInv, NEW c \in Calls
    PROVE  /\ DOMAIN call = Calls
           /\ call[c] = [f \in Fields |-> call[c][f]]
           /\ call[c].nodes \subseteq Nodes /\ call[c].undo \subseteq Edges /\ call[c].puts \subseteq Edges
           /\ Stands(call[c])
<1>1. call = [d \in Calls |-> call[d]] /\ Shape(call[c]) /\ Stands(call[c])
    BY DEF LifecycleInv
<1> QED BY <1>1 DEF Shape

LEMMA MigratedIs ==
    ASSUME NEW E \in SUBSET Edges, NEW S \in SUBSET Nodes, NEW n \in Nodes, NEW because
    PROVE  Migrated(E, S, n, because) \subseteq Edges
<1>1. \A e \in E : Repoint(e, S, n) \in Edges
    BY DEF Repoint, Edge, Edges
<1> QED BY <1>1 DEF Migrated, Incident

LEMMA MovingIs ==
    ASSUME NEW E \in SUBSET Edges, NEW S
    PROVE  Moving(E, S) \subseteq Edges
BY DEF Moving, Incident

\* What a write leaves of each node and each payload is what the invariant is about.
LEMMA WrittenInv ==
    ASSUME LifecycleInv, OneAtATime,
           status' = [n \in Nodes |-> status'[n]], lifecycle' = [n \in Nodes |-> lifecycle'[n]],
           before' \in [Nodes -> SUBSET Edges], edges' \subseteq Edges, UNCHANGED calls,
           \A n \in Nodes : Sound(status'[n], lifecycle'[n]), PayloadsAreSound',
           NEW c \in Calls, NEW r, Becomes(c, r), Shape(r), Stands(r)'
    PROVE  LifecycleInv'
<1>1. /\ call' = [d \in Calls |-> call'[d]]
      /\ \A d \in Calls : Shape(call'[d]) /\ Stands(call[d])'
    BY CallsStand
<1> QED BY <1>1 DEF LifecycleInv

LEMMA MergeEdgesAre ==
    ASSUME NEW S \in SUBSET Nodes, NEW n \in Nodes
    PROVE  MergeEdges(S, n) \subseteq Edges
<1> DEFINE A == {Edge(x, n, "merged_into") : x \in S}
           B == UNION {{Edge(n, m, "has_metacontext") : m \in Metacontexts(x)} : x \in S}
           C == UNION {{Edge(x, i, "evidence_merged") : i \in Dependents(x)} : x \in S}
<1>1. A \subseteq Edges
  <2>1. \A x \in S : Edge(x, n, "merged_into") \in Edges
      BY EdgeIs DEF Types
  <2> QED BY <2>1
<1>2. B \subseteq Edges
  <2>1. \A x \in S : \A m \in Metacontexts(x) : Edge(n, m, "has_metacontext") \in Edges
      BY EdgeIs DEF Types, Metacontexts
  <2>2. \A x \in S : {Edge(n, m, "has_metacontext") : m \in Metacontexts(x)} \subseteq Edges
      BY <2>1
  <2> QED BY <2>2
<1>3. C \subseteq Edges
  <2>1. \A x : \A i \in Dependents(x) : i \in Nodes \cup Others
      BY DEF Dependents
  <2>2. \A x \in S : \A i \in Dependents(x) : Edge(x, i, "evidence_merged") \in Edges
      BY <2>1, EdgeIs DEF Types
  <2>3. \A x \in S : {Edge(x, i, "evidence_merged") : i \in Dependents(x)} \subseteq Edges
      BY <2>2
  <2> QED BY <2>3
<1>4. MergeEdges(S, n) = A \cup B \cup C
    BY DEF MergeEdges
<1> HIDE DEF A, B, C
<1> QED BY <1>1, <1>2, <1>3, <1>4

LEMMA CaptureMergeInv ==
    ASSUME LifecycleInv, OneAtATime, NEW c \in Calls, CaptureMerge(c)
    PROVE  LifecycleInv'
<1> PICK S, n, r, M, P :
        /\ S = call[c].nodes /\ n = call[c].into /\ r = call'[c]
        /\ M = Moving(edges, S) /\ P = MergeEdges(S, n)
    OBVIOUS
<1>1. /\ S \subseteq Nodes /\ n \in Nodes /\ ~Stored(n)
      /\ \A x \in S : Active(x) /\ CompletedMergeCycles(x) < CycleLimit
    BY FieldsAre DEF CaptureMerge, Stands
<1>2. M \subseteq Edges /\ P \subseteq Edges
    BY <1>1, MovingIs, MergeEdgesAre DEF LifecycleInv
<1>3. call' = [call EXCEPT ![c].op = "merge", ![c].undo = M, ![c].puts = P]
    BY DEF CaptureMerge
<1>4. UNCHANGED <<graph, before>> /\ calls' \in 0 .. MaxCalls
    BY DEF CaptureMerge, LifecycleInv
<1>5. Becomes(c, r)
    BY <1>3, FieldsAre DEF Becomes
<1>6. /\ r = [f \in Fields |-> r[f]] /\ r.op = "merge" /\ r.nodes = S /\ r.into = n
      /\ r.undo = M /\ r.puts = P
  <2>1. DOMAIN call = Calls /\ call[c] = [f \in Fields |-> call[c][f]]
      BY FieldsAre
  <2> QED BY <1>3, <2>1 DEF Fields
<1>7. Shape(r) /\ Stands(r)
    BY <1>1, <1>2, <1>6 DEF Shape, Ops, Stands
<1> QED BY <1>4, <1>5, <1>7, PlanInv

LEMMA CommitMergeInv ==
    ASSUME LifecycleInv, OneAtATime, NEW c \in Calls, CommitMerge(c)
    PROVE  LifecycleInv'
<1> PICK S, n, U, r : S = call[c].nodes /\ n = call[c].into /\ U = call[c].undo /\ r = call'[c]
    OBVIOUS
<1>1. /\ S \subseteq Nodes /\ n \in Nodes /\ ~Stored(n) /\ U \subseteq Edges /\ U = Moving(edges, S)
      /\ \A x \in S : Active(x) /\ CompletedMergeCycles(x) < CycleLimit
    BY FieldsAre DEF CommitMerge, Stands
<1>2. /\ status' = [x \in Nodes |-> IF x \in S THEN "merged" ELSE IF x = n THEN "active" ELSE status[x]]
      /\ lifecycle' = Retire(S, "merged")
      /\ undo' = [undo EXCEPT ![n] = [sources |-> S, edges |-> U]]
      /\ edges' = Migrated(edges, S, n, "merged") \cup call[c].puts
      /\ before' = [before EXCEPT ![n] = Moving(edges, S)]
      /\ call' = [call EXCEPT ![c].op = "evict"]
      /\ UNCHANGED calls
    BY DEF CommitMerge
<1>3. /\ \A x \in S : status[x] = "active"
      /\ status[n] = "absent" /\ n \notin S
    BY <1>1 DEF Active, Stored
<1>4. edges' \subseteq Edges /\ before' \in [Nodes -> SUBSET Edges]
  <2>1. Migrated(edges, S, n, "merged") \subseteq Edges /\ Moving(edges, S) \subseteq Edges
      BY <1>1, MigratedIs DEF LifecycleInv
  <2> QED BY <1>1, <1>2, <2>1, FieldsAre DEF LifecycleInv
<1>5. \A m \in Nodes : Sound(status'[m], lifecycle'[m])
  <2> SUFFICES ASSUME NEW m \in Nodes PROVE Sound(status'[m], lifecycle'[m])
      OBVIOUS
  <2>1. Sound(status[m], lifecycle[m])
      BY DEF LifecycleInv
  <2>2. CASE m \in S
    <3>1. status'[m] = "merged" /\ lifecycle'[m] = WithRetirement(lifecycle[m], "merged")
        BY <1>2, <2>2 DEF Retire
    <3>2. Cardinality(Reversed(lifecycle[m])) < CycleLimit
        BY <1>1, <2>2 DEF CompletedMergeCycles, Reversed
    <3>3. "merged" \in Retired /\ Sound("active", lifecycle[m])
        BY <1>3, <2>1, <2>2 DEF Retired
    <3> QED BY <3>1, <3>2, <3>3, RetireSound
  <2>3. CASE m = n
    <3>1. status'[m] = "active" /\ lifecycle'[m] = lifecycle[m]
        BY <1>2, <1>3, <2>3 DEF Retire
    <3> QED BY <1>3, <2>1, <2>3, <3>1, BlankSound
  <2>4. CASE m \notin S /\ m # n
    <3>1. status'[m] = status[m] /\ lifecycle'[m] = lifecycle[m]
        BY <1>2, <2>4 DEF Retire
    <3> QED BY <2>1, <3>1
  <2> QED BY <2>2, <2>3, <2>4
<1>6. PayloadsAreSound'
  <2>1. /\ undo' \in [Nodes -> [sources : SUBSET Nodes, edges : SUBSET Edges]]
        /\ undo'[n].sources = S /\ undo'[n].edges = U
        /\ \A s \in Nodes \ {n} : undo'[s] = undo[s]
      BY <1>1, <1>2 DEF LifecycleInv, PayloadsAreSound
  <2>2. before'[n] = U /\ \A s \in Nodes \ {n} : before'[s] = before[s]
      BY <1>1, <1>2 DEF LifecycleInv
  <2>3. /\ \A x \in Nodes : status[x] = "merged" => status'[x] = "merged"
        /\ \A x \in Nodes : status'[x] = "absent" => status[x] = "absent" /\ x # n
        /\ \A x \in S : status'[x] = "merged"
      BY <1>1, <1>2, <1>3
  <2>4. \A s \in Nodes : undo[s].sources \cap S = {} /\ undo[s].sources \subseteq Nodes
      BY <1>3 DEF LifecycleInv, PayloadsAreSound
  <2>5. ASSUME NEW s \in Nodes
        PROVE  /\ status'[s] = "absent" => undo'[s] = NoUndo
               /\ undo'[s] # NoUndo => undo'[s].edges = before'[s]
               /\ \A x \in undo'[s].sources : status'[x] = "merged"
    <3>1. /\ status[s] = "absent" => undo[s] = NoUndo
          /\ undo[s] # NoUndo => undo[s].edges = before[s]
          /\ \A x \in undo[s].sources : status[x] = "merged"
        BY DEF LifecycleInv, PayloadsAreSound
    <3>2. CASE s = n
        BY <2>1, <2>2, <2>3, <3>2
    <3>3. CASE s # n
      <4>1. undo'[s] = undo[s] /\ before'[s] = before[s]
          BY <2>1, <2>2, <3>3
      <4> QED BY <2>3, <2>4, <3>1, <4>1
    <3> QED BY <3>2, <3>3
  <2>6. ASSUME NEW s \in Nodes, NEW t \in Nodes, s # t
        PROVE  undo'[s].sources \cap undo'[t].sources = {}
    <3>1. undo[s].sources \cap undo[t].sources = {}
        BY <2>6 DEF LifecycleInv, PayloadsAreSound
    <3>2. /\ undo'[s].sources = IF s = n THEN S ELSE undo[s].sources
          /\ undo'[t].sources = IF t = n THEN S ELSE undo[t].sources
        BY <2>1
    <3> QED BY <2>4, <2>6, <3>1, <3>2
  <2> QED BY <2>1, <2>5, <2>6 DEF PayloadsAreSound
<1>7. Becomes(c, r)
    BY <1>2, FieldsAre DEF Becomes
<1>8. /\ r = [f \in Fields |-> r[f]] /\ r.op = "evict" /\ r.nodes = S /\ r.into = n
      /\ r.undo = U /\ r.puts = call[c].puts
  <2>1. DOMAIN call = Calls /\ call[c] = [f \in Fields |-> call[c][f]]
      BY FieldsAre
  <2> QED BY <1>2, <2>1 DEF Fields
<1>9. Shape(r) /\ Stands(r)'
    BY <1>1, <1>8, FieldsAre DEF Shape, Ops, Stands
<1>10. /\ status' = [x \in Nodes |-> status'[x]]
       /\ lifecycle' = [x \in Nodes |-> lifecycle'[x]]
    BY <1>2 DEF Retire
<1> QED BY <1>2, <1>4, <1>5, <1>6, <1>7, <1>9, <1>10, WrittenInv

\* The walk through the payloads has the ancestors as they are.
LEMMA EvictInv ==
    ASSUME LifecycleInv, OneAtATime, NEW c \in Calls, Evict(c)
    PROVE  LifecycleInv'
<1> PICK deep, r : deep = TooDeep(call[c].into) /\ r = call'[c]
    OBVIOUS
<1>1. deep \subseteq Nodes
    BY DEF TooDeep
<1>2. CASE Done(c)
    BY <1>2, DoneInv DEF Evict
<1>3. CASE ~Done(c)
  <2> PICK W : W = [n \in deep |-> [status |-> status[n], lifecycle |-> lifecycle[n]]]
      OBVIOUS
  <2>1. call' = [call EXCEPT ![c].op = "clear", ![c].nodes = deep, ![c].was = W]
      BY <1>3 DEF Evict
  <2>2. UNCHANGED <<graph, before>> /\ calls' \in 0 .. MaxCalls
      BY DEF Evict, LifecycleInv
  <2>3. Becomes(c, r)
      BY <2>1, FieldsAre DEF Becomes
  <2>4. /\ r = [f \in Fields |-> r[f]] /\ r.op = "clear" /\ r.nodes = deep /\ r.was = W
        /\ r.undo = call[c].undo /\ r.puts = call[c].puts
    <3>1. DOMAIN call = Calls /\ call[c] = [f \in Fields |-> call[c][f]]
        BY FieldsAre
    <3> QED BY <2>1, <3>1 DEF Fields
  <2>5. \A x \in deep : W[x].status = status[x] /\ W[x].lifecycle = lifecycle[x]
      OBVIOUS
  <2>6. Shape(r)
      BY <1>1, <2>4, FieldsAre DEF Shape, Ops
  <2>7. \A x \in r.nodes : r.was[x].status = status[x] /\ r.was[x].lifecycle = lifecycle[x]
      BY <2>4, <2>5
  <2>8. Stands(r)
      BY <2>4, <2>7 DEF Stands
  <2> QED BY <2>2, <2>3, <2>6, <2>8, PlanInv
<1> QED BY <1>2, <1>3

\* What is written back is what is there, but for the payload.
LEMMA ClearUndoInv ==
    ASSUME LifecycleInv, OneAtATime, NEW c \in Calls, ClearUndo(c)
    PROVE  LifecycleInv'
<1> PICK n \in call[c].nodes :
        /\ call[c].op = "clear"
        /\ status' = [status EXCEPT ![n] = call[c].was[n].status]
        /\ lifecycle' = [lifecycle EXCEPT ![n] = call[c].was[n].lifecycle]
        /\ undo' = [undo EXCEPT ![n] = NoUndo]
        /\ IF call[c].nodes = {n} THEN Done(c)
           ELSE call' = [call EXCEPT ![c].nodes = @ \ {n}]
        /\ UNCHANGED <<edges, calls, before>>
    BY DEF ClearUndo
<1> PICK r : r = call'[c]
    OBVIOUS
<1>1. /\ n \in Nodes
      /\ \A x \in call[c].nodes :
            call[c].was[x].status = status[x] /\ call[c].was[x].lifecycle = lifecycle[x]
  <2>1. Stands(call[c]) /\ call[c].nodes \subseteq Nodes
      BY FieldsAre
  <2> QED BY <2>1 DEF Stands
<1>2. status' = status /\ lifecycle' = lifecycle
    BY <1>1 DEF LifecycleInv
<1>3. PayloadsAreSound'
  <2>1. /\ undo' \in [Nodes -> [sources : SUBSET Nodes, edges : SUBSET Edges]]
        /\ undo'[n] = NoUndo /\ \A s \in Nodes \ {n} : undo'[s] = undo[s]
      BY <1>1 DEF LifecycleInv, PayloadsAreSound, NoUndo
  <2>2. NoUndo.sources = {}
      BY DEF NoUndo
  <2>3. \A s \in Nodes : undo'[s] # NoUndo => undo'[s] = undo[s]
      BY <2>1
  <2>4. \A s \in Nodes : undo'[s].sources \subseteq undo[s].sources
      BY <2>1, <2>2
  <2>5. ASSUME NEW s \in Nodes
        PROVE  /\ status[s] = "absent" => undo'[s] = NoUndo
               /\ undo'[s] # NoUndo => undo'[s].edges = before[s]
               /\ \A x \in undo'[s].sources : status[x] = "merged"
    <3>1. /\ status[s] = "absent" => undo[s] = NoUndo
          /\ undo[s] # NoUndo => undo[s].edges = before[s]
          /\ \A x \in undo[s].sources : status[x] = "merged"
        BY DEF LifecycleInv, PayloadsAreSound
    <3>2. undo'[s] = NoUndo \/ undo'[s] = undo[s]
        BY <2>3
    <3> QED BY <2>4, <3>1, <3>2
  <2>6. ASSUME NEW s \in Nodes, NEW t \in Nodes, s # t
        PROVE  undo'[s].sources \cap undo'[t].sources = {}
      BY <2>4, <2>6 DEF LifecycleInv, PayloadsAreSound
  <2> QED BY <1>2, <2>1, <2>5, <2>6 DEF PayloadsAreSound
<1>4. \A m \in Nodes : Sound(status'[m], lifecycle'[m])
    BY <1>2 DEF LifecycleInv
<1>5. Becomes(c, r) /\ Shape(r) /\ Stands(r)'
  <2>1. CASE Done(c)
    <3>1. r = NoCall /\ Becomes(c, r)
        BY <2>1, FieldsAre DEF Done, Becomes
    <3> QED BY <3>1, NothingPlanned, NothingStands
  <2>2. CASE call' = [call EXCEPT ![c].nodes = @ \ {n}]
    <3>1. Becomes(c, r)
        BY <2>2, FieldsAre DEF Becomes
    <3>2. DOMAIN call = Calls /\ call[c] = [f \in Fields |-> call[c][f]]
        BY FieldsAre
    <3>3. /\ r = [f \in Fields |-> r[f]] /\ r.op = "clear" /\ r.nodes = call[c].nodes \ {n}
          /\ r.was = call[c].was /\ r.undo = call[c].undo /\ r.puts = call[c].puts
        BY <2>2, <3>2 DEF Fields
    <3>4. Shape(r)
        BY <3>3, FieldsAre DEF Shape, Ops
    <3>5. \A x \in r.nodes : r.was[x].status = status'[x] /\ r.was[x].lifecycle = lifecycle'[x]
        BY <1>1, <1>2, <3>3
    <3>6. Stands(r)'
        BY <3>3, <3>5 DEF Stands
    <3> QED BY <3>1, <3>4, <3>6
  <2> QED BY <2>1, <2>2
<1>6. /\ status' = [x \in Nodes |-> status'[x]] /\ lifecycle' = [x \in Nodes |-> lifecycle'[x]]
      /\ edges' \subseteq Edges /\ before' \in [Nodes -> SUBSET Edges]
    BY <1>2 DEF LifecycleInv
<1> QED BY <1>3, <1>4, <1>5, <1>6, WrittenInv

LEMMA PlanDropsInv ==
    ASSUME LifecycleInv, OneAtATime, NEW c \in Calls, PlanDrops(c)
    PROVE  LifecycleInv'
<1> PICK D, r :
        /\ D = Incident(edges, {call[c].into})
               \cup {e \in edges : e.src \in call[c].nodes /\ e.type = "evidence_merged"}
        /\ r = call'[c]
    OBVIOUS
<1>1. call' = [call EXCEPT ![c].op = "reverse", ![c].drops = D]
    BY DEF PlanDrops
<1>2. UNCHANGED <<graph, before>> /\ calls' \in 0 .. MaxCalls
    BY DEF PlanDrops, LifecycleInv
<1>3. Becomes(c, r)
    BY <1>1, FieldsAre DEF Becomes
<1>4. /\ r = [f \in Fields |-> r[f]] /\ r.op = "reverse" /\ r.nodes = call[c].nodes
      /\ r.into = call[c].into /\ r.undo = call[c].undo /\ r.puts = call[c].puts
  <2>1. DOMAIN call = Calls /\ call[c] = [f \in Fields |-> call[c][f]]
      BY FieldsAre
  <2> QED BY <1>1, <2>1 DEF Fields
<1>5. call[c].op = "restore"
    BY DEF PlanDrops
<1>6. Shape(r)
    BY <1>4, FieldsAre DEF Shape, Ops
<1>7. Stands(r)
    BY <1>4, <1>5, FieldsAre DEF Stands
<1> QED BY <1>2, <1>3, <1>6, <1>7, PlanInv

\* A write that ends its call.
LEMMA EndInv ==
    ASSUME LifecycleInv, OneAtATime,
           status' = [n \in Nodes |-> status'[n]], lifecycle' = [n \in Nodes |-> lifecycle'[n]],
           before' \in [Nodes -> SUBSET Edges], edges' \subseteq Edges, UNCHANGED calls,
           \A n \in Nodes : Sound(status'[n], lifecycle'[n]), PayloadsAreSound',
           NEW c \in Calls, Done(c)
    PROVE  LifecycleInv'
<1>1. Becomes(c, NoCall)
    BY DEF Done, Becomes
<1> QED BY <1>1, NothingPlanned, NothingStands, WrittenInv

LEMMA CommitReverseInv ==
    ASSUME LifecycleInv, OneAtATime, NEW c \in Calls, CommitReverse(c)
    PROVE  LifecycleInv'
<1> PICK S, s : S = call[c].nodes /\ s = call[c].into
    OBVIOUS
<1>1. S \subseteq Nodes /\ s \in Nodes /\ status[s] = "active" /\ S = undo[s].sources
    BY FieldsAre DEF CommitReverse, Stands, Active
<1>2. /\ status' = [x \in Nodes |-> IF x \in S THEN "active" ELSE IF x = s THEN "absent" ELSE status[x]]
      /\ lifecycle' = [Return(S) EXCEPT ![s] = <<>>]
      /\ undo' = [undo EXCEPT ![s] = NoUndo]
      /\ edges' = (edges \ call[c].drops) \cup call[c].puts
      /\ before' = [before EXCEPT ![s] = {}]
      /\ Done(c) /\ UNCHANGED calls
    BY DEF CommitReverse
<1>3. /\ \A x \in S : status[x] = "merged"
      /\ s \notin S
  <2>1. \A x \in undo[s].sources : status[x] = "merged"
      BY <1>1 DEF LifecycleInv, PayloadsAreSound
  <2> QED BY <1>1, <2>1
<1>4. edges' \subseteq Edges /\ before' \in [Nodes -> SUBSET Edges]
    BY <1>1, <1>2, FieldsAre DEF LifecycleInv
<1>5. \A m \in Nodes : Sound(status'[m], lifecycle'[m])
  <2> SUFFICES ASSUME NEW m \in Nodes PROVE Sound(status'[m], lifecycle'[m])
      OBVIOUS
  <2>1. Sound(status[m], lifecycle[m])
      BY DEF LifecycleInv
  <2>2. CASE m \in S
    <3>1. status'[m] = "active" /\ lifecycle'[m] = WithReturn(lifecycle[m])
        BY <1>2, <1>3, <2>2 DEF Return
    <3> QED BY <1>3, <2>1, <2>2, <3>1, ReturnSound
  <2>3. CASE m = s
    <3>1. status'[m] = "absent" /\ lifecycle'[m] = <<>>
        BY <1>2, <1>3, <2>3 DEF Return
    <3> QED BY <3>1, BlankSound
  <2>4. CASE m \notin S /\ m # s
    <3>1. status'[m] = status[m] /\ lifecycle'[m] = lifecycle[m]
        BY <1>2, <2>4 DEF Return
    <3> QED BY <2>1, <3>1
  <2> QED BY <2>2, <2>3, <2>4
<1>6. PayloadsAreSound'
  <2>1. /\ undo' \in [Nodes -> [sources : SUBSET Nodes, edges : SUBSET Edges]]
        /\ undo'[s] = NoUndo /\ \A t \in Nodes \ {s} : undo'[t] = undo[t]
      BY <1>1, <1>2 DEF LifecycleInv, PayloadsAreSound, NoUndo
  <2>2. \A t \in Nodes \ {s} : before'[t] = before[t]
      BY <1>1, <1>2 DEF LifecycleInv
  <2>3. NoUndo.sources = {}
      BY DEF NoUndo
  <2>4. /\ \A x \in Nodes \ S : status[x] = "merged" => status'[x] = "merged"
        /\ \A x \in Nodes : status'[x] = "absent" => status[x] = "absent" \/ x = s
      BY <1>1, <1>2
  <2>5. \A t \in Nodes \ {s} : undo[t].sources \cap S = {} /\ undo[t].sources \subseteq Nodes
      BY <1>1 DEF LifecycleInv, PayloadsAreSound
  <2>6. ASSUME NEW t \in Nodes
        PROVE  /\ status'[t] = "absent" => undo'[t] = NoUndo
               /\ undo'[t] # NoUndo => undo'[t].edges = before'[t]
               /\ \A x \in undo'[t].sources : status'[x] = "merged"
    <3>1. /\ status[t] = "absent" => undo[t] = NoUndo
          /\ undo[t] # NoUndo => undo[t].edges = before[t]
          /\ \A x \in undo[t].sources : status[x] = "merged"
        BY DEF LifecycleInv, PayloadsAreSound
    <3>2. CASE t = s
        BY <2>1, <2>3, <3>2
    <3>3. CASE t # s
      <4>1. undo'[t] = undo[t] /\ before'[t] = before[t]
          BY <2>1, <2>2, <3>3
      <4> QED BY <2>4, <2>5, <3>1, <3>3, <4>1
    <3> QED BY <3>2, <3>3
  <2>7. ASSUME NEW t \in Nodes, NEW u \in Nodes, t # u
        PROVE  undo'[t].sources \cap undo'[u].sources = {}
    <3>1. undo[t].sources \cap undo[u].sources = {}
        BY <2>7 DEF LifecycleInv, PayloadsAreSound
    <3>2. /\ undo'[t].sources = IF t = s THEN {} ELSE undo[t].sources
          /\ undo'[u].sources = IF u = s THEN {} ELSE undo[u].sources
        BY <2>1, <2>3
    <3> QED BY <3>1, <3>2
  <2> QED BY <2>1, <2>6, <2>7 DEF PayloadsAreSound
<1>7. /\ status' = [x \in Nodes |-> status'[x]]
      /\ lifecycle' = [x \in Nodes |-> lifecycle'[x]]
    BY <1>2 DEF Return
<1> QED BY <1>2, <1>4, <1>5, <1>6, <1>7, EndInv

\* Retirements and returns that leave merged nodes merged leave the payloads as they are.
LEMMA PayloadsStay ==
    ASSUME LifecycleInv, UNCHANGED <<undo, before>>,
           \A x \in Nodes : status[x] = "merged" => status'[x] = "merged",
           \A x \in Nodes : status'[x] = "absent" => status[x] = "absent"
    PROVE  PayloadsAreSound'
<1>1. \A s \in Nodes : undo[s].sources \subseteq Nodes
    BY DEF LifecycleInv, PayloadsAreSound
<1> QED BY <1>1 DEF LifecycleInv, PayloadsAreSound

LEMMA CommitSupersessionInv ==
    ASSUME LifecycleInv, OneAtATime, NEW c \in Calls, CommitSupersession(c)
    PROVE  LifecycleInv'
<1> PICK S, y, because, new :
        /\ S = call[c].nodes /\ y = call[c].into /\ because = call[c].because
        /\ new = (call[c].op = "update")
    OBVIOUS
<1>1. /\ S \subseteq Nodes /\ y \in Nodes /\ because \in {"corrected", "historical"}
      /\ \A x \in S : status[x] = "active" /\ x # y
      /\ new => status[y] = "absent"
    BY FieldsAre DEF CommitSupersession, Stands, Active, Stored
<1>2. /\ status' = [n \in Nodes |-> IF n \in S THEN because
                                    ELSE IF new /\ n = y THEN "active" ELSE status[n]]
      /\ lifecycle' = Retire(S, because)
      /\ edges' = ((IF new THEN Migrated(edges, S, y, because) ELSE edges) \cup call[c].puts)
                  \ call[c].drops
      /\ Done(c) /\ UNCHANGED <<undo, calls, before>>
    BY DEF CommitSupersession
<1>3. edges' \subseteq Edges /\ before' \in [Nodes -> SUBSET Edges]
  <2>1. Migrated(edges, S, y, because) \subseteq Edges
      BY <1>1, MigratedIs DEF LifecycleInv
  <2> QED BY <1>2, <2>1, FieldsAre DEF LifecycleInv
<1>4. \A m \in Nodes : Sound(status'[m], lifecycle'[m])
  <2> SUFFICES ASSUME NEW m \in Nodes PROVE Sound(status'[m], lifecycle'[m])
      OBVIOUS
  <2>1. Sound(status[m], lifecycle[m])
      BY DEF LifecycleInv
  <2>2. CASE m \in S
    <3>1. status'[m] = because /\ lifecycle'[m] = WithRetirement(lifecycle[m], because)
        BY <1>2, <2>2 DEF Retire
    <3>2. because \in Retired /\ because # "merged" /\ Sound("active", lifecycle[m])
        BY <1>1, <2>1, <2>2 DEF Retired
    <3> QED BY <3>1, <3>2, RetireSound
  <2>3. CASE m \notin S /\ new /\ m = y
    <3>1. status'[m] = "active" /\ lifecycle'[m] = lifecycle[m]
        BY <1>2, <2>3 DEF Retire
    <3> QED BY <1>1, <2>1, <2>3, <3>1, BlankSound
  <2>4. CASE m \notin S /\ ~(new /\ m = y)
    <3>1. status'[m] = status[m] /\ lifecycle'[m] = lifecycle[m]
        BY <1>2, <2>4 DEF Retire
    <3> QED BY <2>1, <3>1
  <2> QED BY <2>2, <2>3, <2>4
<1>5. PayloadsAreSound'
  <2>1. /\ \A x \in Nodes : status[x] = "merged" => status'[x] = "merged"
        /\ \A x \in Nodes : status'[x] = "absent" => status[x] = "absent"
      BY <1>1, <1>2
  <2> QED BY <1>2, <2>1, PayloadsStay
<1>6. /\ status' = [x \in Nodes |-> status'[x]]
      /\ lifecycle' = [x \in Nodes |-> lifecycle'[x]]
    BY <1>2 DEF Retire
<1> QED BY <1>2, <1>3, <1>4, <1>5, <1>6, EndInv

LEMMA CommitStatusInv ==
    ASSUME LifecycleInv, OneAtATime, NEW c \in Calls, CommitStatus(c)
    PROVE  LifecycleInv'
<1> PICK S, because : S = call[c].nodes /\ because = call[c].because
    OBVIOUS
<1>1. /\ S \subseteq Nodes
      /\ \/ because = "archived" /\ \A x \in S : status[x] = "active"
         \/ because = "active" /\ \A x \in S : status[x] \in {"archived", "historical"}
    BY FieldsAre DEF CommitStatus, Stands, Active
<1>2. /\ status' = [n \in Nodes |-> IF n \in S THEN because ELSE status[n]]
      /\ lifecycle' = IF because = "active" THEN Return(S) ELSE Retire(S, because)
      /\ edges' = edges \cup call[c].puts
      /\ Done(c) /\ UNCHANGED <<undo, calls, before>>
    BY DEF CommitStatus
<1>3. edges' \subseteq Edges /\ before' \in [Nodes -> SUBSET Edges]
    BY <1>2, FieldsAre DEF LifecycleInv
<1>4. \A m \in Nodes : Sound(status'[m], lifecycle'[m])
  <2> SUFFICES ASSUME NEW m \in Nodes PROVE Sound(status'[m], lifecycle'[m])
      OBVIOUS
  <2>1. Sound(status[m], lifecycle[m])
      BY DEF LifecycleInv
  <2>2. CASE m \notin S
    <3>1. status'[m] = status[m] /\ lifecycle'[m] = lifecycle[m]
        BY <1>2, <2>2 DEF Return, Retire
    <3> QED BY <2>1, <3>1
  <2>3. CASE m \in S /\ because = "archived"
    <3>1. status'[m] = "archived" /\ lifecycle'[m] = WithRetirement(lifecycle[m], "archived")
        BY <1>2, <2>3 DEF Retire
    <3>2. "archived" \in Retired /\ Sound("active", lifecycle[m])
        BY <1>1, <2>1, <2>3 DEF Retired
    <3> QED BY <3>1, <3>2, RetireSound
  <2>4. CASE m \in S /\ because = "active"
    <3>1. status'[m] = "active" /\ lifecycle'[m] = WithReturn(lifecycle[m])
        BY <1>2, <2>4 DEF Return
    <3>2. status[m] \in {"merged", "archived", "historical"}
        BY <1>1, <2>4
    <3> QED BY <2>1, <3>1, <3>2, ReturnSound
  <2> QED BY <1>1, <2>2, <2>3, <2>4
<1>5. PayloadsAreSound'
  <2>1. /\ \A x \in Nodes : status[x] = "merged" => status'[x] = "merged"
        /\ \A x \in Nodes : status'[x] = "absent" => status[x] = "absent"
      BY <1>1, <1>2
  <2> QED BY <1>2, <2>1, PayloadsStay
<1>6. /\ status' = [x \in Nodes |-> status'[x]]
      /\ lifecycle' = [x \in Nodes |-> lifecycle'[x]]
    BY <1>2 DEF Return, Retire
<1> QED BY <1>2, <1>3, <1>4, <1>5, <1>6, EndInv

LEMMA CommitLinkInv ==
    ASSUME LifecycleInv, OneAtATime, NEW c \in Calls, CommitLink(c)
    PROVE  LifecycleInv'
<1>1. /\ UNCHANGED <<status, lifecycle, undo, calls, before>> /\ Done(c)
      /\ edges' = edges \cup call[c].puts
    BY DEF CommitLink
<1>2. edges' \subseteq Edges /\ before' \in [Nodes -> SUBSET Edges]
    BY <1>1, FieldsAre DEF LifecycleInv
<1>3. PayloadsAreSound'
    BY <1>1, PayloadsStay
<1> QED BY <1>1, <1>2, <1>3, EndInv DEF LifecycleInv

LEMMA WriteInv ==
    ASSUME LifecycleInv, OneAtATime, NEW c \in Calls, Write(c)
    PROVE  LifecycleInv'
<1>1. CASE Abort(c)
    BY <1>1, DoneInv DEF Abort
<1> QED BY <1>1, CaptureMergeInv, CommitMergeInv, EvictInv, ClearUndoInv, PlanDropsInv,
           CommitReverseInv, CommitSupersessionInv, CommitStatusInv, CommitLinkInv DEF Write

--------------------------------------------------------------------------------
(* What holds of a sequential session.                                       *)

LEMMA InitInv == Init => LifecycleInv
<1> SUFFICES ASSUME Init PROVE LifecycleInv
    OBVIOUS
<1>1. \A n \in Nodes : Sound(status[n], lifecycle[n])
    BY BlankSound DEF Init
<1>2. PayloadsAreSound
  <2>1. NoUndo \in [sources : SUBSET Nodes, edges : SUBSET Edges] /\ NoUndo.sources = {}
      BY DEF NoUndo
  <2> QED BY <2>1 DEF Init, PayloadsAreSound
<1>3. \A c \in Calls : Shape(call[c]) /\ Stands(call[c])
    BY NothingPlanned, NothingStands DEF Init
<1> QED BY <1>1, <1>2, <1>3 DEF Init, LifecycleInv

LEMMA NextInv ==
    ASSUME LifecycleInv, OneAtATime, ~NamesRetired, [Next]_vars
    PROVE  LifecycleInv'
<1>1. CASE Next
    BY <1>1, BeginInv, WriteInv DEF Next
<1>2. CASE UNCHANGED vars
  <2>1. UNCHANGED <<status, lifecycle, undo, edges, call, calls, before>>
      BY <1>2 DEF vars, graph
  <2>2. PayloadsAreSound'
      BY <2>1 DEF LifecycleInv, PayloadsAreSound
  <2>3. ASSUME NEW c \in Calls PROVE Shape(call'[c]) /\ Stands(call[c])'
    <3> PICK r : r = call[c]
        OBVIOUS
    <3>1. Shape(r) /\ Stands(r) /\ r = call'[c]
        BY <2>1 DEF LifecycleInv
    <3>2. Stands(r)'
        BY <2>1, <3>1, StandsStill
    <3> QED BY <3>1, <3>2
  <2> QED BY <2>1, <2>2, <2>3 DEF LifecycleInv
<1> QED BY <1>1, <1>2

LEMMA InvIsStanding == LifecycleInv => StandingIsSound
<1> SUFFICES ASSUME LifecycleInv PROVE StandingIsSound
    OBVIOUS
<1>1. TypeOK
  <2>1. Seq(Episode) = Seq([because : Retired, open : BOOLEAN])
      BY DEF Episode
  <2> QED BY <2>1 DEF LifecycleInv, TypeOK, Sound, PayloadsAreSound, Shape
<1>2. OneOpenEpisode
    BY DEF LifecycleInv, Sound, Agree, OneOpenEpisode, Active
<1>3. NoRouteBack
    BY DEF LifecycleInv, Sound, Agree, NoRouteBack, Active
<1>4. SourcesStayMerged
    BY DEF LifecycleInv, PayloadsAreSound, SourcesStayMerged
<1> QED BY <1>1, <1>2, <1>3, <1>4 DEF StandingIsSound

LEMMA InvIsUndo == LifecycleInv => UndoIsSound
<1> SUFFICES ASSUME LifecycleInv PROVE UndoIsSound
    OBVIOUS
<1>1. CaptureIsCurrent
    BY DEF LifecycleInv, PayloadsAreSound, CaptureIsCurrent
<1>2. CyclesAreBounded
  <2> SUFFICES ASSUME NEW n \in Nodes PROVE CompletedMergeCycles(n) <= CycleLimit
      BY DEF CyclesAreBounded
  <2>1. lifecycle[n] \in Seq(Episode) /\ Cardinality(Merges(lifecycle[n])) <= CycleLimit
      BY DEF LifecycleInv, Sound
  <2>2. CompletedMergeCycles(n) = Cardinality(Reversed(lifecycle[n]))
      BY DEF CompletedMergeCycles, Reversed
  <2>3. /\ Cardinality(Reversed(lifecycle[n])) <= Cardinality(Merges(lifecycle[n]))
        /\ Cardinality(Merges(lifecycle[n])) \in Nat /\ Cardinality(Reversed(lifecycle[n])) \in Nat
      BY <2>1, MergesAreFew, FS_Subset, FS_CardinalityType
  <2> QED BY <2>1, <2>2, <2>3
<1> QED BY <1>1, <1>2 DEF UndoIsSound

\* In a session that makes one call at a time, of callers that name active nodes: a node's
\* last episode alone is open, and that while it is retired; a claim retired for being wrong
\* never returns; and the sources of a merge that can be reversed stay merged until it is.
THEOREM StandingStaysSound ==
    OneAtATime /\ ~NamesRetired => (Spec => []StandingIsSound)
<1> SUFFICES ASSUME OneAtATime, ~NamesRetired PROVE Spec => []StandingIsSound
    OBVIOUS
<1>1. LifecycleInv /\ [Next]_vars => LifecycleInv'
    BY NextInv
<1> QED BY <1>1, InitInv, InvIsStanding, PTL DEF Spec

\* In such a session what a merge kept to be reversed by is what it moved, and no claim is
\* merged and un-merged more often than merge_cycle_limit allows.
THEOREM UndoStaysSound ==
    OneAtATime /\ ~NamesRetired => (Spec => []UndoIsSound)
<1> SUFFICES ASSUME OneAtATime, ~NamesRetired PROVE Spec => []UndoIsSound
    OBVIOUS
<1>1. LifecycleInv /\ [Next]_vars => LifecycleInv'
    BY NextInv
<1> QED BY <1>1, InitInv, InvIsUndo, PTL DEF Spec

--------------------------------------------------------------------------------
(* The edges that say of a retired node what became of it.                   *)

Lines == {"merged_into", "superseded_by"}
Lasting == Lines \cup {"evidence_merged"}

\* What is derived is an inference, from a fact; and what a flag names is a node.
Fits(e) ==
    /\ e.type = "derived_from" => e.src \in Inferences /\ e.dst \in Nodes
    /\ e.type = "evidence_merged" => e.src \in Nodes

\* What is ingested, or written by other calls, is no lineage and no flag.
Ingested == \A e \in Known \cup Links : e.type \notin Lasting /\ Fits(e)

Follows(n, z) == \E e \in edges : e.src = n /\ e.dst = z /\ e.type \in Lines

\* A node merged away or corrected names the one that carries its content, and no other does.
LineageOf(n) ==
    IF status[n] \in {"merged", "corrected"}
    THEN \E y \in Nodes : Stored(y) /\ \A z \in Nodes \cup Others : Follows(n, z) <=> z = y
    ELSE \A z \in Nodes \cup Others : ~Follows(n, z)

\* What a payload holds is what a merge moves.
Moves(e, S) == Disposition(e.type, "merged") = "move" /\ Touches(e, S)

PayloadsFit ==
    \A s \in Nodes :
        /\ \A e \in undo[s].edges : Moves(e, undo[s].sources) /\ Fits(e)
        /\ \A x \in undo[s].sources : \A z \in Nodes \cup Others : Follows(x, z) => z = s

\* The edges a call is about to write and to drop.
Writes(r) ==
    /\ r.op = "merge" => r.puts = MergeEdges(r.nodes, r.into)
    /\ r.op \in {"restore", "reverse"} =>
         /\ r.puts = undo[r.into].edges
         /\ Incident(edges, {r.into}) \subseteq Expected(r.into)
    /\ r.op = "reverse" =>
         r.drops = Incident(edges, {r.into})
                   \cup {e \in edges : e.src \in r.nodes /\ e.type = "evidence_merged"}
    /\ r.op \in {"update", "supersede"} =>
         /\ \A e \in r.puts :
               \/ e.type \in {"temporally_followed_by", "evidence_superseded"}
               \/ e.type = "superseded_by" /\ r.because = "corrected"
                     /\ e.src \in r.nodes /\ e.dst = r.into
         /\ r.because = "corrected" => \A x \in r.nodes : Edge(x, r.into, "superseded_by") \in r.puts
         /\ \A e \in r.drops : e.type = "supersession_candidate"
    /\ r.op = "supersede" => Stored(r.into)
    /\ r.op = "status" => \A e \in r.puts : e.type = "sourced_from"
    /\ r.op = "link" => r.puts \subseteq Links

EdgeInv ==
    /\ \A e \in edges : Fits(e)
    /\ \A n \in Nodes : LineageOf(n)
    /\ PayloadsFit
    /\ ReworkedPremisesAreFlagged
    /\ \A c \in Calls : Writes(call[c])

\* Migration moves and copies other edges only, and derivations to where the facts went.
LEMMA MigratedKeeps ==
    ASSUME NEW E \in SUBSET Edges, NEW S \in SUBSET Nodes, NEW n \in Nodes,
           NEW because \in {"merged", "corrected", "historical"}
    PROVE  /\ \A e : e.type \in Lasting => (e \in Migrated(E, S, n, because) <=> e \in E)
           /\ (\A e \in E : Fits(e)) => \A e \in Migrated(E, S, n, because) : Fits(e)
<1> DEFINE Gone == {e \in Incident(E, S) : Disposition(e.type, because) = "move"}
           Some == {e \in Incident(E, S) : Disposition(e.type, because) # "keep"}
           New == {Repoint(e, S, n) : e \in Some}
<1>1. Migrated(E, S, n, because) = (E \ Gone) \cup {e \in New : e.src # e.dst}
    BY DEF Migrated
<1>2. \A t \in Lasting : Disposition(t, because) = "keep"
    BY DEF Disposition, Lasting, Lines
<1>3. \A e \in E : /\ Repoint(e, S, n).type = e.type
                   /\ Repoint(e, S, n).src = IF e.src \in S THEN n ELSE e.src
                   /\ Repoint(e, S, n).dst = IF e.dst \in S THEN n ELSE e.dst
    BY DEF Repoint, Edge
<1>4. /\ \A e \in Gone : e \in E /\ e.type \notin Lasting
      /\ \A e \in New : \E d \in Some : e = Repoint(d, S, n)
      /\ \A d \in Some : d \in E /\ d.type \notin Lasting
    BY <1>2 DEF Incident
<1> HIDE DEF Gone, New
<1>5. \A e \in New : e.type \notin Lasting
    BY <1>3, <1>4
<1>6. ASSUME \A e \in E : Fits(e), NEW e \in New PROVE Fits(e)
  <2>1. PICK d \in E : e = Repoint(d, S, n)
      BY <1>4
  <2>2. Fits(d)
      BY <1>6
  <2>3. d.type = "derived_from" => d.src \notin S
      BY <2>2 DEF Fits
  <2>4. e.type # "evidence_merged"
      BY <1>5 DEF Lasting
  <2> QED BY <1>3, <2>1, <2>2, <2>3, <2>4 DEF Fits
<1> QED BY <1>1, <1>4, <1>5, <1>6

\* The edges a merge writes.
LEMMA MergeEdgesInclude ==
    ASSUME NEW S \in SUBSET Nodes, NEW n \in Nodes
    PROVE  /\ \A x \in S : Edge(x, n, "merged_into") \in MergeEdges(S, n)
           /\ \A x \in S : \A i \in Dependents(x) : Edge(x, i, "evidence_merged") \in MergeEdges(S, n)
           /\ \A e \in MergeEdges(S, n) :
                 \/ \E x \in S : e = Edge(x, n, "merged_into")
                 \/ \E x \in S : \E m \in Metacontexts(x) : e = Edge(n, m, "has_metacontext")
                 \/ \E x \in S : \E i \in Dependents(x) : e = Edge(x, i, "evidence_merged")
<1> DEFINE A == {Edge(x, n, "merged_into") : x \in S}
           F(x) == {Edge(n, m, "has_metacontext") : m \in Metacontexts(x)}
           G(x) == {Edge(x, i, "evidence_merged") : i \in Dependents(x)}
           B == UNION {F(x) : x \in S}
           C == UNION {G(x) : x \in S}
<1>1. MergeEdges(S, n) = A \cup B \cup C
    BY DEF MergeEdges
<1>2. \A e : e \in A <=> \E x \in S : e = Edge(x, n, "merged_into")
    OBVIOUS
<1>3. \A e, x : e \in F(x) <=> \E m \in Metacontexts(x) : e = Edge(n, m, "has_metacontext")
    OBVIOUS
<1>4. \A e, x : e \in G(x) <=> \E i \in Dependents(x) : e = Edge(x, i, "evidence_merged")
    OBVIOUS
<1> HIDE DEF A, F, G
<1>5. /\ \A e : e \in B <=> \E x \in S : e \in F(x)
      /\ \A e : e \in C <=> \E x \in S : e \in G(x)
    OBVIOUS
<1> HIDE DEF B, C
<1> QED BY <1>1, <1>2, <1>3, <1>4, <1>5

\* What a merge's edges are called.
LEMMA MergeEdgesTypes ==
    ASSUME NEW S \in SUBSET Nodes, NEW n \in Nodes, NEW e \in MergeEdges(S, n)
    PROVE  /\ e.type # "derived_from"
           /\ e.type \in Lines => e.src \in S /\ e.dst = n
           /\ e.type = "evidence_merged" => e.src \in S
<1>1. \/ \E x \in S : e = Edge(x, n, "merged_into")
      \/ \E x \in S : \E m \in Metacontexts(x) : e = Edge(n, m, "has_metacontext")
      \/ \E x \in S : \E i \in Dependents(x) : e = Edge(x, i, "evidence_merged")
    BY MergeEdgesInclude
<1>2. \A s, d, t : Edge(s, d, t).src = s /\ Edge(s, d, t).dst = d /\ Edge(s, d, t).type = t
    BY DEF Edge
<1> QED BY <1>1, <1>2 DEF Lines

\* Where nothing is written, what was to be written still is.
LEMMA WritesStill ==
    ASSUME NEW r, Writes(r), UNCHANGED <<status, lifecycle, undo, edges>>
    PROVE  Writes(r)'
<1>1. /\ MergeEdges(r.nodes, r.into)' = MergeEdges(r.nodes, r.into)
      /\ Expected(r.into)' = Expected(r.into)
      /\ Incident(edges, {r.into})' = Incident(edges, {r.into})
      /\ Stored(r.into)' = Stored(r.into)
    BY DEF MergeEdges, Expected, Incident, Metacontexts, Dependents, Stored
<1> QED BY <1>1 DEF Writes

LEMMA EdgesStill ==
    ASSUME EdgeInv, UNCHANGED <<status, lifecycle, undo, edges>>
    PROVE  /\ (\A e \in edges : Fits(e))' /\ (\A n \in Nodes : LineageOf(n))'
           /\ PayloadsFit' /\ ReworkedPremisesAreFlagged'
BY DEF EdgeInv, LineageOf, Follows, Stored, PayloadsFit, ReworkedPremisesAreFlagged

LEMMA EdgePlanInv ==
    ASSUME LifecycleInv, EdgeInv, OneAtATime, UNCHANGED graph, NEW c \in Calls, NEW r,
           Becomes(c, r), Writes(r)
    PROVE  EdgeInv'
<1>1. UNCHANGED <<status, lifecycle, undo, edges>>
    BY DEF graph
<1>2. \A d \in Calls : call'[d] = r
    BY DEF LifecycleInv, OneAtATime, Becomes
<1>3. Writes(r)'
    BY <1>1, WritesStill
<1>4. \A d \in Calls : Writes(call[d])'
    BY <1>2, <1>3
<1> QED BY <1>1, <1>4, EdgesStill DEF EdgeInv

LEMMA NothingWrites == Writes(NoCall) /\ Writes(NoCall)'
BY NoCallIs DEF Writes

LEMMA EdgeDoneInv ==
    ASSUME LifecycleInv, EdgeInv, OneAtATime, UNCHANGED graph, NEW c \in Calls, Done(c)
    PROVE  EdgeInv'
<1>1. Becomes(c, NoCall)
    BY DEF Done, Becomes
<1> QED BY <1>1, NothingWrites, EdgePlanInv

\* A write that ends its call, or leaves it something else than edges to write.
LEMMA EdgeEndInv ==
    ASSUME LifecycleInv, OneAtATime, NEW c \in Calls, NEW r, Becomes(c, r), Writes(r)',
           (\A e \in edges : Fits(e))', (\A n \in Nodes : LineageOf(n))',
           PayloadsFit', ReworkedPremisesAreFlagged'
    PROVE  EdgeInv'
<1>1. \A d \in Calls : call'[d] = r
    BY DEF LifecycleInv, OneAtATime, Becomes
<1>2. \A d \in Calls : Writes(call[d])'
    BY <1>1
<1> QED BY <1>2 DEF EdgeInv

LEMMA EdgePlan ==
    ASSUME LifecycleInv, EdgeInv, OneAtATime, NEW c \in Calls, NEW r, Plan(c, r), Writes(r)
    PROVE  EdgeInv'
<1>1. Becomes(c, r) /\ UNCHANGED graph
    BY DEF Plan, Becomes
<1> QED BY <1>1, EdgePlanInv

LEMMA SupersessionWrites ==
    ASSUME LifecycleInv, EdgeInv, OneAtATime, NEW c \in Calls, NEW op \in {"update", "supersede"},
           NEW x \in Nodes, NEW y \in Nodes, NEW because \in {"corrected", "historical"},
           op = "supersede" => Stored(y), PlanSupersession(c, op, x, y, because)
    PROVE  EdgeInv'
<1> PICK P, D :
        /\ P = {Edge(x, y, Lineage(because))} \cup {Edge(x, i, "evidence_superseded") : i \in Dependents(x)}
        /\ D = {e \in edges : e.dst = x /\ e.type = "supersession_candidate"}
    OBVIOUS
<1> DEFINE r == [NoCall EXCEPT !.op = op, !.nodes = {x}, !.into = y, !.because = because,
                               !.puts = P, !.drops = D]
<1>1. Plan(c, r)
    BY DEF PlanSupersession
<1>2. /\ r.op = op /\ r.nodes = {x} /\ r.into = y /\ r.because = because /\ r.puts = P /\ r.drops = D
    BY NoCallIs DEF Fields
<1> HIDE DEF r
<1>3. \A s, d, t : Edge(s, d, t).src = s /\ Edge(s, d, t).dst = d /\ Edge(s, d, t).type = t
    BY DEF Edge
<1>4. \A e \in P : \/ e.type \in {"temporally_followed_by", "evidence_superseded"}
                   \/ e.type = "superseded_by" /\ because = "corrected" /\ e.src = x /\ e.dst = y
    BY <1>3 DEF Lineage
<1>5. because = "corrected" => Edge(x, y, "superseded_by") \in P
    BY DEF Lineage
<1>6. \A e \in D : e.type = "supersession_candidate"
    OBVIOUS
<1>7. Writes(r)
    BY <1>2, <1>4, <1>5, <1>6 DEF Writes
<1> QED BY <1>1, <1>7, EdgePlan

LEMMA BeginWrites ==
    ASSUME LifecycleInv, EdgeInv, OneAtATime, ~NamesRetired, NEW c \in Calls, Begin(c)
    PROVE  EdgeInv'
<1>1. ASSUME NEW x \in Nodes, NEW b \in {"corrected", "historical"}, NEW n \in Fresh,
             PlanUpdate(c, x, n, b)
      PROVE  EdgeInv'
    BY <1>1, SupersessionWrites DEF PlanUpdate, Nodes
<1>2. ASSUME NEW x \in Nodes, NEW b \in {"corrected", "historical"}, NEW y \in Nodes,
             PlanSupersedeBy(c, x, y, b)
      PROVE  EdgeInv'
    BY <1>2, SupersessionWrites DEF PlanSupersedeBy, MayName
<1>3. ASSUME NEW S \in SUBSET Nodes, NEW n \in Fresh, GateMerge(c, S, n) PROVE EdgeInv'
  <2> DEFINE r == [NoCall EXCEPT !.op = "embed", !.nodes = S, !.into = n]
  <2>1. Plan(c, r) /\ r.op = "embed"
      BY <1>3, NoCallIs DEF GateMerge, Fields
  <2> HIDE DEF r
  <2> QED BY <2>1, EdgePlan DEF Writes
<1>4. ASSUME NEW s \in Nodes, PlanReverse(c, s) PROVE EdgeInv'
  <2> PICK S, E : S = undo[s].sources /\ E = undo[s].edges
      OBVIOUS
  <2> DEFINE r == [NoCall EXCEPT !.op = "restore", !.nodes = S, !.into = s, !.puts = E]
  <2>1. Plan(c, r) /\ Incident(edges, {s}) \subseteq Expected(s)
      BY <1>4 DEF PlanReverse
  <2>2. r.op = "restore" /\ r.nodes = S /\ r.into = s /\ r.puts = E
      BY NoCallIs DEF Fields
  <2> HIDE DEF r
  <2>3. Writes(r)
      BY <2>1, <2>2 DEF Writes
  <2> QED BY <2>1, <2>3, EdgePlan
<1>5. ASSUME NEW x \in Nodes, PlanArchive(c, x) PROVE EdgeInv'
  <2> DEFINE r == [NoCall EXCEPT !.op = "status", !.nodes = {x}, !.because = "archived"]
  <2>1. Plan(c, r) /\ r.op = "status" /\ r.puts = {}
      BY <1>5, NoCallIs DEF PlanArchive, Fields
  <2> HIDE DEF r
  <2> QED BY <2>1, EdgePlan DEF Writes
<1>6. ASSUME NEW x \in Nodes, PlanRestore(c, x) PROVE EdgeInv'
  <2> PICK source \in {{}, {Edge(x, Document, "sourced_from")}} :
          Plan(c, [NoCall EXCEPT !.op = "status", !.nodes = {x}, !.because = "active",
                                 !.puts = source])
      BY <1>6 DEF PlanRestore
  <2> DEFINE r == [NoCall EXCEPT !.op = "status", !.nodes = {x}, !.because = "active",
                                 !.puts = source]
  <2>1. Plan(c, r) /\ r.op = "status" /\ r.puts = source
      BY NoCallIs DEF Fields
  <2>2. \A e \in source : e.type = "sourced_from"
      BY DEF Edge
  <2> HIDE DEF r
  <2> QED BY <2>1, <2>2, EdgePlan DEF Writes
<1>7. ASSUME NEW e \in Links, PlanLink(c, e) PROVE EdgeInv'
  <2> DEFINE r == [NoCall EXCEPT !.op = "link", !.puts = {e}]
  <2>1. Plan(c, r) /\ r.op = "link" /\ r.puts = {e}
      BY <1>7, NoCallIs DEF PlanLink, Fields
  <2> HIDE DEF r
  <2> QED BY <2>1, EdgePlan DEF Writes
<1> QED BY <1>1, <1>2, <1>3, <1>4, <1>5, <1>6, <1>7 DEF Begin

LEMMA WritesAre ==
    ASSUME LifecycleInv, EdgeInv, NEW c \in Calls
    PROVE  Writes(call[c]) /\ DOMAIN call = Calls /\ call[c] = [f \in Fields |-> call[c][f]]
BY FieldsAre DEF EdgeInv

LEMMA CaptureMergeWrites ==
    ASSUME LifecycleInv, EdgeInv, OneAtATime, NEW c \in Calls, CaptureMerge(c)
    PROVE  EdgeInv'
<1> PICK S, n, r, M, P :
        /\ S = call[c].nodes /\ n = call[c].into /\ r = call'[c]
        /\ M = Moving(edges, S) /\ P = MergeEdges(S, n)
    OBVIOUS
<1>1. call' = [call EXCEPT ![c].op = "merge", ![c].undo = M, ![c].puts = P] /\ UNCHANGED graph
    BY DEF CaptureMerge
<1>2. Becomes(c, r)
    BY <1>1, FieldsAre DEF Becomes
<1>3. r.op = "merge" /\ r.nodes = S /\ r.into = n /\ r.puts = P
  <2>1. DOMAIN call = Calls /\ call[c] = [f \in Fields |-> call[c][f]]
      BY FieldsAre
  <2> QED BY <1>1, <2>1 DEF Fields
<1>4. Writes(r)
    BY <1>3 DEF Writes
<1> QED BY <1>1, <1>2, <1>4, EdgePlanInv

LEMMA EvictWrites ==
    ASSUME LifecycleInv, EdgeInv, OneAtATime, NEW c \in Calls, Evict(c)
    PROVE  EdgeInv'
<1>1. CASE Done(c)
    BY <1>1, EdgeDoneInv DEF Evict
<1>2. CASE ~Done(c)
  <2> PICK deep, W, r :
          /\ deep = TooDeep(call[c].into) /\ r = call'[c]
          /\ W = [n \in deep |-> [status |-> status[n], lifecycle |-> lifecycle[n]]]
      OBVIOUS
  <2>1. call' = [call EXCEPT ![c].op = "clear", ![c].nodes = deep, ![c].was = W] /\ UNCHANGED graph
      BY <1>2 DEF Evict
  <2>2. Becomes(c, r)
      BY <2>1, FieldsAre DEF Becomes
  <2>3. r.op = "clear"
      BY <2>1, WritesAre DEF Fields
  <2> QED BY <2>1, <2>2, <2>3, EdgePlanInv DEF Writes
<1> QED BY <1>1, <1>2

LEMMA PlanDropsWrites ==
    ASSUME LifecycleInv, EdgeInv, OneAtATime, NEW c \in Calls, PlanDrops(c)
    PROVE  EdgeInv'
<1> PICK r, S, s : S = call[c].nodes /\ s = call[c].into /\ r = call'[c]
    OBVIOUS
<1> PICK D : D = Incident(edges, {s}) \cup {e \in edges : e.src \in S /\ e.type = "evidence_merged"}
    OBVIOUS
<1>1. call' = [call EXCEPT ![c].op = "reverse", ![c].drops = D] /\ UNCHANGED graph
    BY DEF PlanDrops
<1>2. Becomes(c, r)
    BY <1>1, FieldsAre DEF Becomes
<1>3. r.op = "reverse" /\ r.nodes = S /\ r.into = s /\ r.puts = call[c].puts /\ r.drops = D
  <2>1. DOMAIN call = Calls /\ call[c] = [f \in Fields |-> call[c][f]]
      BY FieldsAre
  <2> QED BY <1>1, <2>1 DEF Fields
<1>4. call[c].puts = undo[s].edges /\ Incident(edges, {s}) \subseteq Expected(s)
    BY WritesAre DEF Writes, PlanDrops
<1>5. Writes(r)
    BY <1>3, <1>4 DEF Writes
<1> QED BY <1>1, <1>2, <1>5, EdgePlanInv

--------------------------------------------------------------------------------
(* What a write makes of lineage and flags.                                  *)

LEMMA CommitMergeWrites ==
    ASSUME LifecycleInv, EdgeInv, OneAtATime, NEW c \in Calls, CommitMerge(c)
    PROVE  EdgeInv'
<1> PICK S, n, U, P, r :
        /\ S = call[c].nodes /\ n = call[c].into /\ U = call[c].undo /\ P = call[c].puts
        /\ r = call'[c]
    OBVIOUS
<1>1. /\ S \subseteq Nodes /\ n \in Nodes /\ status[n] = "absent"
      /\ \A x \in S : status[x] = "active"
      /\ U = Moving(edges, S)
  <2>1. call[c].op = "merge" /\ Stands(call[c]) /\ call[c].nodes \subseteq Nodes
      BY FieldsAre DEF CommitMerge
  <2> QED BY <2>1 DEF Stands, Active, Stored
<1>2. P = MergeEdges(S, n)
    BY WritesAre DEF Writes, CommitMerge
<1>3. /\ status' = [x \in Nodes |-> IF x \in S THEN "merged" ELSE IF x = n THEN "active" ELSE status[x]]
      /\ undo' = [undo EXCEPT ![n] = [sources |-> S, edges |-> U]]
      /\ edges' = Migrated(edges, S, n, "merged") \cup P
      /\ call' = [call EXCEPT ![c].op = "evict"]
    BY DEF CommitMerge
<1>4. n \notin S /\ edges \subseteq Edges /\ \A e \in edges : Fits(e)
    BY <1>1 DEF LifecycleInv, EdgeInv
<1>5. /\ \A e : e.type \in Lasting => (e \in edges' <=> e \in edges \/ e \in P)
      /\ \A e \in Migrated(edges, S, n, "merged") : Fits(e)
  <2>1. /\ \A e : e.type \in Lasting => (e \in Migrated(edges, S, n, "merged") <=> e \in edges)
        /\ (\A e \in edges : Fits(e)) => \A e \in Migrated(edges, S, n, "merged") : Fits(e)
    <3>1. /\ edges \in SUBSET Edges /\ S \in SUBSET Nodes /\ n \in Nodes
          /\ "merged" \in {"merged", "corrected", "historical"}
        BY <1>1, <1>4
    <3> QED BY <3>1, MigratedKeeps, Zenon
  <2> QED BY <1>3, <1>4, <2>1
<1>6. \A e \in P : /\ e.type # "derived_from"
                   /\ e.type \in Lines => e.src \in S /\ e.dst = n
                   /\ e.type = "evidence_merged" => e.src \in S
    BY <1>1, <1>2, MergeEdgesTypes
<1>7. \A s, d, t : Edge(s, d, t).src = s /\ Edge(s, d, t).dst = d /\ Edge(s, d, t).type = t
    BY DEF Edge
<1>8. /\ \A x \in S : Edge(x, n, "merged_into") \in P
      /\ \A x \in S : \A i \in Dependents(x) : Edge(x, i, "evidence_merged") \in P
    BY <1>1, <1>2, MergeEdgesInclude
<1>9. \A m, z : Follows(m, z)' <=> Follows(m, z) \/ (m \in S /\ z = n)
  <2>1. \A m, z : Follows(m, z)' <=> \E e \in edges' : e.src = m /\ e.dst = z /\ e.type \in Lines
      BY DEF Follows
  <2>2. \A e : e.type \in Lines => (e \in edges' <=> e \in edges \/ e \in P)
      BY <1>5 DEF Lasting
  <2>3. "merged_into" \in Lines
      BY DEF Lines
  <2> QED BY <1>6, <1>7, <1>8, <2>1, <2>2, <2>3 DEF Follows
<1>10. \A x \in Nodes : Stored(x) => Stored(x)'
    BY <1>3 DEF Stored
<1>11. (\A e \in edges : Fits(e))'
  <2>1. \A e \in P : Fits(e)
      BY <1>1, <1>6 DEF Fits
  <2> QED BY <1>3, <1>5, <2>1 DEF Fits
<1>12. (\A m \in Nodes : LineageOf(m))'
  <2> SUFFICES ASSUME NEW m \in Nodes PROVE LineageOf(m)'
      OBVIOUS
  <2>1. LineageOf(m)
      BY DEF EdgeInv
  <2>2. CASE m \in S
    <3>1. status[m] = "active" /\ status'[m] = "merged" /\ Stored(n)'
        BY <1>1, <1>3, <1>4, <2>2 DEF Stored
    <3>2. \A z \in Nodes \cup Others : ~Follows(m, z)
        BY <2>1, <3>1 DEF LineageOf
    <3>3. \A z \in Nodes \cup Others : Follows(m, z)' <=> z = n
        BY <1>9, <2>2, <3>2
    <3> QED BY <1>1, <3>1, <3>3 DEF LineageOf
  <2>3. CASE m \notin S
    <3>1. \A z : Follows(m, z)' <=> Follows(m, z)
        BY <1>9, <2>3
    <3>2. CASE m = n
      <4>1. status[m] = "absent" /\ status'[m] = "active"
          BY <1>1, <1>3, <1>4, <3>2
      <4> QED BY <2>1, <3>1, <4>1 DEF LineageOf
    <3>3. CASE m # n
      <4>1. status'[m] = status[m]
          BY <1>3, <2>3, <3>3
      <4> QED BY <1>10, <2>1, <3>1, <4>1 DEF LineageOf
    <3> QED BY <3>2, <3>3
  <2> QED BY <2>2, <2>3
<1>13. /\ undo'[n].sources = S /\ undo'[n].edges = U
       /\ \A s \in Nodes \ {n} : undo'[s] = undo[s] /\ \A x \in undo[s].sources : status[x] = "merged"
  <2>1. /\ DOMAIN undo = Nodes
        /\ \A s \in Nodes : \A x \in undo[s].sources : status[x] = "merged"
      BY DEF LifecycleInv, PayloadsAreSound
  <2> QED BY <1>1, <1>3, <2>1
<1>14. PayloadsFit'
  <2> SUFFICES ASSUME NEW s \in Nodes
               PROVE  /\ \A e \in undo'[s].edges : Moves(e, undo'[s].sources) /\ Fits(e)
                      /\ \A x \in undo'[s].sources :
                            \A z \in Nodes \cup Others : Follows(x, z)' => z = s
      BY DEF PayloadsFit, Moves, Fits, Touches, Disposition
  <2>1. CASE s = n
    <3>1. \A e \in U : Moves(e, S) /\ Fits(e)
        BY <1>1, <1>4 DEF Moves, Moving, Incident
    <3>2. \A x \in S : \A z \in Nodes \cup Others : ~Follows(x, z)
        BY <1>1 DEF EdgeInv, LineageOf
    <3> QED BY <1>9, <1>13, <2>1, <3>1, <3>2
  <2>2. CASE s # n
    <3>1. undo'[s] = undo[s] /\ \A x \in undo[s].sources : x \notin S
        BY <1>1, <1>13, <2>2
    <3>2. /\ \A e \in undo[s].edges : Moves(e, undo[s].sources) /\ Fits(e)
          /\ \A x \in undo[s].sources : \A z \in Nodes \cup Others : Follows(x, z) => z = s
        BY DEF EdgeInv, PayloadsFit
    <3> QED BY <1>9, <3>1, <3>2
  <2> QED BY <2>1, <2>2
<1>15. ReworkedPremisesAreFlagged'
  <2>1. ASSUME NEW s \in Nodes, NEW e \in undo'[s].edges, e.type = "derived_from"
        PROVE  Edge(e.dst, e.src, "evidence_merged") \in edges'
    <3>1. Edge(e.dst, e.src, "evidence_merged").type \in Lasting
        BY <1>7 DEF Lasting
    <3>2. CASE s = n
      <4>1. e \in edges /\ Touches(e, S) /\ Fits(e)
          BY <1>1, <1>4, <1>13, <2>1, <3>2 DEF Moving, Incident
      <4>2. e.src \in Inferences /\ e.src \notin S /\ e.dst \in S
          BY <1>1, <2>1, <4>1 DEF Fits, Touches
      <4>3. e = Edge(e.src, e.dst, "derived_from")
          BY <1>4, <2>1, <4>1 DEF Edge, Edges
      <4>4. e.src \in Dependents(e.dst)
          BY <4>1, <4>2, <4>3 DEF Dependents
      <4> QED BY <1>3, <1>8, <4>2, <4>4
    <3>3. CASE s # n
      <4>1. e \in undo[s].edges
          BY <1>13, <2>1, <3>3
      <4>2. Edge(e.dst, e.src, "evidence_merged") \in edges
          BY <2>1, <4>1 DEF EdgeInv, ReworkedPremisesAreFlagged
      <4> QED BY <1>5, <3>1, <4>2
    <3> QED BY <3>2, <3>3
  <2>2. ASSUME NEW e \in edges', e.type = "evidence_merged" PROVE status'[e.src] = "merged"
    <3>1. e.type \in Lasting
        BY <2>2 DEF Lasting
    <3>2. CASE e \in P
        BY <1>1, <1>3, <1>6, <2>2, <3>2
    <3>3. CASE e \in edges
      <4>1. status[e.src] = "merged" /\ e.src \in Nodes
          BY <1>4, <2>2, <3>3 DEF EdgeInv, ReworkedPremisesAreFlagged, Fits
      <4> QED BY <1>1, <1>3, <4>1
    <3> QED BY <1>5, <2>2, <3>1, <3>2, <3>3
  <2> QED BY <2>1, <2>2 DEF ReworkedPremisesAreFlagged, Edge
<1>16. Becomes(c, r)
    BY <1>3, FieldsAre DEF Becomes
<1>17. Writes(r)'
  <2>1. r.op = "evict"
      BY <1>3, FieldsAre DEF Fields
  <2> QED BY <2>1 DEF Writes
<1> QED BY <1>11, <1>12, <1>14, <1>15, <1>16, <1>17, EdgeEndInv

\* A write that touches neither lineage nor flags, nor who was merged or corrected.
LEMMA LinesStay ==
    ASSUME LifecycleInv, EdgeInv,
           \A e : e.type \in Lasting => (e \in edges' <=> e \in edges),
           \A e \in edges' : Fits(e),
           \A x \in Nodes : Stored(x) => Stored(x)',
           \A x \in Nodes : \/ status'[x] = status[x]
                            \/ {status[x], status'[x]} \cap {"merged", "corrected"} = {},
           \A s \in Nodes : undo'[s] = undo[s] \/ undo'[s] = NoUndo
    PROVE  /\ (\A e \in edges : Fits(e))' /\ (\A n \in Nodes : LineageOf(n))'
           /\ PayloadsFit' /\ ReworkedPremisesAreFlagged'
<1>1. \A m, z : Follows(m, z)' <=> Follows(m, z)
    BY DEF Follows, Lasting
<1>2. (\A e \in edges : Fits(e))'
    BY DEF Fits
<1>3. (\A n \in Nodes : LineageOf(n))'
  <2> SUFFICES ASSUME NEW n \in Nodes PROVE LineageOf(n)'
      OBVIOUS
  <2>1. LineageOf(n)
      BY DEF EdgeInv
  <2> QED BY <1>1, <2>1 DEF LineageOf
<1>4. NoUndo.sources = {} /\ NoUndo.edges = {}
    BY DEF NoUndo
<1>5. PayloadsFit'
  <2> SUFFICES ASSUME NEW s \in Nodes
               PROVE  /\ \A e \in undo'[s].edges : Moves(e, undo'[s].sources) /\ Fits(e)
                      /\ \A x \in undo'[s].sources :
                            \A z \in Nodes \cup Others : Follows(x, z)' => z = s
      BY DEF PayloadsFit, Moves, Fits, Touches, Disposition
  <2>1. /\ \A e \in undo[s].edges : Moves(e, undo[s].sources) /\ Fits(e)
        /\ \A x \in undo[s].sources : \A z \in Nodes \cup Others : Follows(x, z) => z = s
      BY DEF EdgeInv, PayloadsFit
  <2>2. CASE undo'[s] = undo[s]
      BY <1>1, <2>1, <2>2
  <2>3. CASE undo'[s] = NoUndo
      BY <1>4, <2>3
  <2> QED BY <2>2, <2>3
<1>6. ReworkedPremisesAreFlagged'
  <2>1. ASSUME NEW s \in Nodes, NEW e \in undo'[s].edges, e.type = "derived_from"
        PROVE  Edge(e.dst, e.src, "evidence_merged") \in edges'
    <3>1. Edge(e.dst, e.src, "evidence_merged").type \in Lasting
        BY DEF Edge, Lasting
    <3>2. e \in undo[s].edges
        BY <1>4, <2>1
    <3>3. Edge(e.dst, e.src, "evidence_merged") \in edges
        BY <2>1, <3>2 DEF EdgeInv, ReworkedPremisesAreFlagged
    <3> QED BY <3>1, <3>3
  <2>2. ASSUME NEW e \in edges', e.type = "evidence_merged" PROVE status'[e.src] = "merged"
    <3>1. e \in edges
        BY <2>2 DEF Lasting
    <3>2. status[e.src] = "merged" /\ e.src \in Nodes
        BY <2>2, <3>1 DEF EdgeInv, ReworkedPremisesAreFlagged, Fits
    <3> QED BY <3>2
  <2> QED BY <2>1, <2>2 DEF ReworkedPremisesAreFlagged, Edge
<1> QED BY <1>2, <1>3, <1>5, <1>6

\* What a call that ends leaves to write: nothing.
LEMMA EdgeEnd ==
    ASSUME LifecycleInv, OneAtATime, NEW c \in Calls, Done(c),
           (\A e \in edges : Fits(e))', (\A n \in Nodes : LineageOf(n))',
           PayloadsFit', ReworkedPremisesAreFlagged'
    PROVE  EdgeInv'
<1>1. Becomes(c, NoCall)
    BY DEF Done, Becomes
<1> QED BY <1>1, NothingWrites, EdgeEndInv

LEMMA ClearUndoWrites ==
    ASSUME LifecycleInv, EdgeInv, OneAtATime, NEW c \in Calls, ClearUndo(c)
    PROVE  EdgeInv'
<1> PICK n \in call[c].nodes :
        /\ call[c].op = "clear"
        /\ status' = [status EXCEPT ![n] = call[c].was[n].status]
        /\ undo' = [undo EXCEPT ![n] = NoUndo]
        /\ IF call[c].nodes = {n} THEN Done(c)
           ELSE call' = [call EXCEPT ![c].nodes = @ \ {n}]
        /\ UNCHANGED <<edges, calls, before>>
    BY DEF ClearUndo
<1> PICK r : r = call'[c]
    OBVIOUS
<1>1. n \in Nodes /\ call[c].was[n].status = status[n]
  <2>1. Stands(call[c]) /\ call[c].nodes \subseteq Nodes
      BY FieldsAre
  <2> QED BY <2>1 DEF Stands
<1>2. status' = status /\ edges' = edges
    BY <1>1 DEF LifecycleInv
<1>3. \A s \in Nodes : undo'[s] = undo[s] \/ undo'[s] = NoUndo
    BY <1>1 DEF LifecycleInv, PayloadsAreSound
<1>4. /\ (\A e \in edges : Fits(e))' /\ (\A m \in Nodes : LineageOf(m))'
      /\ PayloadsFit' /\ ReworkedPremisesAreFlagged'
  <2>1. /\ \A e : e.type \in Lasting => (e \in edges' <=> e \in edges)
        /\ \A e \in edges' : Fits(e)
        /\ \A x \in Nodes : status'[x] = status[x]
        /\ \A x \in Nodes : Stored(x) => Stored(x)'
      BY <1>2 DEF EdgeInv, Stored
  <2> QED BY <1>3, <2>1, LinesStay
<1>5. CASE Done(c)
    BY <1>4, <1>5, EdgeEnd
<1>6. CASE call' = [call EXCEPT ![c].nodes = @ \ {n}]
  <2>1. Becomes(c, r)
      BY <1>6, FieldsAre DEF Becomes
  <2>2. r.op = "clear"
      BY <1>6, WritesAre DEF Fields
  <2>3. Writes(r)'
      BY <2>2 DEF Writes
  <2> QED BY <1>4, <2>1, <2>3, EdgeEndInv
<1> QED BY <1>5, <1>6

LEMMA CommitStatusWrites ==
    ASSUME LifecycleInv, EdgeInv, OneAtATime, NEW c \in Calls, CommitStatus(c)
    PROVE  EdgeInv'
<1> PICK S, because, P : S = call[c].nodes /\ because = call[c].because /\ P = call[c].puts
    OBVIOUS
<1>1. /\ S \subseteq Nodes
      /\ \/ because = "archived" /\ \A x \in S : status[x] = "active"
         \/ because = "active" /\ \A x \in S : status[x] \in {"archived", "historical"}
    BY FieldsAre DEF CommitStatus, Stands, Active
<1>2. \A e \in P : e.type = "sourced_from"
    BY WritesAre DEF Writes, CommitStatus
<1>3. /\ status' = [n \in Nodes |-> IF n \in S THEN because ELSE status[n]]
      /\ edges' = edges \cup P /\ undo' = undo
      /\ Done(c)
    BY DEF CommitStatus
<1>4. /\ \A e : e.type \in Lasting => (e \in edges' <=> e \in edges)
      /\ \A e \in edges' : Fits(e)
    BY <1>2, <1>3 DEF Lasting, Lines, Fits, EdgeInv
<1>5. \A x \in Nodes : \/ status'[x] = status[x]
                       \/ {status[x], status'[x]} \cap {"merged", "corrected"} = {}
    BY <1>1, <1>3
<1>6. \A x \in Nodes : Stored(x) => Stored(x)'
    BY <1>1, <1>3 DEF Stored
<1> QED BY <1>3, <1>4, <1>5, <1>6, LinesStay, EdgeEnd

LEMMA CommitLinkWrites ==
    ASSUME LifecycleInv, EdgeInv, OneAtATime, Ingested, NEW c \in Calls, CommitLink(c)
    PROVE  EdgeInv'
<1>1. call[c].puts \subseteq Links
    BY WritesAre DEF Writes, CommitLink
<1>2. UNCHANGED <<status, undo>> /\ edges' = edges \cup call[c].puts /\ Done(c)
    BY DEF CommitLink
<1>3. /\ \A e : e.type \in Lasting => (e \in edges' <=> e \in edges)
      /\ \A e \in edges' : Fits(e)
    BY <1>1, <1>2 DEF Ingested, EdgeInv
<1>4. \A x \in Nodes : Stored(x) => Stored(x)'
    BY <1>2 DEF Stored
<1> QED BY <1>2, <1>3, <1>4, LinesStay, EdgeEnd

\* A claim found wrong gets its one successor; a claim that ended gets none.
LEMMA CommitSupersessionWrites ==
    ASSUME LifecycleInv, EdgeInv, OneAtATime, NEW c \in Calls, CommitSupersession(c)
    PROVE  EdgeInv'
<1> PICK S, y, because, new, P, D :
        /\ S = call[c].nodes /\ y = call[c].into /\ because = call[c].because
        /\ new = (call[c].op = "update") /\ P = call[c].puts /\ D = call[c].drops
    OBVIOUS
<1> PICK M : M = IF new THEN Migrated(edges, S, y, because) ELSE edges
    OBVIOUS
<1>1. /\ S \subseteq Nodes /\ y \in Nodes /\ because \in {"corrected", "historical"}
      /\ \A x \in S : status[x] = "active" /\ x # y
      /\ new => status[y] = "absent"
    BY FieldsAre DEF CommitSupersession, Stands, Active, Stored
<1>2. /\ \A e \in P : \/ e.type \in {"temporally_followed_by", "evidence_superseded"}
                      \/ e.type = "superseded_by" /\ because = "corrected" /\ e.src \in S /\ e.dst = y
      /\ because = "corrected" => \A x \in S : Edge(x, y, "superseded_by") \in P
      /\ \A e \in D : e.type = "supersession_candidate"
      /\ ~new => status[y] # "absent"
    BY WritesAre DEF Writes, CommitSupersession, Stored
<1>3. /\ status' = [n \in Nodes |-> IF n \in S THEN because
                                    ELSE IF new /\ n = y THEN "active" ELSE status[n]]
      /\ edges' = (M \cup P) \ D /\ undo' = undo
      /\ Done(c)
    BY DEF CommitSupersession
<1>4. edges \subseteq Edges /\ \A e \in edges : Fits(e)
    BY DEF LifecycleInv, EdgeInv
<1>5. /\ \A e : e.type \in Lasting => (e \in M <=> e \in edges)
      /\ \A e \in M : Fits(e)
  <2>1. /\ \A e : e.type \in Lasting => (e \in Migrated(edges, S, y, because) <=> e \in edges)
        /\ (\A e \in edges : Fits(e)) => \A e \in Migrated(edges, S, y, because) : Fits(e)
    <3>1. /\ edges \in SUBSET Edges /\ S \in SUBSET Nodes /\ y \in Nodes
          /\ because \in {"merged", "corrected", "historical"}
        BY <1>1, <1>4
    <3> QED BY <3>1, MigratedKeeps, Zenon
  <2>2. CASE new
      BY <1>4, <2>1, <2>2
  <2>3. CASE ~new
      BY <1>4, <2>3
  <2> QED BY <2>2, <2>3
<1>6. /\ \A e : e.type \in Lasting => (e \in edges' <=> e \in edges \/ e \in P)
      /\ \A e \in edges' : Fits(e)
  <2>1. \A e \in D : e.type \notin Lasting
      BY <1>2 DEF Lasting, Lines
  <2>2. \A e \in P : Fits(e)
      BY <1>2 DEF Fits
  <2> QED BY <1>3, <1>5, <2>1, <2>2
<1>7. \A s, d, t : Edge(s, d, t).src = s /\ Edge(s, d, t).dst = d /\ Edge(s, d, t).type = t
    BY DEF Edge
<1>8. \A m, z : Follows(m, z)' <=> Follows(m, z) \/ (because = "corrected" /\ m \in S /\ z = y)
  <2>1. \A m, z : Follows(m, z)' <=> \E e \in edges' : e.src = m /\ e.dst = z /\ e.type \in Lines
      BY DEF Follows
  <2>2. \A e : e.type \in Lines => (e \in edges' <=> e \in edges \/ e \in P)
      BY <1>6 DEF Lasting
  <2>3. "superseded_by" \in Lines /\ \A e \in P : e.type \in Lines => e.type = "superseded_by"
      BY <1>2 DEF Lines
  <2> QED BY <1>2, <1>7, <2>1, <2>2, <2>3 DEF Follows
<1>9. Stored(y)' /\ \A x \in Nodes : Stored(x) => Stored(x)'
    BY <1>1, <1>2, <1>3 DEF Stored
<1>10. (\A e \in edges : Fits(e))'
    BY <1>6 DEF Fits
<1>11. (\A m \in Nodes : LineageOf(m))'
  <2> SUFFICES ASSUME NEW m \in Nodes PROVE LineageOf(m)'
      OBVIOUS
  <2>1. LineageOf(m)
      BY DEF EdgeInv
  <2>2. CASE m \in S
    <3>1. status[m] = "active" /\ status'[m] = because
        BY <1>1, <1>3, <2>2
    <3>2. \A z \in Nodes \cup Others : ~Follows(m, z)
        BY <2>1, <3>1 DEF LineageOf
    <3>3. \A z \in Nodes \cup Others : Follows(m, z)' <=> because = "corrected" /\ z = y
        BY <1>8, <2>2, <3>2
    <3> QED BY <1>1, <1>9, <3>1, <3>3 DEF LineageOf
  <2>3. CASE m \notin S
    <3>1. \A z : Follows(m, z)' <=> Follows(m, z)
        BY <1>8, <2>3
    <3>2. CASE new /\ m = y
      <4>1. status[m] = "absent" /\ status'[m] = "active"
          BY <1>1, <1>3, <2>3, <3>2
      <4> QED BY <2>1, <3>1, <4>1 DEF LineageOf
    <3>3. CASE ~(new /\ m = y)
      <4>1. status'[m] = status[m]
          BY <1>3, <2>3, <3>3
      <4> QED BY <1>9, <2>1, <3>1, <4>1 DEF LineageOf
    <3> QED BY <3>2, <3>3
  <2> QED BY <2>2, <2>3
<1>12. PayloadsFit'
  <2> SUFFICES ASSUME NEW s \in Nodes
               PROVE  /\ \A e \in undo[s].edges : Moves(e, undo[s].sources) /\ Fits(e)
                      /\ \A x \in undo[s].sources :
                            \A z \in Nodes \cup Others : Follows(x, z)' => z = s
      BY <1>3 DEF PayloadsFit, Moves, Fits, Touches, Disposition
  <2>1. /\ \A e \in undo[s].edges : Moves(e, undo[s].sources) /\ Fits(e)
        /\ \A x \in undo[s].sources : \A z \in Nodes \cup Others : Follows(x, z) => z = s
      BY DEF EdgeInv, PayloadsFit
  <2>2. \A x \in undo[s].sources : x \notin S
      BY <1>1 DEF LifecycleInv, PayloadsAreSound
  <2> QED BY <1>8, <2>1, <2>2
<1>13. ReworkedPremisesAreFlagged'
  <2>1. ASSUME NEW s \in Nodes, NEW e \in undo[s].edges, e.type = "derived_from"
        PROVE  Edge(e.dst, e.src, "evidence_merged") \in edges'
    <3>1. Edge(e.dst, e.src, "evidence_merged").type \in Lasting
        BY <1>7 DEF Lasting
    <3>2. Edge(e.dst, e.src, "evidence_merged") \in edges
        BY <2>1 DEF EdgeInv, ReworkedPremisesAreFlagged
    <3> QED BY <1>6, <3>1, <3>2
  <2>2. ASSUME NEW e \in edges', e.type = "evidence_merged" PROVE status'[e.src] = "merged"
    <3>1. e \in edges
        BY <1>2, <1>6, <2>2 DEF Lasting
    <3>2. status[e.src] = "merged" /\ e.src \in Nodes
        BY <1>4, <2>2, <3>1 DEF EdgeInv, ReworkedPremisesAreFlagged, Fits
    <3> QED BY <1>1, <1>3, <3>2
  <2> QED BY <1>3, <2>1, <2>2 DEF ReworkedPremisesAreFlagged, Edge
<1> QED BY <1>3, <1>10, <1>11, <1>12, <1>13, EdgeEnd

\* What a merge moves is no lineage and no flag; and of lineage a reversal may find on the
\* survivor only what its own sources left.
LEMMA ExpectedLines ==
    ASSUME LifecycleInv, EdgeInv, NEW s \in Nodes
    PROVE  /\ \A e \in undo[s].edges : e.type \notin Lasting
           /\ \A e \in Expected(s) : e.type \in Lines => e.src \in undo[s].sources
<1> PICK S, U : S = undo[s].sources /\ U = undo[s].edges
    OBVIOUS
<1> DEFINE A == {Repoint(e, S, s) : e \in {x \in U : ~(x.src \in S /\ x.dst \in S)}}
           B == {Edge(x, s, "merged_into") : x \in S}
           F(x) == {Edge(s, m, "has_metacontext") : m \in Metacontexts(x)}
           C == UNION {F(x) : x \in S}
<1>1. Expected(s) = A \cup B \cup C
    BY DEF Expected
<1>2. \A e \in U : e.type \notin Lasting
  <2>1. \A e \in U : Moves(e, S)
      BY DEF EdgeInv, PayloadsFit
  <2>2. \A t \in Lasting : Disposition(t, "merged") = "keep"
      BY DEF Disposition, Lasting, Lines
  <2> QED BY <2>1, <2>2 DEF Moves
<1>3. \A x, y, t : Edge(x, y, t).src = x /\ Edge(x, y, t).type = t
    BY DEF Edge
<1>4. \A e \in A : \E d \in U : e = Repoint(d, S, s)
    OBVIOUS
<1>5. \A d \in U : Repoint(d, S, s).type = d.type
    BY DEF Repoint, Edge
<1>6. \A e \in B : e.src \in S
    BY <1>3
<1>7. \A x : \A e \in F(x) : e.type = "has_metacontext"
    BY <1>3
<1> HIDE DEF A, B, F
<1>8. \A e \in C : \E x \in S : e \in F(x)
    OBVIOUS
<1> HIDE DEF C
<1>9. \A e \in A \cup C : e.type \notin Lines
    BY <1>2, <1>4, <1>5, <1>7, <1>8 DEF Lasting, Lines
<1> QED BY <1>1, <1>2, <1>6, <1>9

\* The sources follow nothing again, and no other node is left following the survivor.
LEMMA CommitReverseWrites ==
    ASSUME LifecycleInv, EdgeInv, OneAtATime, NEW c \in Calls, CommitReverse(c)
    PROVE  EdgeInv'
<1> PICK S, s, P, D : S = call[c].nodes /\ s = call[c].into /\ P = call[c].puts /\ D = call[c].drops
    OBVIOUS
<1>1. S \subseteq Nodes /\ s \in Nodes /\ status[s] = "active" /\ S = undo[s].sources
    BY FieldsAre DEF CommitReverse, Stands, Active
<1>2. /\ P = undo[s].edges
      /\ Incident(edges, {s}) \subseteq Expected(s)
      /\ D = Incident(edges, {s}) \cup {e \in edges : e.src \in S /\ e.type = "evidence_merged"}
    BY WritesAre DEF Writes, CommitReverse
<1>3. /\ status' = [x \in Nodes |-> IF x \in S THEN "active" ELSE IF x = s THEN "absent" ELSE status[x]]
      /\ undo' = [undo EXCEPT ![s] = NoUndo]
      /\ edges' = (edges \ D) \cup P
      /\ Done(c)
    BY DEF CommitReverse
<1>4. /\ \A x \in S : status[x] = "merged"
      /\ s \notin S
  <2>1. \A x \in undo[s].sources : status[x] = "merged"
      BY <1>1 DEF LifecycleInv, PayloadsAreSound
  <2> QED BY <1>1, <2>1
<1>5. /\ undo'[s].sources = {} /\ undo'[s].edges = {}
      /\ \A t \in Nodes \ {s} :
            /\ undo'[t] = undo[t] /\ undo[t].sources \cap S = {} /\ undo[t].sources \subseteq Nodes
            /\ \A x \in undo[t].sources : status[x] = "merged"
    BY <1>1, <1>3 DEF LifecycleInv, PayloadsAreSound, NoUndo
<1>6. /\ \A e \in P : e.type \notin Lasting /\ Fits(e)
      /\ \A e \in Incident(edges, {s}) : e.type \in Lines => e.src \in S
    BY <1>1, <1>2, ExpectedLines DEF EdgeInv, PayloadsFit
<1>7. \A e : e.type \in Lasting =>
         (e \in edges' <=> /\ e \in edges /\ e.src # s /\ e.dst # s
                           /\ ~(e.src \in S /\ e.type = "evidence_merged"))
    BY <1>2, <1>3, <1>6 DEF Incident, Touches
<1>8. (\A e \in edges : Fits(e))'
    BY <1>3, <1>6 DEF EdgeInv, Fits
<1>9. \A m, z : Follows(m, z)' <=> Follows(m, z) /\ m # s /\ z # s
  <2>1. \A m, z : Follows(m, z)' <=> \E e \in edges' : e.src = m /\ e.dst = z /\ e.type \in Lines
      BY DEF Follows
  <2>2. \A e : e.type \in Lines => (e \in edges' <=> e \in edges /\ e.src # s /\ e.dst # s)
      BY <1>7 DEF Lasting, Lines
  <2> QED BY <2>1, <2>2 DEF Follows
<1>10. \A m : Follows(m, s) => m \in S
    BY <1>6 DEF Follows, Incident, Touches
<1>11. (\A m \in Nodes : LineageOf(m))'
  <2> SUFFICES ASSUME NEW m \in Nodes PROVE LineageOf(m)'
      OBVIOUS
  <2>1. LineageOf(m)
      BY DEF EdgeInv
  <2>2. CASE m \in S
    <3>1. status'[m] = "active"
        BY <1>3, <2>2
    <3>2. \A z \in Nodes \cup Others : Follows(m, z) => z = s
        BY <1>1, <2>2 DEF EdgeInv, PayloadsFit
    <3> QED BY <1>9, <3>1, <3>2 DEF LineageOf
  <2>3. CASE m = s
    <3>1. status'[m] = "absent"
        BY <1>3, <1>4, <2>3
    <3> QED BY <1>9, <2>3, <3>1 DEF LineageOf
  <2>4. CASE m \notin S /\ m # s
    <3>1. status'[m] = status[m]
        BY <1>3, <2>4
    <3>2. CASE status[m] \in {"merged", "corrected"}
      <4>1. PICK y \in Nodes : Stored(y) /\ \A z \in Nodes \cup Others : Follows(m, z) <=> z = y
          BY <2>1, <3>2 DEF LineageOf
      <4>2. y # s
          BY <1>10, <2>4, <4>1
      <4>3. Stored(y)'
          BY <1>3, <4>1, <4>2 DEF Stored
      <4>4. \A z \in Nodes \cup Others : Follows(m, z)' <=> z = y
          BY <1>9, <2>4, <4>1, <4>2
      <4> QED BY <3>1, <3>2, <4>3, <4>4 DEF LineageOf
    <3>3. CASE status[m] \notin {"merged", "corrected"}
        BY <1>9, <2>1, <3>1, <3>3 DEF LineageOf
    <3> QED BY <3>2, <3>3
  <2> QED BY <2>2, <2>3, <2>4
<1>12. PayloadsFit'
  <2> SUFFICES ASSUME NEW t \in Nodes
               PROVE  /\ \A e \in undo'[t].edges : Moves(e, undo'[t].sources) /\ Fits(e)
                      /\ \A x \in undo'[t].sources :
                            \A z \in Nodes \cup Others : Follows(x, z)' => z = t
      BY DEF PayloadsFit, Moves, Fits, Touches, Disposition
  <2>1. CASE t = s
      BY <1>5, <2>1
  <2>2. CASE t # s
    <3>1. /\ \A e \in undo[t].edges : Moves(e, undo[t].sources) /\ Fits(e)
          /\ \A x \in undo[t].sources : \A z \in Nodes \cup Others : Follows(x, z) => z = t
        BY DEF EdgeInv, PayloadsFit
    <3> QED BY <1>5, <1>9, <2>2, <3>1
  <2> QED BY <2>1, <2>2
<1>13. ReworkedPremisesAreFlagged'
  <2>1. ASSUME NEW t \in Nodes, NEW e \in undo'[t].edges, e.type = "derived_from"
        PROVE  Edge(e.dst, e.src, "evidence_merged") \in edges'
    <3>1. t # s /\ e \in undo[t].edges
        BY <1>5, <2>1
    <3>2. PICK flag : flag = Edge(e.dst, e.src, "evidence_merged")
        OBVIOUS
    <3>3. flag.src = e.dst /\ flag.dst = e.src /\ flag.type \in Lasting
        BY <3>2 DEF Edge, Lasting
    <3>4. flag \in edges
        BY <2>1, <3>1, <3>2 DEF EdgeInv, ReworkedPremisesAreFlagged
    <3>5. Touches(e, undo[t].sources) /\ Fits(e)
        BY <3>1 DEF EdgeInv, PayloadsFit, Moves
    <3>6. e.src \in Inferences /\ e.src \notin Nodes /\ e.dst \in undo[t].sources
        BY <1>5, <2>1, <3>1, <3>5 DEF Fits, Touches
    <3>7. e.dst \notin S /\ e.dst # s /\ e.src # s
        BY <1>1, <1>5, <3>1, <3>6
    <3> QED BY <1>7, <3>2, <3>3, <3>4, <3>7
  <2>2. ASSUME NEW e \in edges', e.type = "evidence_merged" PROVE status'[e.src] = "merged"
    <3>1. e \in edges /\ e.src # s /\ e.src \notin S
        BY <1>7, <2>2 DEF Lasting
    <3>2. status[e.src] = "merged" /\ e.src \in Nodes
        BY <2>2, <3>1 DEF EdgeInv, ReworkedPremisesAreFlagged, Fits
    <3> QED BY <1>3, <3>1, <3>2
  <2> QED BY <2>1, <2>2 DEF ReworkedPremisesAreFlagged, Edge
<1> QED BY <1>3, <1>8, <1>11, <1>12, <1>13, EdgeEnd

--------------------------------------------------------------------------------
(* What lineage and flags say, ever.                                         *)

LEMMA InitEdges == Ingested /\ Init => EdgeInv
<1> SUFFICES ASSUME Ingested, Init PROVE EdgeInv
    OBVIOUS
<1>1. /\ \A n \in Nodes : status[n] \in {"active", "absent"} /\ undo[n] = NoUndo
      /\ edges = Known /\ \A c \in Calls : call[c] = NoCall
    BY DEF Init
<1>2. \A e \in edges : Fits(e) /\ e.type \notin Lasting
    BY <1>1 DEF Ingested
<1>3. \A m, z : ~Follows(m, z)
    BY <1>2 DEF Follows, Lasting
<1>4. \A n \in Nodes : LineageOf(n)
    BY <1>1, <1>3 DEF LineageOf
<1>5. \A n \in Nodes : undo[n].sources = {} /\ undo[n].edges = {}
    BY <1>1 DEF NoUndo
<1>6. PayloadsFit
    BY <1>5 DEF PayloadsFit
<1>7. ReworkedPremisesAreFlagged
    BY <1>2, <1>5 DEF ReworkedPremisesAreFlagged, Lasting
<1> QED BY <1>1, <1>2, <1>4, <1>6, <1>7, NothingWrites DEF EdgeInv

LEMMA NextEdges ==
    ASSUME LifecycleInv, EdgeInv, OneAtATime, ~NamesRetired, Ingested, [Next]_vars
    PROVE  EdgeInv'
<1>1. ASSUME NEW c \in Calls, Write(c) PROVE EdgeInv'
  <2>1. CASE Abort(c)
      BY <2>1, EdgeDoneInv DEF Abort
  <2> QED BY <1>1, <2>1, CaptureMergeWrites, CommitMergeWrites, EvictWrites, ClearUndoWrites,
             PlanDropsWrites, CommitReverseWrites, CommitSupersessionWrites, CommitStatusWrites,
             CommitLinkWrites DEF Write
<1>2. CASE Next
    BY <1>1, <1>2, BeginWrites DEF Next
<1>3. CASE UNCHANGED vars
  <2>1. UNCHANGED <<status, lifecycle, undo, edges, call>>
      BY <1>3 DEF vars, graph
  <2>2. ASSUME NEW c \in Calls PROVE Writes(call[c])'
    <3> PICK r : r = call[c]
        OBVIOUS
    <3>1. Writes(r) /\ r = call'[c]
        BY <2>1 DEF EdgeInv
    <3>2. Writes(r)'
        BY <2>1, <3>1, WritesStill
    <3> QED BY <3>1, <3>2
  <2> QED BY <2>1, <2>2, EdgesStill DEF EdgeInv
<1> QED BY <1>2, <1>3

LEMMA LineageNamesOne == LifecycleInv /\ EdgeInv => LineageIsWhole
<1> SUFFICES ASSUME LifecycleInv, EdgeInv, NEW n \in Nodes, status[n] \in {"merged", "corrected"}
             PROVE  \E y \in Nodes :
                       /\ Stored(y)
                       /\ {e.dst : e \in {x \in edges : x.src = n /\
                                              x.type \in {"merged_into", "superseded_by"}}} = {y}
    BY DEF LineageIsWhole
<1>1. PICK y \in Nodes : Stored(y) /\ \A z \in Nodes \cup Others : Follows(n, z) <=> z = y
    BY DEF EdgeInv, LineageOf
<1> DEFINE E == {x \in edges : x.src = n /\ x.type \in {"merged_into", "superseded_by"}}
<1>2. \A e \in E : e.dst \in Nodes \cup Others /\ Follows(n, e.dst)
    BY DEF LifecycleInv, Edges, Follows, Lines
<1>3. \E e \in E : e.dst = y
  <2>1. Follows(n, y)
      BY <1>1
  <2> QED BY <2>1 DEF Follows, Lines
<1> HIDE DEF E
<1>4. \A e \in E : e.dst = y
    BY <1>1, <1>2
<1>5. {e.dst : e \in E} = {y}
    BY <1>3, <1>4
<1> QED BY <1>1, <1>5 DEF E

\* In a session that makes one call at a time, of callers that name active nodes, every
\* inference that a standing merge reworded the premise of is flagged by the source it
\* rested on, and no source that is back still flags one.
THEOREM PremisesStayFlagged ==
    OneAtATime /\ ~NamesRetired /\ Ingested => (Spec => []ReworkedPremisesAreFlagged)
<1> SUFFICES ASSUME OneAtATime, ~NamesRetired, Ingested
             PROVE  Spec => []ReworkedPremisesAreFlagged
    OBVIOUS
<1>1. LifecycleInv /\ EdgeInv /\ [Next]_vars => LifecycleInv' /\ EdgeInv'
    BY NextInv, NextEdges
<1>2. Init => LifecycleInv /\ EdgeInv
    BY InitInv, InitEdges
<1>3. LifecycleInv /\ EdgeInv => ReworkedPremisesAreFlagged
    BY DEF EdgeInv
<1> QED BY <1>1, <1>2, <1>3, PTL DEF Spec

\* In such a session a node that was merged away or corrected names one node that carries
\* its content now, and the store still has that one.
THEOREM LineageStaysWhole ==
    OneAtATime /\ ~NamesRetired /\ Ingested => (Spec => []LineageIsWhole)
<1> SUFFICES ASSUME OneAtATime, ~NamesRetired, Ingested
             PROVE  Spec => []LineageIsWhole
    OBVIOUS
<1>1. LifecycleInv /\ EdgeInv /\ [Next]_vars => LifecycleInv' /\ EdgeInv'
    BY NextInv, NextEdges
<1>2. Init => LifecycleInv /\ EdgeInv
    BY InitInv, InitEdges
<1> QED BY <1>1, <1>2, LineageNamesOne, PTL DEF Spec

--------------------------------------------------------------------------------
(* The order in which survivors came to be, and what keeps one from going.   *)

\* What is ingested ends at facts.
Grounded == \A e \in Known : \A n \in Fresh : e.src # n /\ e.dst # n

At(e, x) == e.src = x \/ e.dst = x
Joins(e, s, z) == (e.src = s /\ e.dst = z) \/ (e.src = z /\ e.dst = s)
Movable(e) == Disposition(e.type, "merged") = "move"

\* The reversal of t, which carries payload p, expects the edge w, which its merge
\* re-pointed.
Awaits(t, p, w) ==
    \E e \in p.edges : /\ ~(e.src \in p.sources /\ e.dst \in p.sources)
                       /\ w = Repoint(e, p.sources, t)

\* An edge of the graph, or one that a reversal would bring back.
Held(e) == e \in edges \/ \E t \in Nodes : e \in undo[t].edges

\* A node that is active or may be again.
Returnable(s) ==
    status[s] \in {"active", "archived", "historical"} \/ \E t \in Nodes : s \in undo[t].sources

\* s is held to a node later than k by an edge that no reversal of that node takes away.
Pinned(s, k, rank) ==
    \E z \in Nodes : \E b : /\ Held(b) /\ Movable(b) /\ Joins(b, s, z)
                            /\ rank[z] > k /\ ~Awaits(z, undo[z], b)

\* A survivor is later than the nodes its payload speaks of.
Ordered(rank) ==
    \A t \in Nodes : \A e \in undo[t].edges : \A x \in Nodes : At(e, x) => rank[x] < rank[t]

\* What a reversal expects is held still, or else pins the ends that may return.
Covered(rank) ==
    \A t \in Nodes : \A w : Awaits(t, undo[t], w) =>
        \A s \in Nodes : At(w, s) /\ Returnable(s) => Held(w) \/ Pinned(s, rank[t], rank)

EndsStored == \A e : Held(e) => \A x \in Nodes : At(e, x) => Stored(x)

MergedIdle == \A e \in edges : Movable(e) => \A x \in Nodes : At(e, x) => status[x] # "merged"

\* Where the edges end that a call is about to write; and what is being reversed still
\* carries its payload.
Aims(r) ==
    /\ r.op \in {"restore", "reverse"} => undo[r.into] # NoUndo
    /\ r.op \in {"update", "supersede"} =>
         \A e \in r.puts : ~Movable(e) /\ e.src \in r.nodes /\ e.dst \in {r.into} \cup Others
    /\ r.op = "status" => \A e \in r.puts : e.src \in r.nodes /\ e.dst = Document
    /\ r.op = "link" => \A e \in r.puts : \A x \in Nodes : At(e, x) => Active(x)

Ranks(K, rank) == K \in Nat /\ rank \in [Nodes -> 0 .. K] /\ Ordered(rank) /\ Covered(rank)

HistoryInv ==
    /\ EndsStored /\ MergedIdle
    /\ \A c \in Calls : Aims(call[c])
    /\ \E K, rank : Ranks(K, rank)

LEMMA Greatest ==
    ASSUME NEW K \in Nat, NEW R \in SUBSET (0 .. K), R # {}
    PROVE  \E m \in R : \A k \in R : k <= m
<1> DEFINE T == {d \in Nat : K - d \in R}
           Below == OpToRel(<, Nat)
<1>1. T \subseteq Nat /\ T # {}
  <2>1. PICK k \in R : TRUE
      OBVIOUS
  <2>2. k \in Int /\ K - k \in Nat /\ K - (K - k) = k
      BY <2>1
  <2> QED BY <2>2
<1>2. IsWellFoundedOn(Below, Nat)
    BY NatLessThanWellFounded
<1>3. \A u, t \in Nat : u < t => <<u, t>> \in Below
    BY DEF OpToRel
<1> HIDE DEF Below, T
<1>4. PICK t \in T : \A u \in T : <<u, t>> \notin Below
    BY <1>1, <1>2, WFMin
<1>5. \A u \in T : t <= u
  <2> SUFFICES ASSUME NEW u \in T PROVE t <= u
      OBVIOUS
  <2>1. u \in Nat /\ t \in Nat /\ ~(u < t)
      BY <1>1, <1>3, <1>4
  <2> QED BY <2>1
<1>6. t \in Nat /\ K - t \in R
    BY <1>1, <1>4 DEF T
<1>7. ASSUME NEW k \in R PROVE k <= K - t
  <2>1. k \in Int /\ K - k \in Nat /\ K - (K - k) = k
      OBVIOUS
  <2>2. K - k \in T
      BY <2>1 DEF T
  <2> QED BY <1>5, <1>6, <2>1, <2>2
<1> QED BY <1>6, <1>7

LEMMA RepointIs ==
    ASSUME NEW e, NEW S, NEW n
    PROVE  /\ Repoint(e, S, n).type = e.type
           /\ Repoint(e, S, n).src = IF e.src \in S THEN n ELSE e.src
           /\ Repoint(e, S, n).dst = IF e.dst \in S THEN n ELSE e.dst
           /\ Movable(Repoint(e, S, n)) <=> Movable(e)
BY DEF Repoint, Edge, Movable

\* What a reversal of t expects joins t and an earlier node, or t and no node at all.
LEMMA AwaitedIs ==
    ASSUME LifecycleInv, PayloadsFit, NEW rank, Ordered(rank), NEW t \in Nodes, NEW w,
           Awaits(t, undo[t], w)
    PROVE  /\ Movable(w) /\ At(w, t) /\ undo[t] # NoUndo
           /\ \A x \in Nodes : At(w, x) /\ x # t =>
                 rank[x] < rank[t] /\ x \notin undo[t].sources /\ \E e \in undo[t].edges : At(e, x)
<1> PICK S, U : S = undo[t].sources /\ U = undo[t].edges
    OBVIOUS
<1>1. PICK e \in U : ~(e.src \in S /\ e.dst \in S) /\ w = Repoint(e, S, t)
    BY DEF Awaits
<1>2. Movable(e) /\ (e.src \in S \/ e.dst \in S)
    BY <1>1 DEF PayloadsFit, Moves, Movable, Touches
<1>3. /\ w.src = IF e.src \in S THEN t ELSE e.src
      /\ w.dst = IF e.dst \in S THEN t ELSE e.dst
      /\ Movable(w)
    BY <1>1, <1>2, RepointIs
<1>4. undo[t] # NoUndo
    BY <1>1 DEF NoUndo
<1>5. \A x \in Nodes : At(e, x) => rank[x] < rank[t]
    BY <1>1 DEF Ordered
<1> QED BY <1>1, <1>2, <1>3, <1>4, <1>5 DEF At

\* An edge of a payload whose end is no source of it was re-pointed there.
LEMMA MovedOn ==
    ASSUME LifecycleInv, PayloadsFit, NEW rank, Ordered(rank), NEW v \in Nodes,
           NEW b \in undo[v].edges, NEW s \in Nodes, At(b, s), s \notin undo[v].sources
    PROVE  \E g : Awaits(v, undo[v], g) /\ Joins(g, s, v) /\ Movable(g) /\ rank[s] < rank[v]
<1> PICK S, U : S = undo[v].sources /\ U = undo[v].edges
    OBVIOUS
<1> PICK g : g = Repoint(b, S, v)
    OBVIOUS
<1>1. Movable(b) /\ (b.src \in S \/ b.dst \in S)
    BY DEF PayloadsFit, Moves, Movable, Touches
<1>2. /\ g.src = IF b.src \in S THEN v ELSE b.src
      /\ g.dst = IF b.dst \in S THEN v ELSE b.dst
      /\ Movable(g)
    BY <1>1, RepointIs
<1>3. ~(b.src \in S /\ b.dst \in S)
    BY DEF At
<1>4. Awaits(v, undo[v], g)
    BY <1>3 DEF Awaits
<1>5. Joins(g, s, v)
    BY <1>1, <1>2 DEF Joins, At
<1>6. rank[s] < rank[v]
    BY DEF Ordered
<1> QED BY <1>2, <1>4, <1>5, <1>6

\* The edges on s that a merge would move are among those the reversal of s expects.
LEMMA ExpectedAwaited ==
    ASSUME NEW s \in Nodes, NEW b \in Expected(s), Movable(b)
    PROVE  Awaits(s, undo[s], b)
<1> PICK S, U : S = undo[s].sources /\ U = undo[s].edges
    OBVIOUS
<1> DEFINE A == {Repoint(e, S, s) : e \in {x \in U : ~(x.src \in S /\ x.dst \in S)}}
           B == {Edge(x, s, "merged_into") : x \in S}
           F(x) == {Edge(s, m, "has_metacontext") : m \in Metacontexts(x)}
           C == UNION {F(x) : x \in S}
<1>1. Expected(s) = A \cup B \cup C
    BY DEF Expected
<1>2. \A x, y, t : Edge(x, y, t).type = t
    BY DEF Edge
<1>3. \A e \in B : e.type = "merged_into"
    BY <1>2
<1>4. \A x : \A e \in F(x) : e.type = "has_metacontext"
    BY <1>2
<1>5. \A e \in A : Awaits(s, undo[s], e)
    BY DEF Awaits
<1> HIDE DEF A, B, F
<1>6. \A e \in C : \E x \in S : e \in F(x)
    OBVIOUS
<1> HIDE DEF C
<1>7. b.type # "merged_into" /\ b.type # "has_metacontext"
    BY DEF Movable, Disposition
<1> QED BY <1>1, <1>3, <1>4, <1>5, <1>6, <1>7

\* An active node whose every edge its reversal expects is joined to none later.
LEMMA NoneLater ==
    ASSUME LifecycleInv, PayloadsFit, NEW K, NEW rank, Ranks(K, rank), NEW u \in Nodes,
           status[u] = "active", Incident(edges, {u}) \subseteq Expected(u)
    PROVE  \A z \in Nodes : \A b : Held(b) /\ Movable(b) /\ Joins(b, u, z) => ~(rank[z] > rank[u])
<1> DEFINE Bad(z) == \E b : Held(b) /\ Movable(b) /\ Joins(b, u, z) /\ rank[z] > rank[u]
           R == {rank[z] : z \in {x \in Nodes : Bad(x)}}
<1> SUFFICES ASSUME NEW y \in Nodes, Bad(y) PROVE FALSE
    OBVIOUS
<1>1. K \in Nat /\ rank \in [Nodes -> 0 .. K] /\ Ordered(rank) /\ Covered(rank)
    BY DEF Ranks
<1>2. R \in SUBSET (0 .. K) /\ R # {}
    BY <1>1
<1> HIDE DEF Bad
<1>3. PICK z \in Nodes : Bad(z) /\ \A x \in Nodes : Bad(x) => rank[x] <= rank[z]
  <2>1. PICK m \in R : \A k \in R : k <= m
      BY <1>1, <1>2, Greatest
  <2> QED BY <2>1
<1> HIDE DEF R
<1>4. PICK b : Held(b) /\ Movable(b) /\ Joins(b, u, z) /\ rank[z] > rank[u]
    BY <1>3 DEF Bad
<1>5. \A x \in Nodes : rank[x] \in Int
    BY <1>1
<1>6. CASE b \in edges
  <2>1. b \in Expected(u)
      BY <1>4, <1>6 DEF Incident, Touches, Joins
  <2>2. Awaits(u, undo[u], b)
      BY <1>4, <2>1, ExpectedAwaited
  <2>3. z # u /\ At(b, z)
      BY <1>4, <1>5 DEF Joins, At
  <2>4. rank[z] < rank[u]
      BY <1>1, <2>2, <2>3, AwaitedIs
  <2> QED BY <1>4, <1>5, <2>4
<1>7. ASSUME NEW v \in Nodes, b \in undo[v].edges PROVE FALSE
  <2>1. u \notin undo[v].sources
      BY DEF LifecycleInv, PayloadsAreSound
  <2>2. At(b, u) /\ At(b, z)
      BY <1>4 DEF Joins, At
  <2>3. PICK g : Awaits(v, undo[v], g) /\ Joins(g, u, v) /\ Movable(g) /\ rank[u] < rank[v]
      BY <1>1, <1>7, <2>1, <2>2, MovedOn
  <2>4. rank[z] < rank[v]
      BY <1>1, <1>7, <2>2 DEF Ordered
  <2>5. Returnable(u) /\ At(g, u)
      BY <2>3 DEF Returnable, Joins, At
  <2>6. Held(g) \/ Pinned(u, rank[v], rank)
      BY <1>1, <2>3, <2>5 DEF Covered
  <2>7. CASE Held(g)
    <3>1. Bad(v)
        BY <1>5, <2>3, <2>7 DEF Bad
    <3> QED BY <1>3, <1>5, <2>4, <3>1
  <2>8. CASE Pinned(u, rank[v], rank)
    <3>1. PICK x \in Nodes : \E d : Held(d) /\ Movable(d) /\ Joins(d, u, x) /\ rank[x] > rank[v]
        BY <2>8 DEF Pinned
    <3>2. rank[x] > rank[u]
        BY <1>5, <2>3, <3>1
    <3>3. Bad(x)
        BY <3>1, <3>2 DEF Bad
    <3> QED BY <1>3, <1>5, <2>4, <3>1, <3>3
  <2> QED BY <2>6, <2>7, <2>8
<1> QED BY <1>4, <1>6, <1>7 DEF Held

\* So the graph has all that its reversal expects, and no payload speaks of it.
LEMMA NoneSpeaks ==
    ASSUME LifecycleInv, PayloadsFit, NEW K, NEW rank, Ranks(K, rank), NEW u \in Nodes,
           status[u] = "active", Incident(edges, {u}) \subseteq Expected(u)
    PROVE  /\ \A t \in Nodes : \A e \in undo[t].edges : ~At(e, u)
           /\ \A w : Awaits(u, undo[u], w) => w \in edges
<1>1. K \in Nat /\ rank \in [Nodes -> 0 .. K] /\ Ordered(rank) /\ Covered(rank)
    BY DEF Ranks
<1>2. \A z \in Nodes : \A b : Held(b) /\ Movable(b) /\ Joins(b, u, z) => ~(rank[z] > rank[u])
    BY NoneLater
<1>3. \A x \in Nodes : rank[x] \in Int
    BY <1>1
<1>4. Returnable(u)
    BY DEF Returnable
<1>5. ASSUME NEW k \in Int, k >= rank[u] PROVE ~Pinned(u, k, rank)
    BY <1>2, <1>3, <1>5 DEF Pinned
<1>6. ASSUME NEW t \in Nodes, NEW e \in undo[t].edges, At(e, u) PROVE FALSE
  <2>1. u \notin undo[t].sources
      BY DEF LifecycleInv, PayloadsAreSound
  <2>2. PICK g : Awaits(t, undo[t], g) /\ Joins(g, u, t) /\ Movable(g) /\ rank[u] < rank[t]
      BY <1>1, <1>6, <2>1, MovedOn
  <2>3. At(g, u) /\ rank[t] > rank[u] /\ rank[t] >= rank[u]
      BY <1>3, <2>2 DEF Joins, At
  <2>4. Held(g) \/ Pinned(u, rank[t], rank)
      BY <1>1, <1>4, <2>2, <2>3 DEF Covered
  <2> QED BY <1>2, <1>3, <1>5, <2>2, <2>3, <2>4
<1>7. ASSUME NEW w, Awaits(u, undo[u], w) PROVE w \in edges
  <2>1. At(w, u)
      BY <1>1, <1>7, AwaitedIs
  <2>2. Held(w) \/ Pinned(u, rank[u], rank)
      BY <1>1, <1>4, <1>7, <2>1 DEF Covered
  <2>3. Held(w)
      BY <1>3, <1>5, <2>2
  <2> QED BY <1>6, <2>1, <2>3 DEF Held
<1> QED BY <1>6, <1>7

\* A node that is not stored is spoken of by none, and may come last.
LEMMA Newest ==
    ASSUME LifecycleInv, PayloadsFit, EndsStored, NEW K, NEW rank, Ranks(K, rank),
           NEW n \in Nodes, status[n] = "absent"
    PROVE  \E L, order : Ranks(L, order) /\ \A x \in Nodes : x # n => order[x] < order[n]
<1> PICK L, order : L = K + 1 /\ order = [rank EXCEPT ![n] = K + 1]
    OBVIOUS
<1>1. K \in Nat /\ rank \in [Nodes -> 0 .. K] /\ Ordered(rank) /\ Covered(rank)
    BY DEF Ranks
<1>2. L \in Nat /\ order \in [Nodes -> 0 .. L]
    BY <1>1
<1>3. order[n] = K + 1 /\ \A x \in Nodes : x # n => order[x] = rank[x] /\ rank[x] < K + 1
    BY <1>1
<1>4. \A e : Held(e) => ~At(e, n)
    BY DEF EndsStored, Stored
<1>5. undo[n] = NoUndo /\ undo[n].edges = {}
    BY DEF LifecycleInv, PayloadsAreSound, NoUndo
<1>6. Ordered(order)
  <2> SUFFICES ASSUME NEW t \in Nodes, NEW e \in undo[t].edges, NEW x \in Nodes, At(e, x)
               PROVE  order[x] < order[t]
      BY DEF Ordered
  <2>1. t # n /\ x # n
      BY <1>4, <1>5 DEF Held
  <2>2. rank[x] < rank[t]
      BY <1>1 DEF Ordered
  <2> QED BY <1>3, <2>1, <2>2
<1>7. Covered(order)
  <2> SUFFICES ASSUME NEW t \in Nodes, NEW w, Awaits(t, undo[t], w),
                      NEW s \in Nodes, At(w, s), Returnable(s), ~Held(w)
               PROVE  Pinned(s, order[t], order)
      BY DEF Covered
  <2>1. t # n
      BY <1>5 DEF Awaits
  <2>2. Pinned(s, rank[t], rank)
      BY <1>1 DEF Covered
  <2>3. PICK z, b : /\ z \in Nodes /\ Held(b) /\ Movable(b) /\ Joins(b, s, z)
                    /\ rank[z] > rank[t] /\ ~Awaits(z, undo[z], b)
      BY <2>2 DEF Pinned
  <2>4. z # n
      BY <1>4, <2>3 DEF Joins, At
  <2>5. order[z] > order[t]
      BY <1>3, <2>1, <2>3, <2>4
  <2> QED BY <2>3, <2>5 DEF Pinned
<1>8. Ranks(L, order)
    BY <1>2, <1>6, <1>7 DEF Ranks
<1>9. \A x \in Nodes : x # n => order[x] < order[n]
    BY <1>1, <1>3
<1> QED BY <1>8, <1>9

\* What was expected stays covered by a step of which each edge held is held still, or a later
\* pin replaces it, or it went with the reversal that expected it.
LEMMA CoverStays ==
    ASSUME LifecycleInv, PayloadsFit, EndsStored, NEW K, NEW rank, Ranks(K, rank),
           Ordered(rank)',
           \A t \in Nodes : \A w : Awaits(t, undo'[t], w) =>
              Awaits(t, undo[t], w) \/ (w \in edges' /\ ~Held(w)),
           \A s \in Nodes : Returnable(s)' => Returnable(s) \/ ~Stored(s),
           \A b : \A s \in Nodes : Held(b) /\ Movable(b) /\ At(b, s) /\ Returnable(s)' =>
              \/ Held(b)'
              \/ \A x \in Nodes : At(b, x) => Pinned(s, rank[x], rank)'
              \/ \E u \in Nodes : /\ At(b, u) /\ Awaits(u, undo[u], b)
                                  /\ undo'[u] = NoUndo /\ ~Returnable(u)'
    PROVE  Ranks(K, rank)'
<1>1. K \in Nat /\ rank \in [Nodes -> 0 .. K] /\ Ordered(rank) /\ Covered(rank)
    BY DEF Ranks
<1>2. \A x \in Nodes : rank[x] \in Int
    BY <1>1
<1>3. ASSUME NEW t \in Nodes, NEW w, Awaits(t, undo'[t], w),
             NEW s \in Nodes, At(w, s), Returnable(s)', ~(w \in edges')
      PROVE  Held(w)' \/ Pinned(s, rank[t], rank)'
  <2>1. Awaits(t, undo[t], w)
      BY <1>3
  <2>2. /\ Movable(w) /\ At(w, t) /\ undo[t] # NoUndo
        /\ \A x \in Nodes : At(w, x) /\ x # t =>
              rank[x] < rank[t] /\ \E e \in undo[t].edges : At(e, x)
      BY <1>1, <2>1, AwaitedIs
  <2>3. Stored(s)
    <3>1. CASE s = t
        BY <2>2, <3>1 DEF LifecycleInv, PayloadsAreSound, Stored
    <3>2. CASE s # t
        BY <1>3, <2>2, <3>2 DEF EndsStored, Held
    <3> QED BY <3>1, <3>2
  <2>4. Returnable(s)
      BY <1>3, <2>3
  <2>5. undo'[t] # NoUndo
      BY <1>3 DEF Awaits, NoUndo
  <2>6. CASE Held(w)
    <3>1. \/ Held(w)'
          \/ Pinned(s, rank[t], rank)'
          \/ \E u \in Nodes : At(w, u) /\ Awaits(u, undo[u], w) /\ undo'[u] = NoUndo
        BY <1>3, <2>2, <2>6
    <3>2. ASSUME NEW u \in Nodes, At(w, u), Awaits(u, undo[u], w), undo'[u] = NoUndo PROVE FALSE
      <4>1. u # t
          BY <2>5, <3>2
      <4>2. rank[u] < rank[t]
          BY <2>2, <3>2, <4>1
      <4>3. rank[t] < rank[u]
          BY <1>1, <2>2, <3>2, <4>1, AwaitedIs
      <4> QED BY <1>2, <4>2, <4>3
    <3> QED BY <3>1, <3>2
  <2>7. CASE Pinned(s, rank[t], rank)
    <3>1. PICK z, b : /\ z \in Nodes /\ Held(b) /\ Movable(b) /\ Joins(b, s, z)
                      /\ rank[z] > rank[t] /\ ~Awaits(z, undo[z], b)
        BY <2>7 DEF Pinned
    <3>2. At(b, s) /\ At(b, z) /\ \A u : At(b, u) => u = s \/ u = z
        BY <3>1 DEF Joins, At
    <3>3. CASE Held(b)'
      <4>1. ~Awaits(z, undo'[z], b)
          BY <3>1
      <4> QED BY <3>1, <3>3, <4>1 DEF Pinned
    <3>4. CASE Pinned(s, rank[z], rank)'
      <4>1. PICK y, d : /\ y \in Nodes /\ Held(d)' /\ Movable(d) /\ Joins(d, s, y)
                        /\ rank[y] > rank[z] /\ ~Awaits(y, undo'[y], d)
          BY <3>4 DEF Pinned
      <4>2. rank[y] > rank[t]
          BY <1>2, <3>1, <4>1
      <4> QED BY <4>1, <4>2 DEF Pinned
    <3>5. ASSUME NEW u \in Nodes, At(b, u), Awaits(u, undo[u], b), ~Returnable(u)' PROVE FALSE
        BY <1>3, <3>1, <3>2, <3>5
    <3> QED BY <1>3, <3>1, <3>2, <3>3, <3>4, <3>5
  <2> QED BY <1>1, <1>3, <2>1, <2>4, <2>6, <2>7 DEF Covered
<1>4. Covered(rank)'
  <2> SUFFICES ASSUME NEW t \in Nodes, NEW w, Awaits(t, undo'[t], w),
                      NEW s \in Nodes, At(w, s), Returnable(s)'
               PROVE  Held(w)' \/ Pinned(s, rank[t], rank)'
      BY DEF Covered
  <2> QED BY <1>3 DEF Held
<1> QED BY <1>1, <1>4 DEF Ranks

\* A step that leaves payloads and what could be moved as it was.
LEMMA CoverGrows ==
    ASSUME LifecycleInv, PayloadsFit, EndsStored, NEW K, NEW rank, Ranks(K, rank), undo' = undo,
           \A e \in edges : Movable(e) => e \in edges',
           \A s \in Nodes : Returnable(s)' => Returnable(s) \/ ~Stored(s)
    PROVE  Ranks(K, rank)'
<1>1. Ordered(rank)'
    BY DEF Ranks, Ordered
<1>2. \A b : Held(b) /\ Movable(b) => Held(b)'
    BY DEF Held
<1> QED BY <1>1, <1>2, CoverStays

\* Migration takes an edge to where its node went, or leaves it.
LEMMA MigratedFrom ==
    ASSUME NEW E \in SUBSET Edges, NEW S \in SUBSET Nodes, NEW n \in Nodes, NEW because,
           NEW e \in Migrated(E, S, n, because)
    PROVE  \/ e \in E /\ (Disposition(e.type, because) = "move" => ~Touches(e, S))
           \/ \E d \in E : e = Repoint(d, S, n)
BY DEF Migrated, Incident

LEMMA MigratedTo ==
    ASSUME NEW E \in SUBSET Edges, NEW S \in SUBSET Nodes, NEW n \in Nodes, NEW because,
           NEW e \in E
    PROVE  IF Disposition(e.type, because) = "move" /\ Touches(e, S)
           THEN \/ Repoint(e, S, n).src = Repoint(e, S, n).dst
                \/ Repoint(e, S, n) \in Migrated(E, S, n, because)
           ELSE e \in Migrated(E, S, n, because)
BY DEF Migrated, Incident

LEMMA HistoryEnd ==
    ASSUME LifecycleInv, OneAtATime, NEW c \in Calls, NEW r, Becomes(c, r), Aims(r)',
           EndsStored', MergedIdle', NEW K, NEW rank, Ranks(K, rank)'
    PROVE  HistoryInv'
<1>1. \A d \in Calls : call'[d] = r
    BY DEF LifecycleInv, OneAtATime, Becomes
<1>2. \A d \in Calls : Aims(call[d])'
    BY <1>1
<1> QED BY <1>2 DEF HistoryInv

LEMMA NothingAimed == Aims(NoCall) /\ Aims(NoCall)'
BY NoCallIs DEF Aims

LEMMA HistoryDone ==
    ASSUME LifecycleInv, OneAtATime, NEW c \in Calls, Done(c),
           EndsStored', MergedIdle', NEW K, NEW rank, Ranks(K, rank)'
    PROVE  HistoryInv'
<1>1. Becomes(c, NoCall)
    BY DEF Done, Becomes
<1> QED BY <1>1, NothingAimed, HistoryEnd

LEMMA HistoryStill ==
    ASSUME LifecycleInv, EdgeInv, HistoryInv, UNCHANGED <<status, lifecycle, undo, edges>>
    PROVE  EndsStored' /\ MergedIdle' /\ \E K, rank : Ranks(K, rank)'
<1>1. PICK K, rank : Ranks(K, rank)
    BY DEF HistoryInv
<1>2. EndsStored' /\ MergedIdle'
    BY DEF HistoryInv, EndsStored, MergedIdle, Held, Stored
<1>3. \A s \in Nodes : Returnable(s)' => Returnable(s)
    BY DEF Returnable
<1>4. Ranks(K, rank)'
    BY <1>1, <1>3, CoverGrows DEF EdgeInv, HistoryInv
<1> QED BY <1>2, <1>4

LEMMA HistoryPlan ==
    ASSUME LifecycleInv, EdgeInv, HistoryInv, OneAtATime, UNCHANGED graph, NEW c \in Calls, NEW r,
           Becomes(c, r), Aims(r)
    PROVE  HistoryInv'
<1>1. UNCHANGED <<status, lifecycle, undo, edges>>
    BY DEF graph
<1>2. Aims(r)'
    BY <1>1 DEF Aims, Active
<1>3. EndsStored' /\ MergedIdle' /\ \E K, rank : Ranks(K, rank)'
    BY <1>1, HistoryStill
<1> QED BY <1>2, <1>3, HistoryEnd

--------------------------------------------------------------------------------
(* Where the edges end that a call plans to write.                           *)

LEMMA SupersessionAims ==
    ASSUME LifecycleInv, EdgeInv, HistoryInv, OneAtATime, NEW c \in Calls,
           NEW op \in {"update", "supersede"}, NEW x \in Nodes, NEW y \in Nodes,
           NEW because \in {"corrected", "historical"}, PlanSupersession(c, op, x, y, because)
    PROVE  HistoryInv'
<1> PICK P, D :
        /\ P = {Edge(x, y, Lineage(because))} \cup {Edge(x, i, "evidence_superseded") : i \in Dependents(x)}
        /\ D = {e \in edges : e.dst = x /\ e.type = "supersession_candidate"}
    OBVIOUS
<1> DEFINE r == [NoCall EXCEPT !.op = op, !.nodes = {x}, !.into = y, !.because = because,
                               !.puts = P, !.drops = D]
<1>1. Becomes(c, r) /\ UNCHANGED graph
    BY DEF PlanSupersession, Plan, Becomes
<1>2. r.op = op /\ r.nodes = {x} /\ r.into = y /\ r.puts = P
    BY NoCallIs DEF Fields
<1> HIDE DEF r
<1>3. \A s, d, t : Edge(s, d, t).src = s /\ Edge(s, d, t).dst = d /\ Edge(s, d, t).type = t
    BY DEF Edge
<1>4. Dependents(x) \subseteq Others
    BY DEF Dependents
<1>5. \A e \in P : /\ e.type \in {"superseded_by", "temporally_followed_by", "evidence_superseded"}
                   /\ e.src = x /\ e.dst \in {y} \cup Others
    BY <1>3, <1>4 DEF Lineage
<1>6. Aims(r)
    BY <1>2, <1>5 DEF Aims, Movable, Disposition
<1> QED BY <1>1, <1>6, HistoryPlan

LEMMA BeginAims ==
    ASSUME LifecycleInv, EdgeInv, HistoryInv, OneAtATime, ~NamesRetired, NEW c \in Calls, Begin(c)
    PROVE  HistoryInv'
<1>1. ASSUME NEW x \in Nodes, NEW b \in {"corrected", "historical"}, NEW n \in Fresh,
             PlanUpdate(c, x, n, b)
      PROVE  HistoryInv'
    BY <1>1, SupersessionAims DEF PlanUpdate, Nodes
<1>2. ASSUME NEW x \in Nodes, NEW b \in {"corrected", "historical"}, NEW y \in Nodes,
             PlanSupersedeBy(c, x, y, b)
      PROVE  HistoryInv'
    BY <1>2, SupersessionAims DEF PlanSupersedeBy
<1>3. ASSUME NEW S \in SUBSET Nodes, NEW n \in Fresh, GateMerge(c, S, n) PROVE HistoryInv'
  <2> DEFINE r == [NoCall EXCEPT !.op = "embed", !.nodes = S, !.into = n]
  <2>1. Becomes(c, r) /\ UNCHANGED graph /\ r.op = "embed"
      BY <1>3, NoCallIs DEF GateMerge, Plan, Becomes, Fields
  <2> HIDE DEF r
  <2> QED BY <2>1, HistoryPlan DEF Aims
<1>4. ASSUME NEW s \in Nodes, PlanReverse(c, s) PROVE HistoryInv'
  <2> PICK S, E : S = undo[s].sources /\ E = undo[s].edges
      OBVIOUS
  <2> DEFINE r == [NoCall EXCEPT !.op = "restore", !.nodes = S, !.into = s, !.puts = E]
  <2>1. Becomes(c, r) /\ UNCHANGED graph /\ r.op = "restore" /\ r.into = s
      BY <1>4, NoCallIs DEF PlanReverse, Plan, Becomes, Fields
  <2>2. undo[s] # NoUndo
      BY <1>4 DEF PlanReverse
  <2> HIDE DEF r
  <2> QED BY <2>1, <2>2, HistoryPlan DEF Aims
<1>5. ASSUME NEW x \in Nodes, PlanArchive(c, x) PROVE HistoryInv'
  <2> DEFINE r == [NoCall EXCEPT !.op = "status", !.nodes = {x}, !.because = "archived"]
  <2>1. Becomes(c, r) /\ UNCHANGED graph /\ r.op = "status" /\ r.puts = {}
      BY <1>5, NoCallIs DEF PlanArchive, Plan, Becomes, Fields
  <2> HIDE DEF r
  <2> QED BY <2>1, HistoryPlan DEF Aims
<1>6. ASSUME NEW x \in Nodes, PlanRestore(c, x) PROVE HistoryInv'
  <2> PICK source \in {{}, {Edge(x, Document, "sourced_from")}} :
          Plan(c, [NoCall EXCEPT !.op = "status", !.nodes = {x}, !.because = "active",
                                 !.puts = source])
      BY <1>6 DEF PlanRestore
  <2> DEFINE r == [NoCall EXCEPT !.op = "status", !.nodes = {x}, !.because = "active",
                                 !.puts = source]
  <2>1. Becomes(c, r) /\ UNCHANGED graph /\ r.op = "status" /\ r.nodes = {x} /\ r.puts = source
      BY NoCallIs DEF Plan, Becomes, Fields
  <2>2. \A e \in source : e.src = x /\ e.dst = Document
      BY DEF Edge
  <2> HIDE DEF r
  <2> QED BY <2>1, <2>2, HistoryPlan DEF Aims
<1>7. ASSUME NEW e \in Links, PlanLink(c, e) PROVE HistoryInv'
  <2> DEFINE r == [NoCall EXCEPT !.op = "link", !.puts = {e}]
  <2>1. Becomes(c, r) /\ UNCHANGED graph /\ r.op = "link" /\ r.puts = {e}
      BY <1>7, NoCallIs DEF PlanLink, Plan, Becomes, Fields
  <2>2. \A x \in Nodes : At(e, x) => Active(x)
      BY <1>7 DEF PlanLink, MayName, At
  <2> HIDE DEF r
  <2> QED BY <2>1, <2>2, HistoryPlan DEF Aims
<1> QED BY <1>1, <1>2, <1>3, <1>4, <1>5, <1>6, <1>7 DEF Begin

LEMMA AimsAre ==
    ASSUME HistoryInv, NEW c \in Calls
    PROVE  Aims(call[c])
BY DEF HistoryInv

\* The steps that read: a merge's capture, a reversal's second look, the walk of eviction.
LEMMA ReadsAim ==
    ASSUME LifecycleInv, EdgeInv, HistoryInv, OneAtATime, NEW c \in Calls,
           CaptureMerge(c) \/ PlanDrops(c) \/ Evict(c)
    PROVE  HistoryInv'
<1> PICK r : r = call'[c]
    OBVIOUS
<1>1. UNCHANGED graph
    BY DEF CaptureMerge, PlanDrops, Evict
<1>2. CASE Done(c)
  <2>1. Becomes(c, NoCall)
      BY <1>2 DEF Done, Becomes
  <2> QED BY <1>1, <2>1, NothingAimed, HistoryPlan
<1>3. CASE CaptureMerge(c)
  <2> PICK S, n, U, P : /\ S = call[c].nodes /\ n = call[c].into
                        /\ U = Moving(edges, S) /\ P = MergeEdges(S, n)
      OBVIOUS
  <2>1. call' = [call EXCEPT ![c].op = "merge", ![c].undo = U, ![c].puts = P]
      BY <1>3 DEF CaptureMerge
  <2>2. Becomes(c, r)
      BY <2>1, FieldsAre DEF Becomes
  <2>3. r.op = "merge"
    <3>1. DOMAIN call = Calls /\ call[c] = [f \in Fields |-> call[c][f]]
        BY FieldsAre
    <3> QED BY <2>1, <3>1 DEF Fields
  <2> QED BY <1>1, <2>2, <2>3, HistoryPlan DEF Aims
<1>4. CASE PlanDrops(c)
  <2> PICK D : D = Incident(edges, {call[c].into})
                   \cup {e \in edges : e.src \in call[c].nodes /\ e.type = "evidence_merged"}
      OBVIOUS
  <2>1. call' = [call EXCEPT ![c].op = "reverse", ![c].drops = D]
      BY <1>4 DEF PlanDrops
  <2>2. Becomes(c, r)
      BY <2>1, FieldsAre DEF Becomes
  <2>3. r.op = "reverse" /\ r.into = call[c].into
    <3>1. DOMAIN call = Calls /\ call[c] = [f \in Fields |-> call[c][f]]
        BY FieldsAre
    <3> QED BY <2>1, <3>1 DEF Fields
  <2>4. undo[call[c].into] # NoUndo
      BY <1>4, AimsAre DEF Aims, PlanDrops
  <2> QED BY <1>1, <2>2, <2>3, <2>4, HistoryPlan DEF Aims
<1>5. CASE Evict(c) /\ ~Done(c)
  <2> PICK deep, W : /\ deep = TooDeep(call[c].into)
                     /\ W = [n \in deep |-> [status |-> status[n], lifecycle |-> lifecycle[n]]]
      OBVIOUS
  <2>1. call' = [call EXCEPT ![c].op = "clear", ![c].nodes = deep, ![c].was = W]
      BY <1>5 DEF Evict
  <2>2. Becomes(c, r)
      BY <2>1, FieldsAre DEF Becomes
  <2>3. r.op = "clear"
    <3>1. DOMAIN call = Calls /\ call[c] = [f \in Fields |-> call[c][f]]
        BY FieldsAre
    <3> QED BY <2>1, <3>1 DEF Fields
  <2> QED BY <1>1, <2>2, <2>3, HistoryPlan DEF Aims
<1> QED BY <1>2, <1>3, <1>4, <1>5

LEMMA CommitStatusHistory ==
    ASSUME LifecycleInv, EdgeInv, HistoryInv, OneAtATime, NEW c \in Calls, CommitStatus(c)
    PROVE  HistoryInv'
<1> PICK S, because, P : S = call[c].nodes /\ because = call[c].because /\ P = call[c].puts
    OBVIOUS
<1>1. /\ S \subseteq Nodes
      /\ \/ because = "archived" /\ \A x \in S : status[x] = "active"
         \/ because = "active" /\ \A x \in S : status[x] \in {"archived", "historical"}
    BY FieldsAre DEF CommitStatus, Stands, Active
<1>2. \A e \in P : e.src \in S /\ e.dst = Document
    BY AimsAre DEF Aims, CommitStatus
<1>3. /\ status' = [n \in Nodes |-> IF n \in S THEN because ELSE status[n]]
      /\ edges' = edges \cup P /\ undo' = undo
      /\ Done(c)
    BY DEF CommitStatus
<1>4. \A e \in P : \A x \in Nodes : At(e, x) => x \in S
    BY <1>2 DEF At
<1>5. EndsStored'
  <2>1. \A x \in Nodes : x \in S \/ Stored(x) => Stored(x)'
      BY <1>1, <1>3 DEF Stored
  <2>2. \A e : Held(e)' => Held(e) \/ e \in P
      BY <1>3 DEF Held
  <2> QED BY <1>4, <2>1, <2>2 DEF EndsStored, HistoryInv
<1>6. MergedIdle'
    BY <1>1, <1>3, <1>4 DEF MergedIdle, HistoryInv
<1>7. \A s \in Nodes : Returnable(s)' => Returnable(s)
    BY <1>1, <1>3 DEF Returnable
<1>8. PICK K, rank : Ranks(K, rank)
    BY DEF HistoryInv
<1>9. Ranks(K, rank)'
    BY <1>3, <1>7, <1>8, CoverGrows DEF EdgeInv, HistoryInv
<1> QED BY <1>3, <1>5, <1>6, <1>9, HistoryDone

LEMMA CommitLinkHistory ==
    ASSUME LifecycleInv, EdgeInv, HistoryInv, OneAtATime, NEW c \in Calls, CommitLink(c)
    PROVE  HistoryInv'
<1> PICK P : P = call[c].puts
    OBVIOUS
<1>1. \A e \in P : \A x \in Nodes : At(e, x) => status[x] = "active"
    BY AimsAre DEF Aims, CommitLink, Active
<1>2. UNCHANGED <<status, undo>> /\ edges' = edges \cup P /\ Done(c)
    BY DEF CommitLink
<1>3. EndsStored'
  <2>1. \A e : Held(e)' => Held(e) \/ e \in P
      BY <1>2 DEF Held
  <2> QED BY <1>1, <1>2, <2>1 DEF EndsStored, HistoryInv, Stored
<1>4. MergedIdle'
    BY <1>1, <1>2 DEF MergedIdle, HistoryInv
<1>5. \A s \in Nodes : Returnable(s)' => Returnable(s)
    BY <1>2 DEF Returnable
<1>6. PICK K, rank : Ranks(K, rank)
    BY DEF HistoryInv
<1>7. Ranks(K, rank)'
    BY <1>2, <1>5, <1>6, CoverGrows DEF EdgeInv, HistoryInv
<1> QED BY <1>2, <1>3, <1>4, <1>7, HistoryDone

--------------------------------------------------------------------------------
(* What a write makes of that order.                                         *)

\* What a merge writes beside what it moves is of its sources and its survivor.
LEMMA MergeEdgesEnds ==
    ASSUME NEW S \in SUBSET Nodes, NEW n \in Nodes, NEW e \in MergeEdges(S, n)
    PROVE  ~Movable(e) /\ \A x \in Nodes : At(e, x) => x \in S \/ x = n
<1>1. \/ \E x \in S : e = Edge(x, n, "merged_into")
      \/ \E x \in S : \E m \in Metacontexts(x) : e = Edge(n, m, "has_metacontext")
      \/ \E x \in S : \E i \in Dependents(x) : e = Edge(x, i, "evidence_merged")
    BY MergeEdgesInclude
<1>2. \A s, d, t : Edge(s, d, t).src = s /\ Edge(s, d, t).dst = d /\ Edge(s, d, t).type = t
    BY DEF Edge
<1>3. \A x : Metacontexts(x) \subseteq Others /\ Dependents(x) \subseteq Others
    BY DEF Metacontexts, Dependents
<1>4. e.type \in {"merged_into", "has_metacontext", "evidence_merged"}
    BY <1>1, <1>2
<1>5. e.src \in S \cup {n} /\ e.dst \in {n} \cup Others
    BY <1>1, <1>2, <1>3
<1>6. \A x \in Nodes : x \notin Others
    OBVIOUS
<1> QED BY <1>4, <1>5, <1>6 DEF Movable, Disposition, At

LEMMA CommitMergeHistory ==
    ASSUME LifecycleInv, EdgeInv, HistoryInv, OneAtATime, NEW c \in Calls, CommitMerge(c)
    PROVE  HistoryInv'
<1> PICK S, n, U, P, M, r :
        /\ S = call[c].nodes /\ n = call[c].into /\ U = call[c].undo /\ P = call[c].puts
        /\ M = Migrated(edges, S, n, "merged") /\ r = call'[c]
    OBVIOUS
<1>1. /\ S \subseteq Nodes /\ n \in Nodes /\ status[n] = "absent"
      /\ \A x \in S : status[x] = "active"
      /\ U = Moving(edges, S)
  <2>1. call[c].op = "merge" /\ Stands(call[c]) /\ call[c].nodes \subseteq Nodes
      BY FieldsAre DEF CommitMerge
  <2> QED BY <2>1 DEF Stands, Active, Stored
<1>2. P = MergeEdges(S, n)
    BY WritesAre DEF Writes, CommitMerge
<1>3. /\ status' = [x \in Nodes |-> IF x \in S THEN "merged" ELSE IF x = n THEN "active" ELSE status[x]]
      /\ undo' = [undo EXCEPT ![n] = [sources |-> S, edges |-> U]]
      /\ edges' = M \cup P
      /\ call' = [call EXCEPT ![c].op = "evict"]
    BY DEF CommitMerge
<1>4. n \notin S /\ edges \subseteq Edges
    BY <1>1 DEF LifecycleInv
<1>5. \A e : e \in U <=> e \in edges /\ Movable(e) /\ Touches(e, S)
    BY <1>1 DEF Moving, Incident, Movable
<1>6. /\ undo[n] = NoUndo /\ undo[n].edges = {} /\ undo[n].sources = {}
      /\ undo'[n].sources = S /\ undo'[n].edges = U
      /\ \A t \in Nodes : t # n => undo'[t] = undo[t]
  <2>1. undo = [t \in Nodes |-> undo[t]] /\ undo[n] = NoUndo
      BY <1>1 DEF LifecycleInv, PayloadsAreSound
  <2>2. undo'[n] = [sources |-> S, edges |-> U] /\ \A t \in Nodes : t # n => undo'[t] = undo[t]
      BY <1>1, <1>3, <2>1
  <2> QED BY <2>1, <2>2 DEF NoUndo
<1>7. /\ \A e \in M : \/ e \in edges /\ (Movable(e) => ~Touches(e, S))
                      \/ \E d \in edges : e = Repoint(d, S, n)
      /\ \A e \in edges : e \in M \/ e \in U
      /\ \A e \in U : Repoint(e, S, n).src # Repoint(e, S, n).dst => Repoint(e, S, n) \in M
  <2>1. edges \in SUBSET Edges /\ S \in SUBSET Nodes
      BY <1>1, <1>4
  <2>2. ASSUME NEW e \in M
        PROVE  \/ e \in edges /\ (Movable(e) => ~Touches(e, S))
               \/ \E d \in edges : e = Repoint(d, S, n)
      BY <1>1, <2>1, MigratedFrom DEF Movable
  <2>3. ASSUME NEW e \in edges
        PROVE  IF e \in U THEN Repoint(e, S, n).src = Repoint(e, S, n).dst \/ Repoint(e, S, n) \in M
               ELSE e \in M
      BY <1>1, <1>5, <2>1, MigratedTo DEF Movable
  <2> QED BY <1>5, <2>2, <2>3
<1>8. \A e : Held(e) => \A x \in Nodes : At(e, x) => status[x] # "absent" /\ x # n
    BY <1>1 DEF HistoryInv, EndsStored, Stored
<1>9. \A e \in P : /\ ~Movable(e)
                   /\ \A x \in Nodes : At(e, x) => x \in S \/ x = n
    BY <1>1, <1>2, MergeEdgesEnds
<1>10. \A b : Held(b) => Held(b)'
  <2> SUFFICES ASSUME NEW b, Held(b) PROVE Held(b)'
      OBVIOUS
  <2>1. CASE b \in edges
      BY <1>1, <1>3, <1>6, <1>7, <2>1 DEF Held
  <2>2. ASSUME NEW t \in Nodes, b \in undo[t].edges PROVE Held(b)'
      BY <1>6, <2>2 DEF Held
  <2> QED BY <2>1, <2>2 DEF Held
<1>11. \A b : Held(b)' => Held(b) \/ b \in edges'
  <2> SUFFICES ASSUME NEW b, Held(b)', b \notin edges' PROVE Held(b)
      OBVIOUS
  <2>1. PICK t \in Nodes : b \in undo'[t].edges
      BY DEF Held
  <2> QED BY <1>5, <1>6, <2>1 DEF Held
<1>12. \A d \in edges : /\ Repoint(d, S, n).type = d.type
                        /\ \A x \in Nodes : At(Repoint(d, S, n), x) => x = n \/ (x \notin S /\ At(d, x))
  <2> SUFFICES ASSUME NEW d \in edges
               PROVE  /\ Repoint(d, S, n).type = d.type
                      /\ \A x \in Nodes : At(Repoint(d, S, n), x) => x = n \/ (x \notin S /\ At(d, x))
      OBVIOUS
  <2> QED BY RepointIs DEF At
<1>13. \A e \in M : /\ \A x \in Nodes : At(e, x) => x = n \/ status[x] # "absent"
                    /\ Movable(e) => \A x \in Nodes : At(e, x) => x = n \/ (x \notin S /\ status[x] # "merged")
  <2> SUFFICES ASSUME NEW e \in M, NEW x \in Nodes, At(e, x), x # n
               PROVE  status[x] # "absent" /\ (Movable(e) => x \notin S /\ status[x] # "merged")
      OBVIOUS
  <2>1. CASE e \in edges /\ (Movable(e) => ~Touches(e, S))
    <3>1. Movable(e) => x \notin S
        BY <2>1 DEF Touches, At
    <3> QED BY <1>8, <2>1, <3>1 DEF Held, HistoryInv, MergedIdle
  <2>2. ASSUME NEW d \in edges, e = Repoint(d, S, n)
        PROVE  status[x] # "absent" /\ (Movable(e) => x \notin S /\ status[x] # "merged")
    <3>1. x \notin S /\ At(d, x) /\ e.type = d.type
        BY <1>12, <2>2
    <3> QED BY <1>8, <3>1 DEF Held, HistoryInv, MergedIdle, Movable
  <2> QED BY <1>7, <2>1, <2>2
<1>14. EndsStored'
  <2>1. \A x \in Nodes : x \in S \/ x = n \/ status[x] # "absent" => status'[x] # "absent"
      BY <1>3
  <2>2. \A e \in edges' : \A x \in Nodes : At(e, x) => status'[x] # "absent"
      BY <1>3, <1>9, <1>13, <2>1
  <2>3. \A e : Held(e) => \A x \in Nodes : At(e, x) => status'[x] # "absent"
      BY <1>8, <2>1
  <2> QED BY <1>11, <2>2, <2>3 DEF EndsStored, Stored
<1>15. MergedIdle'
  <2>1. \A e \in edges' : Movable(e) => e \in M
      BY <1>3, <1>9
  <2>2. \A x \in Nodes : x = n \/ (x \notin S /\ status[x] # "merged") => status'[x] # "merged"
      BY <1>3, <1>4
  <2> QED BY <1>13, <2>1, <2>2 DEF MergedIdle
<1>16. PICK K, rank : Ranks(K, rank) /\ \A x \in Nodes : x # n => rank[x] < rank[n]
  <2>1. PICK L, order : Ranks(L, order)
      BY DEF HistoryInv
  <2>2. L \in Nat
      BY <2>1 DEF Ranks
  <2> QED BY <1>1, <2>1, <2>2, Newest DEF EdgeInv, HistoryInv
<1>17. Ordered(rank)'
  <2> SUFFICES ASSUME NEW t \in Nodes, NEW e \in undo'[t].edges, NEW x \in Nodes, At(e, x)
               PROVE  rank[x] < rank[t]
      BY DEF Ordered
  <2>1. CASE t = n
    <3>1. Held(e)
        BY <1>5, <1>6, <2>1 DEF Held
    <3> QED BY <1>8, <1>16, <2>1, <3>1
  <2>2. CASE t # n
      BY <1>6, <1>16, <2>2 DEF Ranks, Ordered
  <2> QED BY <2>1, <2>2
<1>18. \A t \in Nodes : \A w : Awaits(t, undo'[t], w) =>
          Awaits(t, undo[t], w) \/ (w \in edges' /\ ~Held(w))
  <2> SUFFICES ASSUME NEW w, Awaits(n, undo'[n], w) PROVE w \in edges' /\ ~Held(w)
      BY <1>6
  <2>1. PICK e \in U : ~(e.src \in S /\ e.dst \in S) /\ w = Repoint(e, S, n)
      BY <1>6 DEF Awaits
  <2>2. e \in edges /\ (e.src \in S \/ e.dst \in S)
      BY <1>5 DEF Touches
  <2>3. e.src # n /\ e.dst # n
      BY <1>1, <1>8, <2>2 DEF Held, At
  <2>4. /\ w.src = IF e.src \in S THEN n ELSE e.src
        /\ w.dst = IF e.dst \in S THEN n ELSE e.dst
      BY <2>1, RepointIs
  <2>5. w.src # w.dst /\ At(w, n)
      BY <2>1, <2>2, <2>3, <2>4 DEF At
  <2> QED BY <1>1, <1>3, <1>7, <1>8, <2>1, <2>5
<1>19. \A s \in Nodes : Returnable(s)' => Returnable(s) \/ ~Stored(s)
  <2> SUFFICES ASSUME NEW s \in Nodes, Returnable(s)', s \notin S, s # n PROVE Returnable(s)
      BY <1>1 DEF Returnable, Stored
  <2>1. status'[s] = status[s]
      BY <1>3
  <2>2. ASSUME NEW t \in Nodes, s \in undo'[t].sources PROVE Returnable(s)
      BY <1>6, <2>2 DEF Returnable
  <2> QED BY <2>1, <2>2 DEF Returnable
<1>20. Ranks(K, rank)'
  <2>1. K \in Nat
      BY <1>16 DEF Ranks
  <2> QED BY <1>10, <1>16, <1>17, <1>18, <1>19, <2>1, CoverStays DEF EdgeInv, HistoryInv
<1>21. Becomes(c, r)
    BY <1>3, FieldsAre DEF Becomes
<1>22. r.op = "evict"
  <2>1. DOMAIN call = Calls /\ call[c] = [f \in Fields |-> call[c][f]]
      BY FieldsAre
  <2> QED BY <1>3, <2>1 DEF Fields
<1>23. Aims(r)'
    BY <1>22 DEF Aims
<1> QED BY <1>14, <1>15, <1>20, <1>21, <1>23, HistoryEnd

LEMMA ClearUndoHistory ==
    ASSUME LifecycleInv, EdgeInv, HistoryInv, OneAtATime, NEW c \in Calls, ClearUndo(c)
    PROVE  HistoryInv'
<1> PICK n \in call[c].nodes :
        /\ call[c].op = "clear"
        /\ status' = [status EXCEPT ![n] = call[c].was[n].status]
        /\ undo' = [undo EXCEPT ![n] = NoUndo]
        /\ IF call[c].nodes = {n} THEN Done(c)
           ELSE call' = [call EXCEPT ![c].nodes = @ \ {n}]
        /\ UNCHANGED <<edges, calls, before>>
    BY DEF ClearUndo
<1> PICK r : r = call'[c]
    OBVIOUS
<1>1. n \in Nodes /\ call[c].was[n].status = status[n]
  <2>1. Stands(call[c]) /\ call[c].nodes \subseteq Nodes
      BY FieldsAre
  <2> QED BY <2>1 DEF Stands
<1>2. status' = status /\ edges' = edges
    BY <1>1 DEF LifecycleInv
<1>3. /\ undo'[n] = NoUndo /\ undo'[n].edges = {} /\ undo'[n].sources = {}
      /\ \A t \in Nodes : t # n => undo'[t] = undo[t]
    BY <1>1 DEF LifecycleInv, PayloadsAreSound, NoUndo
<1>4. PICK K, rank : Ranks(K, rank)
    BY DEF HistoryInv
<1>5. PayloadsFit /\ EndsStored /\ MergedIdle
    BY DEF EdgeInv, HistoryInv
<1>6. /\ K \in Nat /\ Ordered(rank) /\ Covered(rank)
      /\ \A x \in Nodes : rank[x] \in Int
    BY <1>4 DEF Ranks
<1>7. Ordered(rank)'
    BY <1>3, <1>6 DEF Ordered
<1>8. \A t \in Nodes : \A w : Awaits(t, undo'[t], w) => Awaits(t, undo[t], w)
    BY <1>3 DEF Awaits
<1>9. \A s \in Nodes : Returnable(s)' => Returnable(s) /\ s \notin undo[n].sources
  <2> SUFFICES ASSUME NEW s \in Nodes, Returnable(s)' PROVE Returnable(s) /\ s \notin undo[n].sources
      OBVIOUS
  <2>1. CASE status[s] \in {"active", "archived", "historical"}
      BY <1>1, <2>1 DEF Returnable, LifecycleInv, PayloadsAreSound
  <2>2. CASE status[s] \notin {"active", "archived", "historical"}
    <3>1. PICK t \in Nodes : s \in undo'[t].sources
        BY <1>2, <2>2 DEF Returnable
    <3>2. t # n /\ s \in undo[t].sources
        BY <1>3, <3>1
    <3>3. undo[t].sources \cap undo[n].sources = {}
        BY <1>1, <3>2 DEF LifecycleInv, PayloadsAreSound
    <3> QED BY <3>2, <3>3 DEF Returnable
  <2> QED BY <2>1, <2>2
<1>10. \A b : Held(b) /\ b \notin undo[n].edges => Held(b)'
    BY <1>2, <1>3 DEF Held
<1>11. \A b : At(b, n) => b \notin undo[n].edges
    BY <1>1, <1>6 DEF Ordered
<1>12. ASSUME NEW b \in undo[n].edges, NEW s \in Nodes, At(b, s), Returnable(s)',
              NEW x \in Nodes, At(b, x)
       PROVE  Pinned(s, rank[x], rank)'
  <2>1. Returnable(s) /\ s \notin undo[n].sources
      BY <1>9, <1>12
  <2>2. PICK g : Awaits(n, undo[n], g) /\ Joins(g, s, n) /\ Movable(g) /\ rank[s] < rank[n]
      BY <1>1, <1>5, <1>6, <1>12, <2>1, MovedOn
  <2>3. rank[x] < rank[n]
      BY <1>1, <1>6, <1>12 DEF Ordered
  <2>4. At(g, s) /\ At(g, n)
      BY <2>2 DEF Joins, At
  <2>5. Held(g) \/ Pinned(s, rank[n], rank)
      BY <1>1, <1>6, <2>1, <2>2, <2>4 DEF Covered
  <2>6. CASE Held(g)
    <3>1. Held(g)'
        BY <1>10, <1>11, <2>4, <2>6
    <3>2. ~Awaits(n, undo'[n], g)
        BY <1>3 DEF Awaits
    <3>3. rank[n] > rank[x]
        BY <1>1, <1>6, <2>3
    <3> QED BY <1>1, <2>2, <3>1, <3>2, <3>3 DEF Pinned
  <2>7. CASE Pinned(s, rank[n], rank)
    <3>1. PICK z, d : /\ z \in Nodes /\ Held(d) /\ Movable(d) /\ Joins(d, s, z)
                      /\ rank[z] > rank[n] /\ ~Awaits(z, undo[z], d)
        BY <2>7 DEF Pinned
    <3>2. At(d, z)
        BY <3>1 DEF Joins, At
    <3>3. d \notin undo[n].edges
      <4>1. d \in undo[n].edges => rank[z] < rank[n]
          BY <1>1, <1>6, <3>1, <3>2 DEF Ordered
      <4> QED BY <1>1, <1>6, <3>1, <4>1
    <3>4. Held(d)'
        BY <1>10, <3>1, <3>3
    <3>5. rank[z] > rank[x] /\ ~Awaits(z, undo'[z], d)
        BY <1>1, <1>6, <1>8, <2>3, <3>1
    <3> QED BY <3>1, <3>4, <3>5 DEF Pinned
  <2> QED BY <2>5, <2>6, <2>7
<1>13. Ranks(K, rank)'
    BY <1>4, <1>5, <1>6, <1>7, <1>8, <1>9, <1>10, <1>12, CoverStays
<1>14. EndsStored'
  <2>1. \A e : Held(e)' => Held(e)
    <3> SUFFICES ASSUME NEW e, Held(e)', e \notin edges PROVE Held(e)
        BY DEF Held
    <3>1. PICK t \in Nodes : e \in undo'[t].edges
        BY <1>2 DEF Held
    <3> QED BY <1>3, <3>1 DEF Held
  <2> QED BY <1>2, <1>5, <2>1 DEF EndsStored, Stored
<1>15. MergedIdle'
    BY <1>2, <1>5 DEF MergedIdle
<1>16. CASE Done(c)
    BY <1>13, <1>14, <1>15, <1>16, HistoryDone
<1>17. CASE call' = [call EXCEPT ![c].nodes = @ \ {n}]
  <2>1. Becomes(c, r)
      BY <1>17, FieldsAre DEF Becomes
  <2>2. r.op = "clear"
      BY <1>17, WritesAre DEF Fields
  <2>3. Aims(r)'
      BY <2>2 DEF Aims
  <2> QED BY <1>13, <1>14, <1>15, <2>1, <2>3, HistoryEnd
<1> QED BY <1>16, <1>17

\* Nothing the reversed survivor leaves is missed: what it held on to was put there by its
\* merge, no payload speaks of it, and what is put back ends at nodes still in place.
LEMMA CommitReverseHistory ==
    ASSUME LifecycleInv, EdgeInv, HistoryInv, OneAtATime, NEW c \in Calls, CommitReverse(c)
    PROVE  HistoryInv'
<1> PICK S, s, P, D : S = call[c].nodes /\ s = call[c].into /\ P = call[c].puts /\ D = call[c].drops
    OBVIOUS
<1>1. S \subseteq Nodes /\ s \in Nodes /\ status[s] = "active" /\ S = undo[s].sources
    BY FieldsAre DEF CommitReverse, Stands, Active
<1>2. /\ P = undo[s].edges
      /\ Incident(edges, {s}) \subseteq Expected(s)
      /\ D = Incident(edges, {s}) \cup {e \in edges : e.src \in S /\ e.type = "evidence_merged"}
    BY WritesAre DEF Writes, CommitReverse
<1>3. /\ status' = [x \in Nodes |-> IF x \in S THEN "active" ELSE IF x = s THEN "absent" ELSE status[x]]
      /\ undo' = [undo EXCEPT ![s] = NoUndo]
      /\ edges' = (edges \ D) \cup P
      /\ Done(c)
    BY DEF CommitReverse
<1>4. /\ \A x \in S : status[x] = "merged"
      /\ s \notin S
  <2>1. \A x \in undo[s].sources : status[x] = "merged"
      BY <1>1 DEF LifecycleInv, PayloadsAreSound
  <2> QED BY <1>1, <2>1
<1>5. /\ undo'[s] = NoUndo /\ undo'[s].edges = {} /\ undo'[s].sources = {}
      /\ \A t \in Nodes : t # s => undo'[t] = undo[t]
    BY <1>1, <1>3 DEF LifecycleInv, PayloadsAreSound, NoUndo
<1>6. PICK K, rank : Ranks(K, rank)
    BY DEF HistoryInv
<1>7. PayloadsFit /\ EndsStored /\ MergedIdle
    BY DEF EdgeInv, HistoryInv
<1>8. K \in Nat /\ Ordered(rank) /\ Covered(rank)
    BY <1>6 DEF Ranks
<1>9. /\ \A t \in Nodes : \A e \in undo[t].edges : ~At(e, s)
      /\ \A w : Awaits(s, undo[s], w) => w \in edges
    BY <1>1, <1>2, <1>6, <1>7, <1>8, NoneSpeaks
<1>10. Ordered(rank)'
    BY <1>5, <1>8 DEF Ordered
<1>11. \A t \in Nodes : \A w : Awaits(t, undo'[t], w) => Awaits(t, undo[t], w)
    BY <1>5 DEF Awaits
<1>12. ~Returnable(s)' /\ \A x \in Nodes : Returnable(x)' => Returnable(x)
  <2>1. ~Returnable(s)'
    <3>1. status'[s] = "absent"
        BY <1>1, <1>3, <1>4
    <3>2. ASSUME NEW t \in Nodes, s \in undo'[t].sources PROVE FALSE
      <4>1. s \in undo[t].sources
          BY <1>5, <3>2
      <4> QED BY <1>1, <4>1 DEF LifecycleInv, PayloadsAreSound
    <3> QED BY <3>1, <3>2 DEF Returnable
  <2>2. ASSUME NEW x \in Nodes, Returnable(x)', x # s, x \notin S PROVE Returnable(x)
    <3>1. status'[x] = status[x]
        BY <1>3, <2>2
    <3>2. ASSUME NEW t \in Nodes, x \in undo'[t].sources PROVE Returnable(x)
        BY <1>5, <3>2 DEF Returnable
    <3> QED BY <2>2, <3>1, <3>2 DEF Returnable
  <2>3. \A x \in S : Returnable(x)
      BY <1>1 DEF Returnable
  <2> QED BY <2>1, <2>2, <2>3
<1>13. ASSUME NEW b, Held(b), Movable(b)
       PROVE  Held(b)' \/ (At(b, s) /\ Awaits(s, undo[s], b))
  <2>1. CASE b \in edges /\ b \notin D
      BY <1>3, <2>1 DEF Held
  <2>2. CASE b \in D
    <3>1. b \in Incident(edges, {s})
        BY <1>2, <1>13, <2>2 DEF Movable, Disposition
    <3>2. Awaits(s, undo[s], b)
        BY <1>1, <1>2, <1>13, <3>1, ExpectedAwaited
    <3> QED BY <3>1, <3>2 DEF Incident, Touches, At
  <2>3. ASSUME NEW t \in Nodes, b \in undo[t].edges PROVE Held(b)'
    <3>1. CASE t = s
        BY <1>2, <1>3, <2>3, <3>1 DEF Held
    <3>2. CASE t # s
        BY <1>5, <2>3, <3>2 DEF Held
    <3> QED BY <3>1, <3>2
  <2> QED BY <1>13, <2>1, <2>2, <2>3 DEF Held
<1>14. Ranks(K, rank)'
    BY <1>1, <1>5, <1>6, <1>7, <1>8, <1>10, <1>11, <1>12, <1>13, CoverStays
<1>15. \A e : Held(e)' => Held(e) /\ ~At(e, s)
  <2> SUFFICES ASSUME NEW e, Held(e)' PROVE Held(e) /\ ~At(e, s)
      OBVIOUS
  <2>1. CASE e \in edges /\ e \notin D
      BY <1>2, <2>1 DEF Held, Incident, Touches, At
  <2>2. CASE e \in P
      BY <1>1, <1>2, <1>9, <2>2 DEF Held
  <2>3. ASSUME NEW t \in Nodes, e \in undo'[t].edges PROVE Held(e) /\ ~At(e, s)
      BY <1>5, <1>9, <2>3 DEF Held
  <2> QED BY <1>3, <2>1, <2>2, <2>3 DEF Held
<1>16. EndsStored'
  <2>1. \A x \in Nodes : x # s /\ Stored(x) => Stored(x)'
      BY <1>3 DEF Stored
  <2> QED BY <1>7, <1>15, <2>1 DEF EndsStored
<1>17. MergedIdle'
  <2> SUFFICES ASSUME NEW e \in edges', Movable(e), NEW x \in Nodes, At(e, x), status'[x] = "merged"
               PROVE  FALSE
      BY DEF MergedIdle
  <2>1. x \notin S /\ status[x] = "merged"
      BY <1>3
  <2>2. CASE e \in edges
      BY <1>7, <2>1, <2>2 DEF MergedIdle
  <2>3. CASE e \in undo[s].edges
    <3>1. PICK g : Awaits(s, undo[s], g) /\ Joins(g, x, s) /\ Movable(g)
        BY <1>1, <1>7, <1>8, <2>1, <2>3, MovedOn
    <3>2. g \in edges /\ At(g, x)
        BY <1>9, <3>1 DEF Joins, At
    <3> QED BY <1>7, <2>1, <3>1, <3>2 DEF MergedIdle
  <2> QED BY <1>2, <1>3, <2>2, <2>3
<1> QED BY <1>3, <1>14, <1>16, <1>17, HistoryDone

\* An update takes the edges of a claim found wrong to its successor, whose reversal nothing
\* would be; everything else stays where it is.
LEMMA CommitSupersessionHistory ==
    ASSUME LifecycleInv, EdgeInv, HistoryInv, OneAtATime, NEW c \in Calls, CommitSupersession(c)
    PROVE  HistoryInv'
<1> PICK S, y, because, new, P, D :
        /\ S = call[c].nodes /\ y = call[c].into /\ because = call[c].because
        /\ new = (call[c].op = "update") /\ P = call[c].puts /\ D = call[c].drops
    OBVIOUS
<1> PICK M : M = IF new THEN Migrated(edges, S, y, because) ELSE edges
    OBVIOUS
<1>1. /\ S \subseteq Nodes /\ y \in Nodes /\ because \in {"corrected", "historical"}
      /\ \A x \in S : status[x] = "active" /\ x # y
      /\ new => status[y] = "absent"
    BY FieldsAre DEF CommitSupersession, Stands, Active, Stored
<1>2. /\ \A e \in D : e.type = "supersession_candidate"
      /\ ~new => status[y] # "absent"
    BY WritesAre DEF Writes, CommitSupersession, Stored
<1>3. \A e \in P : ~Movable(e) /\ e.src \in S /\ e.dst \in {y} \cup Others
    BY AimsAre DEF Aims, CommitSupersession
<1>4. /\ status' = [n \in Nodes |-> IF n \in S THEN because
                                    ELSE IF new /\ n = y THEN "active" ELSE status[n]]
      /\ edges' = (M \cup P) \ D /\ undo' = undo
      /\ Done(c)
    BY DEF CommitSupersession
<1>5. PayloadsFit /\ EndsStored /\ MergedIdle
    BY DEF EdgeInv, HistoryInv
<1>6. edges \in SUBSET Edges /\ S \in SUBSET Nodes
    BY <1>1 DEF LifecycleInv
<1>7. \A t \in Types : /\ Disposition(t, "merged") = "move" => Disposition(t, "historical") = "keep"
                       /\ Disposition(t, "historical") # "move"
    BY DEF Disposition
<1>8. ASSUME NEW e \in M
      PROVE  e \in edges \/ (new /\ \E d \in edges : e = Repoint(d, S, y))
    BY <1>1, <1>6, <1>8, MigratedFrom
<1>9. ASSUME NEW e \in edges
      PROVE  \/ e \in M
             \/ /\ new /\ because = "corrected" /\ Touches(e, S)
                /\ Repoint(e, S, y).src = Repoint(e, S, y).dst \/ Repoint(e, S, y) \in M
  <2>1. CASE new
    <3>1. IF Disposition(e.type, because) = "move" /\ Touches(e, S)
          THEN \/ Repoint(e, S, y).src = Repoint(e, S, y).dst
               \/ Repoint(e, S, y) \in Migrated(edges, S, y, because)
          ELSE e \in Migrated(edges, S, y, because)
        BY <1>1, <1>6, MigratedTo
    <3>2. e.type \in Types
        BY <1>6 DEF Edges
    <3> QED BY <1>1, <1>7, <2>1, <3>1, <3>2
  <2>2. CASE ~new
      BY <2>2
  <2> QED BY <2>1, <2>2
<1>10. \A e : Held(e) => \A x \in Nodes : At(e, x) => status[x] # "absent"
    BY <1>5 DEF EndsStored, Stored
<1>11. \A e \in D : ~Movable(e)
    BY <1>2 DEF Movable, Disposition
<1>12. ASSUME NEW e \in M, NEW x \in Nodes, At(e, x)
       PROVE  \/ new /\ x = y
              \/ status[x] # "absent" /\ (Movable(e) => status[x] # "merged")
  <2>1. CASE e \in edges
      BY <1>5, <1>10, <1>12, <2>1 DEF Held, MergedIdle
  <2>2. ASSUME new, NEW d \in edges, e = Repoint(d, S, y), x # y
        PROVE  status[x] # "absent" /\ (Movable(e) => status[x] # "merged")
    <3>1. At(d, x) /\ (Movable(e) => Movable(d))
        BY <1>12, <2>2, RepointIs DEF At
    <3> QED BY <1>5, <1>10, <3>1 DEF Held, MergedIdle
  <2> QED BY <1>8, <2>1, <2>2
<1>13. ASSUME NEW e \in P, NEW x \in Nodes, At(e, x) PROVE x \in S \/ x = y
  <2>1. x \notin Others
      OBVIOUS
  <2> QED BY <1>3, <1>13, <2>1 DEF At
<1>14. \A x \in Nodes : x = y \/ status[x] # "absent" => status'[x] # "absent"
    BY <1>1, <1>2, <1>4
<1>15. EndsStored'
  <2>1. ASSUME NEW e \in edges', NEW x \in Nodes, At(e, x) PROVE status'[x] # "absent"
    <3>1. CASE e \in M
        BY <1>12, <1>14, <2>1, <3>1
    <3>2. CASE e \in P
        BY <1>1, <1>13, <1>14, <2>1, <3>2
    <3> QED BY <1>4, <3>1, <3>2
  <2>2. ASSUME NEW t \in Nodes, NEW e \in undo'[t].edges, NEW x \in Nodes, At(e, x)
        PROVE  status'[x] # "absent"
    <3>1. Held(e)
        BY <1>4, <2>2 DEF Held
    <3> QED BY <1>10, <1>14, <2>2, <3>1
  <2> QED BY <2>1, <2>2 DEF EndsStored, Held, Stored
<1>16. MergedIdle'
  <2> SUFFICES ASSUME NEW e \in edges', Movable(e), NEW x \in Nodes, At(e, x) PROVE status'[x] # "merged"
      BY DEF MergedIdle
  <2>1. e \in M
      BY <1>3, <1>4
  <2>2. (new /\ x = y) \/ status[x] # "merged"
      BY <1>12, <2>1
  <2> QED BY <1>1, <1>4, <2>2
<1>17. \A s \in Nodes : Returnable(s)' => /\ Returnable(s) \/ ~Stored(s)
                                          /\ because = "corrected" => s \notin S
  <2> SUFFICES ASSUME NEW s \in Nodes, Returnable(s)'
               PROVE  /\ Returnable(s) \/ ~Stored(s)
                      /\ because = "corrected" => s \notin S
      OBVIOUS
  <2>1. CASE s \in S
    <3>1. status[s] = "active" /\ status'[s] = because
        BY <1>1, <1>4, <2>1
    <3>2. \A t \in Nodes : s \notin undo[t].sources
        BY <3>1 DEF LifecycleInv, PayloadsAreSound
    <3> QED BY <1>4, <3>1, <3>2 DEF Returnable
  <2>2. CASE s \notin S /\ ~(new /\ s = y)
      BY <1>4, <2>2 DEF Returnable
  <2>3. CASE s \notin S /\ new /\ s = y
      BY <1>1, <2>3 DEF Stored
  <2> QED BY <2>1, <2>2, <2>3
<1>18. PICK K, rank : Ranks(K, rank) /\ (new => \A x \in Nodes : x # y => rank[x] < rank[y])
  <2>1. PICK L, order : Ranks(L, order)
      BY DEF HistoryInv
  <2>2. L \in Nat
      BY <2>1 DEF Ranks
  <2> QED BY <1>1, <1>5, <2>1, <2>2, Newest
<1>19. K \in Nat /\ Ordered(rank)' /\ \A x \in Nodes : rank[x] \in Int
    BY <1>4, <1>18 DEF Ranks, Ordered
<1>20. ASSUME NEW b, Held(b), Movable(b), NEW s \in Nodes, At(b, s), Returnable(s)', ~Held(b)',
              NEW x \in Nodes, At(b, x)
       PROVE  Pinned(s, rank[x], rank)'
  <2>1. b \in edges /\ b \notin M
      BY <1>4, <1>11, <1>20 DEF Held
  <2>2. /\ new /\ because = "corrected" /\ Touches(b, S)
        /\ Repoint(b, S, y).src = Repoint(b, S, y).dst \/ Repoint(b, S, y) \in M
      BY <1>9, <2>1
  <2>3. s \notin S /\ s # y /\ x # y
      BY <1>1, <1>10, <1>17, <1>20, <2>2
  <2> PICK g : g = Repoint(b, S, y)
      OBVIOUS
  <2>4. Joins(g, s, y) /\ Movable(g) /\ g.src # g.dst
      BY <1>20, <2>2, <2>3, RepointIs DEF Joins, At, Touches
  <2>5. Held(g)'
      BY <1>4, <1>11, <2>2, <2>4 DEF Held
  <2>6. undo'[y] = NoUndo
      BY <1>1, <1>4, <2>2 DEF LifecycleInv, PayloadsAreSound
  <2>7. ~Awaits(y, undo'[y], g)
      BY <2>6 DEF Awaits, NoUndo
  <2>8. rank[y] > rank[x]
      BY <1>1, <1>18, <1>19, <2>2, <2>3
  <2> QED BY <1>1, <2>4, <2>5, <2>7, <2>8 DEF Pinned
<1>21. Ranks(K, rank)'
  <2>1. \A t \in Nodes : \A w : Awaits(t, undo'[t], w) => Awaits(t, undo[t], w)
      BY <1>4
  <2> QED BY <1>5, <1>17, <1>18, <1>19, <1>20, <2>1, CoverStays
<1> QED BY <1>4, <1>15, <1>16, <1>21, HistoryDone

--------------------------------------------------------------------------------
(* What edges say, ever, and what a reversal restores.                       *)

LEMMA InitHistory == Grounded /\ Init => HistoryInv
<1> SUFFICES ASSUME Grounded, Init PROVE HistoryInv
    OBVIOUS
<1>1. /\ \A n \in Nodes : status[n] \in {"active", "absent"}
      /\ \A n \in Facts : status[n] = "active"
      /\ \A n \in Nodes : undo[n].sources = {} /\ undo[n].edges = {}
      /\ edges = Known /\ \A c \in Calls : call[c] = NoCall
    BY DEF Init, Nodes, NoUndo
<1>2. \A e : Held(e) => e \in Known
    BY <1>1 DEF Held
<1>3. EndsStored
    BY <1>1, <1>2 DEF EndsStored, Grounded, At, Stored, Nodes
<1>4. MergedIdle
    BY <1>1 DEF MergedIdle
<1> PICK rank : rank = [x \in Nodes |-> 0]
    OBVIOUS
<1>5. rank \in [Nodes -> 0 .. 0] /\ 0 \in Nat
    OBVIOUS
<1>6. Ordered(rank)
    BY <1>1 DEF Ordered
<1>7. Covered(rank)
    BY <1>1 DEF Covered, Awaits
<1>8. Ranks(0, rank)
    BY <1>5, <1>6, <1>7 DEF Ranks
<1> QED BY <1>1, <1>3, <1>4, <1>8, NothingAimed DEF HistoryInv

LEMMA NextHistory ==
    ASSUME LifecycleInv, EdgeInv, HistoryInv, OneAtATime, ~NamesRetired, [Next]_vars
    PROVE  HistoryInv'
<1>1. ASSUME NEW c \in Calls, Write(c) PROVE HistoryInv'
  <2>1. CASE Abort(c)
    <3>1. Becomes(c, NoCall) /\ UNCHANGED graph
        BY <2>1 DEF Abort, Done, Becomes
    <3> QED BY <3>1, NothingAimed, HistoryPlan
  <2> QED BY <1>1, <2>1, ReadsAim, CommitMergeHistory, ClearUndoHistory, CommitReverseHistory,
             CommitSupersessionHistory, CommitStatusHistory, CommitLinkHistory DEF Write
<1>2. CASE Next
    BY <1>1, <1>2, BeginAims DEF Next
<1>3. CASE UNCHANGED vars
  <2>1. UNCHANGED <<status, lifecycle, undo, edges, call>>
      BY <1>3 DEF vars, graph
  <2>2. ASSUME NEW c \in Calls PROVE Aims(call[c])'
    <3> PICK r : r = call[c]
        OBVIOUS
    <3>1. Aims(r) /\ r = call'[c]
        BY <2>1 DEF HistoryInv
    <3>2. Aims(r)'
        BY <2>1, <3>1 DEF Aims, Active
    <3> QED BY <3>1, <3>2
  <2>3. EndsStored' /\ MergedIdle' /\ \E K, rank : Ranks(K, rank)'
      BY <2>1, HistoryStill
  <2> QED BY <2>2, <2>3 DEF HistoryInv
<1> QED BY <1>2, <1>3

LEMMA HistoryIsEdges == LifecycleInv /\ EdgeInv /\ HistoryInv => EdgesAreSound
<1> SUFFICES ASSUME LifecycleInv, EdgeInv, HistoryInv PROVE EdgesAreSound
    OBVIOUS
<1>1. NoDanglingEdge
    BY DEF HistoryInv, EndsStored, Held, At, NoDanglingEdge
<1>2. MergedKeepNothing
    BY DEF HistoryInv, MergedIdle, At, Movable, MergedKeepNothing, Moving, Incident, Touches
<1> QED BY <1>1, <1>2, LineageNamesOne DEF EdgesAreSound

\* Nothing but its reversal destroys an active node.
LEMMA OnlyReversal ==
    ASSUME LifecycleInv, OneAtATime, ~NamesRetired, [Next]_vars,
           NEW s \in Nodes, status[s] = "active", status'[s] = "absent"
    PROVE  \E c \in Calls : CommitReverse(c) /\ call[c].into = s
<1>1. status' # status
    OBVIOUS
<1>2. PICK c \in Calls : Write(c)
  <2>1. ASSUME NEW c \in Calls, Begin(c) PROVE UNCHANGED graph
    <3>1. \A r : Plan(c, r) => UNCHANGED graph
        BY DEF Plan
    <3>2. PICK r : Plan(c, r)
        BY <2>1 DEF Begin, GateMerge, PlanUpdate, PlanSupersedeBy, PlanSupersession, PlanReverse,
                    PlanArchive, PlanRestore, PlanLink
    <3> QED BY <3>1, <3>2
  <2> QED BY <1>1, <2>1 DEF Next, vars, graph
<1>3. Stands(call[c]) /\ call[c].nodes \subseteq Nodes
    BY FieldsAre
<1>4. ~(CaptureMerge(c) \/ Evict(c) \/ PlanDrops(c) \/ CommitLink(c) \/ Abort(c))
    BY <1>1 DEF CaptureMerge, Evict, PlanDrops, CommitLink, Abort, graph
<1>5. CASE CommitMerge(c)
    BY <1>5 DEF CommitMerge
<1>6. CASE ClearUndo(c)
  <2>1. PICK n \in call[c].nodes : call[c].op = "clear" /\ status' = [status EXCEPT ![n] = call[c].was[n].status]
      BY <1>6 DEF ClearUndo
  <2>2. call[c].was[n].status = status[n]
      BY <1>3, <2>1 DEF Stands
  <2> QED BY <1>1, <1>3, <2>1, <2>2 DEF LifecycleInv
<1>7. CASE CommitSupersession(c)
    BY <1>3, <1>7 DEF CommitSupersession, Stands
<1>8. CASE CommitStatus(c)
    BY <1>3, <1>8 DEF CommitStatus, Stands
<1>9. CASE CommitReverse(c)
    BY <1>9 DEF CommitReverse
<1> QED BY <1>2, <1>4, <1>5, <1>6, <1>7, <1>8, <1>9 DEF Write

LEMMA ReversalIs ==
    ASSUME LifecycleInv, EdgeInv, HistoryInv, OneAtATime, ~NamesRetired, [Next]_vars,
           NEW s \in Nodes, Active(s), status'[s] = "absent"
    PROVE  /\ \A x \in undo[s].sources : status'[x] = "active"
           /\ Moving(edges', undo[s].sources) = before[s]
           /\ ~\E e \in edges' : e.src \in undo[s].sources
                                 /\ e.type \in {"merged_into", "evidence_merged"}
<1> PICK c \in Calls : CommitReverse(c) /\ call[c].into = s
    BY OnlyReversal DEF Active
<1> PICK S, P, D : S = call[c].nodes /\ P = call[c].puts /\ D = call[c].drops
    OBVIOUS
<1>1. S \subseteq Nodes /\ S = undo[s].sources
    BY FieldsAre DEF CommitReverse, Stands
<1>2. /\ P = undo[s].edges
      /\ D = Incident(edges, {s}) \cup {e \in edges : e.src \in S /\ e.type = "evidence_merged"}
    BY WritesAre DEF Writes, CommitReverse
<1>3. /\ status' = [x \in Nodes |-> IF x \in S THEN "active" ELSE IF x = s THEN "absent" ELSE status[x]]
      /\ edges' = (edges \ D) \cup P
    BY DEF CommitReverse
<1>4. \A e \in P : Moves(e, S) /\ Movable(e)
    BY <1>1, <1>2 DEF EdgeInv, PayloadsFit, Moves, Movable
<1>5. \A x \in S : status[x] = "merged"
  <2>1. \A x \in undo[s].sources : status[x] = "merged"
      BY DEF LifecycleInv, PayloadsAreSound
  <2> QED BY <1>1, <2>1
<1>6. Moving(edges', S) = undo[s].edges
  <2>1. ASSUME NEW e \in edges', Movable(e), Touches(e, S) PROVE e \in P
    <3>1. PICK x \in S : At(e, x)
        BY <2>1 DEF Touches, At
    <3>2. e \notin edges
        BY <1>1, <1>5, <2>1, <3>1 DEF HistoryInv, MergedIdle
    <3> QED BY <1>3, <3>2
  <2>2. \A e : e \in Moving(edges', S) <=> e \in edges' /\ Movable(e) /\ Touches(e, S)
      BY DEF Moving, Incident, Movable
  <2> QED BY <1>2, <1>3, <1>4, <2>1, <2>2 DEF Moves
<1>7. undo[s].edges = before[s]
  <2>1. undo[s] # NoUndo => undo[s].edges = before[s]
      BY DEF LifecycleInv, PayloadsAreSound
  <2>2. undo[s] # NoUndo
      BY AimsAre DEF Aims, CommitReverse
  <2> QED BY <2>1, <2>2
<1>8. ASSUME NEW e \in edges', e.src \in S, e.type \in {"merged_into", "evidence_merged"} PROVE FALSE
  <2>1. e \in edges /\ e \notin D
      BY <1>3, <1>4, <1>8 DEF Movable, Disposition
  <2>2. e.type = "merged_into" /\ e.dst # s
      BY <1>2, <1>8, <2>1 DEF Incident, Touches
  <2>3. e.dst \in Nodes \cup Others
      BY <2>1 DEF LifecycleInv, Edges
  <2>4. Follows(e.src, e.dst)
      BY <2>1, <2>2 DEF Follows, Lines
  <2> QED BY <1>1, <1>8, <2>2, <2>3, <2>4 DEF EdgeInv, PayloadsFit
<1> QED BY <1>1, <1>3, <1>6, <1>7, <1>8

\* In a session that makes one call at a time, of callers that name active nodes, what edges
\* say of retired nodes is whole, no edge ends at a node the store lost, and a merged node is
\* left nothing that can move, in whatever order merges are reversed and their payloads evicted.
THEOREM EdgesStaySound ==
    OneAtATime /\ ~NamesRetired /\ Ingested /\ Grounded => (Spec => []EdgesAreSound)
<1> SUFFICES ASSUME OneAtATime, ~NamesRetired, Ingested, Grounded
             PROVE  Spec => []EdgesAreSound
    OBVIOUS
<1>1. LifecycleInv /\ EdgeInv /\ HistoryInv /\ [Next]_vars => LifecycleInv' /\ EdgeInv' /\ HistoryInv'
    BY NextInv, NextEdges, NextHistory
<1>2. Init => LifecycleInv /\ EdgeInv /\ HistoryInv
    BY InitInv, InitEdges, InitHistory
<1> QED BY <1>1, <1>2, HistoryIsEdges, PTL DEF Spec

\* In such a session a reversal gives each source its status and the very edges it had before
\* the merge, and leaves no lineage and no flag of the merge on it.
THEOREM ReversalRestores ==
    OneAtATime /\ ~NamesRetired /\ Ingested /\ Grounded => (Spec => ReverseRestores)
<1> SUFFICES ASSUME OneAtATime, ~NamesRetired, Ingested, Grounded
             PROVE  Spec => ReverseRestores
    OBVIOUS
<1> DEFINE Restores == \A s \in Nodes : Active(s) /\ status'[s] = "absent" =>
          /\ \A x \in undo[s].sources : status'[x] = "active"
          /\ Moving(edges', undo[s].sources) = before[s]
          /\ ~\E e \in edges' : e.src \in undo[s].sources
                                /\ e.type \in {"merged_into", "evidence_merged"}
<1>1. LifecycleInv /\ EdgeInv /\ HistoryInv /\ [Next]_vars => LifecycleInv' /\ EdgeInv' /\ HistoryInv'
    BY NextInv, NextEdges, NextHistory
<1>2. Init => LifecycleInv /\ EdgeInv /\ HistoryInv
    BY InitInv, InitEdges, InitHistory
<1>3. LifecycleInv /\ EdgeInv /\ HistoryInv /\ [Next]_vars => Restores
    BY ReversalIs
<1> HIDE DEF Restores
<1>4. Spec => [][Restores]_vars
    BY <1>1, <1>2, <1>3, PTL DEF Spec
<1> QED BY <1>4 DEF ReverseRestores, Restores

-------------------------------------------------------------------------------
(* How deep payloads go.                                                     *)

\* The levels behind s, by the payloads u.
Levels(u, s) ==
    LET f[level \in Nat] == IF level <= 1 THEN {s} ELSE UNION {u[n].sources : n \in f[level - 1]}
    IN  f

\* Payloads that would bring back nodes.
Payloads(u) == DOMAIN u = Nodes /\ \A n \in Nodes : u[n].sources \subseteq Nodes

\* Each level back is what the payloads of the one before would bring back.
LEMMA LevelsAre ==
    ASSUME NEW u, Payloads(u), NEW s \in Nodes
    PROVE  /\ Levels(u, s)[1] = {s}
           /\ \A l \in Nat \ {0} :
                 /\ Levels(u, s)[l] \subseteq Nodes
                 /\ Levels(u, s)[l + 1] = UNION {u[n].sources : n \in Levels(u, s)[l]}
<1> DEFINE X == SUBSET Nodes
           a == {s}
           step == [A \in X |-> UNION {u[n].sources : n \in A}]
<1>1. a \in X
    OBVIOUS
<1>2. step \in [X -> X]
    BY DEF Payloads
<1>3. \E g : Repeats(g, X, a, step)
  <2> HIDE DEF X, a, step
  <2> QED BY <1>1, <1>2, StepsExist
<1> DEFINE f[level \in Nat] == IF level <= 1 THEN {s} ELSE UNION {u[n].sources : n \in f[level - 1]}
<1>4. f = [level \in Nat |-> IF level <= 1 THEN {s} ELSE UNION {u[n].sources : n \in f[level - 1]}]
  <2>1. PICK g : /\ g \in [Nat -> X] /\ g[0] = a
                 /\ \A i \in Nat : g[i + 1] = step[g[i]]
      BY <1>3 DEF Repeats
  <2> DEFINE h == [level \in Nat |-> IF level = 0 THEN {s} ELSE g[level - 1]]
  <2>2. \A level \in Nat : h[level] = IF level <= 1 THEN {s} ELSE UNION {u[n].sources : n \in h[level - 1]}
    <3> SUFFICES ASSUME NEW level \in Nat
                 PROVE  h[level] = IF level <= 1 THEN {s} ELSE UNION {u[n].sources : n \in h[level - 1]}
        OBVIOUS
    <3>1. CASE level <= 1
        BY <2>1, <3>1
    <3>2. CASE ~(level <= 1)
      <4>1. level - 1 \in Nat /\ level - 1 # 0 /\ level # 0 /\ level - 2 \in Nat /\ (level - 2) + 1 = level - 1
            /\ (level - 1) - 1 = level - 2
          BY <3>2
      <4>2. h[level] = g[level - 1] /\ h[level - 1] = g[level - 2]
          BY <4>1
      <4>3. g[level - 1] = step[g[level - 2]] /\ g[level - 2] \in X
          BY <2>1, <4>1
      <4> HIDE DEF h
      <4> QED BY <3>2, <4>2, <4>3
    <3> QED BY <3>1, <3>2
  <2>3. h = [level \in Nat |-> IF level <= 1 THEN {s} ELSE UNION {u[n].sources : n \in h[level - 1]}]
    <3>1. h = [level \in Nat |-> h[level]]
        OBVIOUS
    <3> HIDE DEF h
    <3> QED BY <2>2, <3>1
  <2> HIDE DEF h
  <2> QED BY <2>3
<1>5. Levels(u, s) = f
    BY DEF Levels
<1> HIDE DEF f
<1>6. f[1] = {s} /\ \A l \in Nat \ {0} : f[l + 1] = UNION {u[n].sources : n \in f[l]}
  <2>1. \A l \in Nat \ {0} : l + 1 \in Nat /\ ~(l + 1 <= 1) /\ (l + 1) - 1 = l
      OBVIOUS
  <2> QED BY <1>4, <2>1
<1>7. \A l \in Nat \ {0} : f[l] \subseteq Nodes
  <2> DEFINE S == {l \in Nat : f[l] \subseteq Nodes}
  <2>1. 1 \in S
      BY <1>6
  <2>2. \A l \in Nat \ {0} : l \in S => l + 1 \in S
    <3> SUFFICES ASSUME NEW l \in Nat \ {0}, f[l] \subseteq Nodes
                 PROVE  l + 1 \in Nat /\ f[l + 1] \subseteq Nodes
        OBVIOUS
    <3>1. f[l + 1] = UNION {u[n].sources : n \in f[l]}
        BY <1>6
    <3> QED BY <3>1 DEF Payloads
  <2> HIDE DEF S
  <2>3. ASSUME NEW l \in Nat \ {0} PROVE l \in S
    <3>1. \A i \in 1 .. l : i \in S
        BY <2>1, <2>2, UpFrom
    <3> QED BY <3>1
  <2> QED BY <2>3 DEF S
<1> QED BY <1>5, <1>6, <1>7

\* What lies behind a survivor is a source of some merge.
LEMMA BehindIsSource ==
    ASSUME NEW u, Payloads(u), NEW s \in Nodes,
           NEW l \in Nat, l >= 2, NEW m \in Levels(u, s)[l]
    PROVE  /\ m \in Nodes
           /\ \E p \in Levels(u, s)[l - 1] : p \in Nodes /\ m \in u[p].sources
<1>1. l - 1 \in Nat \ {0} /\ (l - 1) + 1 = l
    OBVIOUS
<1>2. l \in Nat \ {0}
    OBVIOUS
<1>3. Levels(u, s)[l - 1] \subseteq Nodes
    BY <1>1, LevelsAre
<1>4. Levels(u, s)[(l - 1) + 1] = UNION {u[n].sources : n \in Levels(u, s)[l - 1]}
    BY <1>1, LevelsAre
<1>5. Levels(u, s)[l] \subseteq Nodes
    BY <1>2, LevelsAre
<1> QED BY <1>1, <1>3, <1>4, <1>5

\* m has a payload, and lies behind s at none of the levels whose payloads are kept.
Deep(u, s, m) ==
    /\ m \in Nodes /\ u[m] # NoUndo
    /\ \E l \in Nat : l > UndoDepth /\ l <= Cardinality(Nodes) /\ m \in Levels(u, s)[l]
    /\ \A k \in Nat : 1 <= k /\ k <= UndoDepth /\ k <= Cardinality(Nodes) => m \notin Levels(u, s)[k]

LEMMA TooDeepIs ==
    ASSUME IsFiniteSet(Nodes), NEW s
    PROVE  \A m : /\ m \in TooDeep(s) <=> Deep(undo, s, m)
                  /\ m \in TooDeep(s)' <=> Deep(undo', s, m)
<1>1. Cardinality(Nodes) \in Nat /\ UndoDepth \in Nat \ {0}
    BY FS_CardinalityType
<1>2. \A l : l \in (UndoDepth + 1 .. Cardinality(Nodes)) \cap (1 .. Cardinality(Nodes))
             <=> l \in Nat /\ l > UndoDepth /\ l <= Cardinality(Nodes)
    BY <1>1
<1>3. \A k : k \in (1 .. UndoDepth) \cap (1 .. Cardinality(Nodes))
             <=> k \in Nat /\ 1 <= k /\ k <= UndoDepth /\ k <= Cardinality(Nodes)
    BY <1>1
<1>4. Ancestors(s) = Levels(undo, s) /\ Ancestors(s)' = Levels(undo', s)
    BY DEF Ancestors, Levels
<1> QED BY <1>2, <1>3, <1>4 DEF TooDeep, Within, Deep

\* Clearing a payload takes nodes from the levels and adds none.
LEMMA LevelsShrink ==
    ASSUME NEW u, NEW v, Payloads(u), Payloads(v), NEW s \in Nodes,
           \A x \in Nodes : v[x].sources \subseteq u[x].sources
    PROVE  \A l \in Nat \ {0} : Levels(v, s)[l] \subseteq Levels(u, s)[l]
<1> DEFINE S == {l \in Nat : Levels(v, s)[l] \subseteq Levels(u, s)[l]}
<1>1. 1 \in S
    BY LevelsAre
<1>2. \A l \in Nat \ {0} : l \in S => l + 1 \in S
  <2> SUFFICES ASSUME NEW l \in Nat \ {0}, Levels(v, s)[l] \subseteq Levels(u, s)[l]
               PROVE  l + 1 \in Nat /\ Levels(v, s)[l + 1] \subseteq Levels(u, s)[l + 1]
      OBVIOUS
  <2>1. /\ Levels(v, s)[l] \subseteq Nodes
        /\ Levels(v, s)[l + 1] = UNION {v[n].sources : n \in Levels(v, s)[l]}
        /\ Levels(u, s)[l + 1] = UNION {u[n].sources : n \in Levels(u, s)[l]}
      BY LevelsAre
  <2> QED BY <2>1
<1> HIDE DEF S
<1>3. ASSUME NEW l \in Nat \ {0} PROVE l \in S
  <2>1. \A i \in 1 .. l - 1 : i \in S => i + 1 \in S
      BY <1>2
  <2>2. \A i \in 1 .. l : i \in S
      BY <1>1, <2>1, UpFrom
  <2> QED BY <2>2
<1> QED BY <1>3 DEF S

\* Nothing lies behind a node whose payload is gone.
LEMMA NoneBehind ==
    ASSUME NEW u, Payloads(u), NEW s \in Nodes, u[s].sources = {}
    PROVE  \A l \in Nat : l >= 2 => Levels(u, s)[l] = {}
<1> DEFINE S == {l \in Nat : Levels(u, s)[l] = {}}
<1>1. 2 \in S
  <2>1. 1 \in Nat \ {0} /\ 1 + 1 = 2
      OBVIOUS
  <2>2. Levels(u, s)[1] = {s} /\ Levels(u, s)[1 + 1] = UNION {u[n].sources : n \in Levels(u, s)[1]}
      BY <2>1, LevelsAre
  <2>3. Levels(u, s)[2] = UNION {u[n].sources : n \in {s}}
      BY <2>1, <2>2
  <2> QED BY <2>3
<1>2. \A l \in Nat \ {0} : l \in S => l + 1 \in S
  <2> SUFFICES ASSUME NEW l \in Nat \ {0}, Levels(u, s)[l] = {}
               PROVE  l + 1 \in Nat /\ Levels(u, s)[l + 1] = {}
      OBVIOUS
  <2>1. Levels(u, s)[l + 1] = UNION {u[n].sources : n \in Levels(u, s)[l]}
      BY LevelsAre
  <2> QED BY <2>1
<1> HIDE DEF S
<1>3. ASSUME NEW l \in Nat, l >= 2 PROVE l \in S
  <2>1. \A i \in 2 .. l - 1 : i \in S => i + 1 \in S
      BY <1>2
  <2>2. 2 \in Int /\ l \in Int /\ l \in 2 .. l
      BY <1>3
  <2>3. \A i \in 2 .. l : i \in S
      BY <1>1, <2>1, <2>2, UpFrom
  <2> QED BY <2>2, <2>3
<1> QED BY <1>3 DEF S

\* A survivor that nothing brings back, with its payload or without, is behind no other.
LEMMA LevelsElsewhere ==
    ASSUME NEW u, NEW v, Payloads(u), Payloads(v), NEW n \in Nodes, NEW s \in Nodes, s # n,
           \A x \in Nodes : x # n => v[x] = u[x],
           \A x \in Nodes : n \notin u[x].sources
    PROVE  \A l \in Nat \ {0} : Levels(v, s)[l] = Levels(u, s)[l]
<1> DEFINE S == {l \in Nat : Levels(v, s)[l] = Levels(u, s)[l] /\ n \notin Levels(u, s)[l]}
<1>1. 1 \in S
  <2>1. Levels(u, s)[1] = {s} /\ Levels(v, s)[1] = {s}
      BY LevelsAre
  <2> QED BY <2>1
<1>2. \A l \in Nat \ {0} : l \in S => l + 1 \in S
  <2> SUFFICES ASSUME NEW l \in Nat \ {0}, Levels(v, s)[l] = Levels(u, s)[l], n \notin Levels(u, s)[l]
               PROVE  /\ l + 1 \in Nat /\ Levels(v, s)[l + 1] = Levels(u, s)[l + 1]
                      /\ n \notin Levels(u, s)[l + 1]
      OBVIOUS
  <2>1. /\ Levels(u, s)[l] \subseteq Nodes
        /\ Levels(v, s)[l + 1] = UNION {v[x].sources : x \in Levels(v, s)[l]}
        /\ Levels(u, s)[l + 1] = UNION {u[x].sources : x \in Levels(u, s)[l]}
      BY LevelsAre
  <2>2. \A x \in Levels(u, s)[l] : v[x] = u[x] /\ n \notin u[x].sources
      BY <2>1
  <2> QED BY <2>1, <2>2
<1> HIDE DEF S
<1>3. ASSUME NEW l \in Nat \ {0} PROVE l \in S
  <2>1. \A i \in 1 .. l - 1 : i \in S => i + 1 \in S
      BY <1>2
  <2>2. \A i \in 1 .. l : i \in S
      BY <1>1, <2>1, UpFrom
  <2> QED BY <2>2
<1> QED BY <1>3 DEF S

\* A node is brought back by the payload of at most one survivor.
BroughtOnce(u) ==
    \A s, t \in Nodes : s # t => u[s].sources \cap u[t].sources = {}

\* In any set of nodes there is one that no payload of the set would bring back: of the
\* survivors the latest.
Founded(u) ==
    \A C \in SUBSET Nodes : C # {} => \E x \in C : \A y \in C : x \notin u[y].sources

\* A node lies at one level behind a survivor.
LevelsApart(u, s) ==
    \A k, l \in Nat \ {0} : k < l => Levels(u, s)[k] \cap Levels(u, s)[l] = {}

LEMMA LevelsStayApart ==
    ASSUME NEW u, Payloads(u), BroughtOnce(u), Founded(u), NEW s \in Nodes
    PROVE  LevelsApart(u, s)
<1>1. \A k \in Nat \ {0} : Levels(u, s)[k] \subseteq Nodes
    BY LevelsAre
\* s is not behind itself, or in the nodes behind it each would be brought back by one.
<1>2. ASSUME NEW l \in Nat, l >= 2 PROVE s \notin Levels(u, s)[l]
  <2> SUFFICES ASSUME s \in Levels(u, s)[l]
               PROVE  FALSE
      OBVIOUS
  <2> DEFINE B == {x \in Nodes : \E k \in Nat \ {0} : x \in Levels(u, s)[k]}
  <2>1. s \in B
      BY <1>2
  <2>2. PICK x \in B : \A y \in B : x \notin u[y].sources
      BY <2>1 DEF Founded
  <2>3. PICK k \in Nat : k >= 2 /\ x \in Levels(u, s)[k]
    <3>1. PICK k \in Nat \ {0} : x \in Levels(u, s)[k]
        BY <2>2
    <3>2. CASE k = 1
      <4>1. x = s
          BY <3>1, <3>2, LevelsAre
      <4> QED BY <1>2, <4>1
    <3>3. CASE k # 1
        BY <3>1, <3>3
    <3> QED BY <3>2, <3>3
  <2>4. PICK p \in Levels(u, s)[k - 1] : p \in Nodes /\ x \in u[p].sources
      BY <2>3, BehindIsSource
  <2>5. k - 1 \in Nat \ {0}
      BY <2>3
  <2>6. p \in B
      BY <2>4, <2>5
  <2> QED BY <2>2, <2>4, <2>6
<1> DEFINE T == {k \in Nat : k >= 1 /\ \E l \in Nat : k < l /\ Levels(u, s)[k] \cap Levels(u, s)[l] # {}}
<1>3. ASSUME T # {} PROVE FALSE
  <2>1. T \in SUBSET Nat
      OBVIOUS
  <2>2. PICK k \in T : \A j \in T : k <= j
      BY <1>3, <2>1, LeastNat
  <2>3. PICK l \in Nat, m \in Nodes : k < l /\ m \in Levels(u, s)[k] /\ m \in Levels(u, s)[l]
      BY <1>1, <2>2
  <2>4. k \in Nat /\ k >= 1 /\ l >= 2
      BY <2>2, <2>3
  <2>5. CASE k = 1
    <3>1. m = s
        BY <2>3, <2>5, LevelsAre
    <3> QED BY <1>2, <2>3, <2>4, <3>1
  <2>6. CASE k # 1
    <3>1. k >= 2
        BY <2>4, <2>6
    <3>2. PICK p \in Levels(u, s)[k - 1] : p \in Nodes /\ m \in u[p].sources
        BY <2>3, <2>4, <3>1, BehindIsSource
    <3>3. PICK q \in Levels(u, s)[l - 1] : q \in Nodes /\ m \in u[q].sources
        BY <2>3, <2>4, BehindIsSource
    <3>4. p = q
        BY <3>2, <3>3 DEF BroughtOnce
    <3>5. k - 1 \in Nat /\ k - 1 >= 1 /\ l - 1 \in Nat /\ k - 1 < l - 1 /\ ~(k <= k - 1)
        BY <2>3, <2>4, <3>1
    <3>6. k - 1 \in T
        BY <3>2, <3>3, <3>4, <3>5
    <3> QED BY <2>2, <3>5, <3>6
  <2> QED BY <2>5, <2>6
<1> SUFFICES ASSUME NEW k \in Nat \ {0}, NEW l \in Nat \ {0}, k < l,
                    Levels(u, s)[k] \cap Levels(u, s)[l] # {}
             PROVE  FALSE
    BY DEF LevelsApart
<1>4. k \in T
    OBVIOUS
<1> QED BY <1>3, <1>4

\* With a payload cleared, nothing is deeper than it was: a node that was within reach
\* leaves it only together with all that lies behind, or lies at no other level.
LEMMA DeepShrinks ==
    ASSUME IsFiniteSet(Nodes), NEW u, NEW v, Payloads(u), Payloads(v),
           \A x \in Nodes : v[x] = u[x] \/ v[x] = NoUndo,
           NEW s \in Nodes, UndoDepth <= 2 \/ LevelsApart(u, s), NEW m, Deep(v, s, m)
    PROVE  Deep(u, s, m)
<1>1. Cardinality(Nodes) \in Nat /\ UndoDepth \in Nat \ {0}
    BY FS_CardinalityType
<1>2. NoUndo.sources = {}
    BY DEF NoUndo
<1>3. \A l \in Nat \ {0} : Levels(v, s)[l] \subseteq Levels(u, s)[l]
  <2>1. \A x \in Nodes : v[x].sources \subseteq u[x].sources
      BY <1>2
  <2> QED BY <2>1, LevelsShrink
<1>4. m \in Nodes /\ u[m] # NoUndo
    BY DEF Deep
<1>5. PICK l \in Nat : l > UndoDepth /\ l <= Cardinality(Nodes) /\ m \in Levels(v, s)[l]
    BY DEF Deep
<1>6. l \in Nat \ {0} /\ l >= 2 /\ m \in Levels(u, s)[l]
    BY <1>1, <1>3, <1>5
<1>7. ASSUME NEW k \in Nat, 1 <= k, k <= UndoDepth, k <= Cardinality(Nodes), m \in Levels(u, s)[k]
      PROVE  FALSE
  <2>1. k \in Nat \ {0} /\ k < l /\ m \notin Levels(v, s)[k]
      BY <1>1, <1>5, <1>7 DEF Deep
  <2>2. CASE LevelsApart(u, s)
      BY <1>6, <1>7, <2>1, <2>2 DEF LevelsApart
  <2>3. CASE k = 1
      BY <1>7, <2>1, <2>3, LevelsAre
  <2>4. CASE k = 2
    <3>1. v[s].sources # {}
        BY <1>5, <1>6, NoneBehind
    <3>2. v[s] = u[s]
        BY <1>2, <3>1
    <3>3. 1 \in Nat \ {0} /\ 1 + 1 = 2
        OBVIOUS
    <3>4. /\ Levels(u, s)[1] = {s} /\ Levels(u, s)[1 + 1] = UNION {u[n].sources : n \in Levels(u, s)[1]}
          /\ Levels(v, s)[1] = {s} /\ Levels(v, s)[1 + 1] = UNION {v[n].sources : n \in Levels(v, s)[1]}
        BY <3>3, LevelsAre
    <3>5. Levels(u, s)[2] = UNION {u[n].sources : n \in {s}} /\ Levels(v, s)[2] = UNION {v[n].sources : n \in {s}}
        BY <3>3, <3>4
    <3>6. Levels(u, s)[2] = Levels(v, s)[2]
        BY <3>2, <3>5
    <3> QED BY <1>7, <2>1, <2>4, <3>6
  <2>5. UndoDepth <= 2 => k = 1 \/ k = 2
      BY <1>1, <1>7
  <2> QED BY <2>2, <2>3, <2>4, <2>5
<1> QED BY <1>4, <1>5, <1>6, <1>7 DEF Deep

\* The calls that have drawn an id.
Drawing == {"embed", "merge", "update"}

\* A node the store has, or that a reversal would bring back.
Taken(n) == Stored(n) \/ \E y \in Nodes : n \in undo[y].sources

Formed(r) ==
    /\ r = [f \in Fields |-> r[f]] /\ r.nodes \subseteq Nodes
    /\ r.op = "evict" => r.into \in Nodes

\* The id a merge has drawn is nobody else's until it writes it.
Reserved(c) ==
    call[c].op \in {"embed", "merge"} =>
        /\ call[c].into \in Nodes /\ ~Taken(call[c].into)
        /\ \A d \in Calls :
              /\ call[c].into \notin call[d].nodes
              /\ d # c /\ call[d].op \in Drawing => call[d].into # call[c].into

\* A payload that is too deep is being cleared, or the merge that buried it has still to
\* look.
DeepIsDue ==
    \A s \in Nodes : \A m \in TooDeep(s) :
        \E c \in Calls : \/ call[c].op = "clear" /\ m \in call[c].nodes
                         \/ call[c].op = "evict" /\ call[c].into = s

UndoInv ==
    /\ DOMAIN status = Nodes /\ Payloads(undo) /\ Founded(undo)
    /\ DOMAIN call = Calls /\ \A c \in Calls : Formed(call[c]) /\ Reserved(c)
    /\ DeepIsDue

\* What a step may take: nodes of its call, and the id it drew.
LEMMA UndoKept ==
    ASSUME UndoInv, NEW c \in Calls, NEW r, Becomes(c, r), Formed(r),
           DOMAIN status' = Nodes, Payloads(undo'), Founded(undo'), DeepIsDue',
           \A n \in Nodes : status'[n] # "absent" =>
               Stored(n) \/ n \in call[c].nodes \/ (call[c].op \in {"merge", "update"} /\ n = call[c].into),
           \A y \in Nodes : \A n \in undo'[y].sources : n \in call[c].nodes \/ Taken(n),
           \A n \in r.nodes : n \in call[c].nodes \/ Taken(n),
           r.op \in Drawing =>
               Unused(r.into) \/ (r.op = "merge" /\ call[c].op = "embed" /\ r.into = call[c].into)
    PROVE  UndoInv'
<1>1. DOMAIN call' = Calls /\ call'[c] = r /\ \A d \in Calls \ {c} : call'[d] = call[d]
    BY DEF Becomes, UndoInv
<1>2. \A d \in Calls : Formed(call'[d])
    BY <1>1 DEF UndoInv
<1>3. ASSUME NEW d \in Calls, call'[d].op \in {"embed", "merge"}
      PROVE  /\ call'[d].into \in Nodes /\ ~Taken(call'[d].into)
             /\ \A e \in Calls :
                   /\ call'[d].into \notin call[e].nodes
                   /\ e # d /\ call[e].op \in Drawing => call[e].into # call'[d].into
             /\ call[c].op \in {"merge", "update"} => call'[d].into # call[c].into
             /\ d # c /\ r.op \in Drawing => r.into # call'[d].into
  <2>1. CASE d # c
    <3>1. call'[d] = call[d] /\ Reserved(d)
        BY <1>1, <2>1 DEF UndoInv
    <3>2. Unused(r.into) => r.into # call[d].into
        BY DEF Unused
    <3> QED BY <1>3, <2>1, <3>1, <3>2 DEF Reserved, Drawing
  <2>2. CASE d = c /\ Unused(r.into)
      BY <1>1, <2>2 DEF Unused, Taken, Nodes
  <2>3. CASE d = c /\ r.op = "merge" /\ call[c].op = "embed" /\ r.into = call[c].into
    <3>1. Reserved(c)
        BY DEF UndoInv
    <3> QED BY <1>1, <2>3, <3>1 DEF Reserved
  <2> QED BY <1>1, <1>3, <2>1, <2>2, <2>3 DEF Drawing
<1>4. ASSUME NEW d \in Calls, call'[d].op \in {"embed", "merge"}
      PROVE  /\ status'[call'[d].into] = "absent"
             /\ \A y \in Nodes : call'[d].into \notin undo'[y].sources
  <2>1. /\ call'[d].into \in Nodes /\ ~Taken(call'[d].into) /\ call'[d].into \notin call[c].nodes
        /\ call[c].op \in {"merge", "update"} => call'[d].into # call[c].into
      BY <1>3, <1>4
  <2>2. status'[call'[d].into] = "absent"
      BY <2>1 DEF Taken
  <2>3. \A y \in Nodes : call'[d].into \notin undo'[y].sources
      BY <2>1
  <2> QED BY <2>2, <2>3
<1>5. ASSUME NEW d \in Calls, call'[d].op \in {"embed", "merge"}, NEW e \in Calls
      PROVE  /\ call'[d].into \notin call'[e].nodes
             /\ e # d /\ call'[e].op \in Drawing => call'[e].into # call'[d].into
  <2>1. CASE e # c
      BY <1>1, <1>3, <1>5, <2>1
  <2>2. CASE e = c
      BY <1>1, <1>3, <1>5, <2>2
  <2> QED BY <2>1, <2>2
<1>6. \A d \in Calls : Reserved(d)'
    BY <1>3, <1>4, <1>5 DEF Reserved, Taken, Stored
<1> QED BY <1>1, <1>2, <1>6 DEF UndoInv

\* A step that clears no payload and makes none, of a call that is not to.
LEMMA DueStays ==
    ASSUME UndoInv, UNCHANGED undo, NEW c \in Calls, NEW r, Becomes(c, r),
           call[c].op \notin {"evict", "clear"}
    PROVE  DeepIsDue'
<1>1. \A d \in Calls \ {c} : call'[d] = call[d]
    BY DEF Becomes, UndoInv
<1>2. \A s \in Nodes : TooDeep(s)' = TooDeep(s)
    BY DEF TooDeep, Within, Ancestors
<1> QED BY <1>1, <1>2 DEF DeepIsDue, UndoInv

\* A payload cleared buries nothing.
LEMMA DueShrinks ==
    ASSUME UndoInv, IsFiniteSet(Nodes), UndoDepth <= 2 \/ \A s \in Nodes : LevelsApart(undo, s),
           NEW n, undo' = [undo EXCEPT ![n] = NoUndo]
    PROVE  /\ Payloads(undo') /\ Founded(undo')
           /\ \A y \in Nodes : undo'[y].sources \subseteq undo[y].sources
           /\ \A s \in Nodes : TooDeep(s)' \subseteq TooDeep(s) \ {n}
<1>1. NoUndo.sources = {}
    BY DEF NoUndo
<1>2. Payloads(undo)
    BY DEF UndoInv
<1>3. DOMAIN undo' = Nodes /\ \A x \in Nodes : undo'[x] = IF x = n THEN NoUndo ELSE undo[x]
    BY <1>2 DEF Payloads
<1>4. \A y \in Nodes : undo'[y].sources \subseteq undo[y].sources
    BY <1>1, <1>3
<1>5. Payloads(undo')
    BY <1>2, <1>3, <1>4 DEF Payloads
<1>6. Founded(undo')
  <2> SUFFICES ASSUME NEW C \in SUBSET Nodes, C # {}
               PROVE  \E x \in C : \A y \in C : x \notin undo'[y].sources
      BY DEF Founded
  <2>1. PICK x \in C : \A y \in C : x \notin undo[y].sources
      BY DEF UndoInv, Founded
  <2> QED BY <1>4, <2>1
<1>7. ASSUME NEW s \in Nodes, NEW m \in TooDeep(s)'
      PROVE  m \in TooDeep(s) /\ m # n
  <2>1. Deep(undo', s, m)
      BY <1>7, TooDeepIs
  <2>2. m \in Nodes /\ undo'[m] # NoUndo
      BY <2>1 DEF Deep
  <2>3. \A x \in Nodes : undo'[x] = undo[x] \/ undo'[x] = NoUndo
      BY <1>3
  <2>4. Deep(undo, s, m)
      BY <1>2, <1>5, <2>1, <2>3, DeepShrinks
  <2> QED BY <1>3, <2>2, <2>4, TooDeepIs
<1> QED BY <1>4, <1>5, <1>6, <1>7

LEMMA CallIs ==
    ASSUME UndoInv, NEW c \in Calls
    PROVE  /\ DOMAIN call = Calls /\ call[c] = [f \in Fields |-> call[c][f]]
           /\ call[c].nodes \subseteq Nodes /\ Reserved(c)
           /\ call[c].op = "evict" => call[c].into \in Nodes
BY DEF UndoInv, Formed

\* A step that writes no node and no payload.
LEMMA UnwrittenUndo ==
    ASSUME UndoInv, UNCHANGED <<status, undo>>, NEW c \in Calls, NEW r, Becomes(c, r), Formed(r),
           call[c].op \notin {"evict", "clear"},
           \A n \in r.nodes : n \in call[c].nodes \/ Taken(n),
           r.op \in Drawing =>
               Unused(r.into) \/ (r.op = "merge" /\ call[c].op = "embed" /\ r.into = call[c].into)
    PROVE  UndoInv'
<1>1. DOMAIN status' = Nodes /\ Payloads(undo') /\ Founded(undo')
    BY DEF UndoInv
<1>2. DeepIsDue'
    BY DueStays
<1>3. \A n \in Nodes : status'[n] # "absent" => Stored(n)
    BY DEF Stored
<1>4. \A y \in Nodes : \A n \in undo'[y].sources : Taken(n)
    BY DEF Taken
<1> QED BY <1>1, <1>2, <1>3, <1>4, UndoKept

LEMMA PlanUndo ==
    ASSUME UndoInv, NEW c \in Calls, NEW r, Plan(c, r), Formed(r),
           \A n \in r.nodes : Taken(n), r.op \in Drawing => Unused(r.into)
    PROVE  UndoInv'
<1>1. Becomes(c, r) /\ UNCHANGED <<status, undo>> /\ call[c].op = "none"
    BY DEF Plan, Becomes, graph
<1>2. call[c].op \notin {"evict", "clear"}
    BY <1>1
<1> QED BY <1>1, <1>2, UnwrittenUndo

LEMMA NothingFormed == Formed(NoCall) /\ NoCall.nodes = {} /\ NoCall.op \notin Drawing
BY NoCallIs DEF Formed, Drawing

\* The last step of a call that touches no payload.
LEMMA EndUndo ==
    ASSUME UndoInv, UNCHANGED undo, NEW c \in Calls, Done(c), DOMAIN status' = Nodes,
           call[c].op \notin {"evict", "clear"},
           \A n \in Nodes : status'[n] # "absent" =>
               Stored(n) \/ n \in call[c].nodes \/ (call[c].op \in {"merge", "update"} /\ n = call[c].into)
    PROVE  UndoInv'
<1>1. Becomes(c, NoCall)
    BY DEF Done, Becomes
<1>2. Payloads(undo') /\ Founded(undo')
    BY DEF UndoInv
<1>3. DeepIsDue'
    BY <1>1, DueStays
<1>4. \A y \in Nodes : \A n \in undo'[y].sources : Taken(n)
    BY DEF Taken
<1> QED BY <1>1, <1>2, <1>3, <1>4, NothingFormed, UndoKept

LEMMA BeginUndo ==
    ASSUME UndoInv, NEW c \in Calls, Begin(c)
    PROVE  UndoInv'
<1>1. ASSUME NEW S \in SUBSET Nodes, NEW n \in Fresh, GateMerge(c, S, n) PROVE UndoInv'
  <2> DEFINE r == [NoCall EXCEPT !.op = "embed", !.nodes = S, !.into = n]
  <2>1. Plan(c, r) /\ Unused(n) /\ \A x \in S : Active(x)
      BY <1>1 DEF GateMerge
  <2>2. /\ r = [f \in Fields |-> r[f]] /\ r.op = "embed" /\ r.nodes = S /\ r.into = n
      BY NoCallIs DEF Fields
  <2> HIDE DEF r
  <2>3. \A x \in S : Taken(x)
      BY <2>1 DEF Taken, Active, Stored
  <2> QED BY <2>1, <2>2, <2>3, PlanUndo DEF Formed
<1>2. ASSUME NEW x \in Nodes, NEW y \in Nodes, NEW b, NEW op \in {"update", "supersede"},
             op = "update" => Unused(y), PlanSupersession(c, op, x, y, b)
      PROVE  UndoInv'
  <2> DEFINE r == [NoCall EXCEPT !.op = op, !.nodes = {x}, !.into = y, !.because = b,
                      !.puts = {Edge(x, y, Lineage(b))}
                               \cup {Edge(x, i, "evidence_superseded") : i \in Dependents(x)},
                      !.drops = {e \in edges : e.dst = x /\ e.type = "supersession_candidate"}]
  <2>1. Plan(c, r) /\ Stored(x)
      BY <1>2 DEF PlanSupersession, MayName
  <2>2. /\ r = [f \in Fields |-> r[f]] /\ r.op = op /\ r.nodes = {x} /\ r.into = y
      BY NoCallIs DEF Fields
  <2> HIDE DEF r
  <2>3. Formed(r) /\ \A n \in r.nodes : Taken(n)
      BY <1>2, <2>1, <2>2 DEF Taken, Formed
  <2>4. r.op \in Drawing => Unused(r.into)
      BY <1>2, <2>2 DEF Drawing
  <2> QED BY <2>1, <2>3, <2>4, PlanUndo
<1>3. ASSUME NEW x \in Nodes, PlanReverse(c, x) PROVE UndoInv'
  <2> DEFINE r == [NoCall EXCEPT !.op = "restore", !.nodes = undo[x].sources, !.into = x,
                      !.puts = undo[x].edges]
  <2>1. Plan(c, r)
      BY <1>3 DEF PlanReverse
  <2>2. /\ r = [f \in Fields |-> r[f]] /\ r.op = "restore" /\ r.nodes = undo[x].sources
      BY NoCallIs DEF Fields
  <2> HIDE DEF r
  <2>3. undo[x].sources \subseteq Nodes /\ \A n \in undo[x].sources : Taken(n)
      BY DEF UndoInv, Payloads, Taken
  <2>4. Formed(r) /\ r.op \notin Drawing
      BY <2>2, <2>3 DEF Formed, Drawing
  <2> QED BY <2>1, <2>2, <2>3, <2>4, PlanUndo
<1>4. ASSUME NEW x \in Nodes, NEW b, NEW puts, Stored(x),
             Plan(c, [NoCall EXCEPT !.op = "status", !.nodes = {x}, !.because = b, !.puts = puts])
      PROVE  UndoInv'
  <2> DEFINE r == [NoCall EXCEPT !.op = "status", !.nodes = {x}, !.because = b, !.puts = puts]
  <2>1. Plan(c, r)
      BY <1>4
  <2>2. /\ r = [f \in Fields |-> r[f]] /\ r.op = "status" /\ r.nodes = {x}
      BY NoCallIs DEF Fields
  <2> HIDE DEF r
  <2>3. Formed(r) /\ r.op \notin Drawing /\ \A n \in r.nodes : Taken(n)
      BY <1>4, <2>2 DEF Formed, Drawing, Taken
  <2> QED BY <2>1, <2>3, PlanUndo
<1>5. ASSUME NEW x \in Nodes, PlanArchive(c, x) PROVE UndoInv'
  <2>1. /\ Plan(c, [NoCall EXCEPT !.op = "status", !.nodes = {x}, !.because = "archived"])
        /\ Stored(x)
      BY <1>5 DEF PlanArchive, Active, Stored
  <2>2. [NoCall EXCEPT !.op = "status", !.nodes = {x}, !.because = "archived"] =
        [NoCall EXCEPT !.op = "status", !.nodes = {x}, !.because = "archived", !.puts = {}]
      BY NoCallIs DEF Fields, NoCall
  <2>3. Plan(c, [NoCall EXCEPT !.op = "status", !.nodes = {x}, !.because = "archived", !.puts = {}])
      BY <2>1, <2>2
  <2> QED BY <1>4, <2>1, <2>3
<1>6. ASSUME NEW x \in Nodes, PlanRestore(c, x) PROVE UndoInv'
  <2>1. PICK source \in {{}, {Edge(x, Document, "sourced_from")}} :
                      /\ status[x] \in {"archived", "historical"}
                      /\ Plan(c, [NoCall EXCEPT !.op = "status", !.nodes = {x}, !.because = "active",
                                     !.puts = source])
      BY <1>6 DEF PlanRestore
  <2>2. Stored(x)
      BY <2>1 DEF Stored
  <2> QED BY <1>4, <2>1, <2>2
<1>7. ASSUME NEW e \in Links, PlanLink(c, e) PROVE UndoInv'
  <2> DEFINE r == [NoCall EXCEPT !.op = "link", !.puts = {e}]
  <2>1. Plan(c, r)
      BY <1>7 DEF PlanLink
  <2>2. /\ r = [f \in Fields |-> r[f]] /\ r.op = "link" /\ r.nodes = {}
      BY NoCallIs DEF Fields
  <2> HIDE DEF r
  <2>3. Formed(r) /\ r.op \notin Drawing
      BY <2>2 DEF Formed, Drawing
  <2> QED BY <2>1, <2>2, <2>3, PlanUndo
<1>8. ASSUME NEW x \in Nodes, NEW b, NEW n \in Fresh, PlanUpdate(c, x, n, b) PROVE UndoInv'
  <2>1. n \in Nodes
      BY DEF Nodes
  <2> QED BY <1>2, <1>8, <2>1 DEF PlanUpdate
<1>9. ASSUME NEW x \in Nodes, NEW b, NEW y \in Nodes, PlanSupersedeBy(c, x, y, b) PROVE UndoInv'
    BY <1>2, <1>9 DEF PlanSupersedeBy
<1> QED BY <1>1, <1>3, <1>5, <1>6, <1>7, <1>8, <1>9 DEF Begin

LEMMA CaptureMergeUndo ==
    ASSUME UndoInv, NEW c \in Calls, CaptureMerge(c)
    PROVE  UndoInv'
<1> PICK r : r = call'[c]
    OBVIOUS
<1>1. /\ Becomes(c, r) /\ r = [f \in Fields |-> r[f]] /\ r.op = "merge"
      /\ r.nodes = call[c].nodes /\ r.into = call[c].into
  <2>1. DOMAIN call = Calls /\ call[c] = [f \in Fields |-> call[c][f]]
      BY CallIs
  <2>2. Becomes(c, r)
      BY <2>1 DEF CaptureMerge, Becomes
  <2> QED BY <2>1, <2>2 DEF CaptureMerge, Fields
<1>2. call[c].op = "embed" /\ UNCHANGED <<status, undo>>
    BY DEF CaptureMerge, graph
<1>3. Formed(r)
    BY <1>1, CallIs DEF Formed
<1> QED BY <1>1, <1>2, <1>3, UnwrittenUndo

\* The new payload lies behind no survivor but the new one, whose evict is still to come.
LEMMA CommitMergeUndo ==
    ASSUME UndoInv, IsFiniteSet(Nodes), NEW c \in Calls, CommitMerge(c)
    PROVE  UndoInv'
<1> PICK r, S, n, p : /\ r = call'[c] /\ S = call[c].nodes /\ n = call[c].into
                      /\ p = [sources |-> S, edges |-> call[c].undo]
    OBVIOUS
<1>1. /\ Becomes(c, r) /\ r = [f \in Fields |-> r[f]] /\ r.op = "evict" /\ r.nodes = S /\ r.into = n
  <2>1. DOMAIN call = Calls /\ call[c] = [f \in Fields |-> call[c][f]]
      BY CallIs
  <2>2. Becomes(c, r)
      BY <2>1 DEF CommitMerge, Becomes
  <2> QED BY <2>1, <2>2 DEF CommitMerge, Fields
<1>2. /\ call[c].op = "merge"
      /\ status' = [x \in Nodes |-> IF x \in S THEN "merged" ELSE IF x = n THEN "active" ELSE status[x]]
      /\ undo' = [undo EXCEPT ![n] = p]
    BY DEF CommitMerge
<1>3. n \in Nodes /\ ~Taken(n) /\ n \notin S /\ S \subseteq Nodes
    BY <1>2, CallIs DEF Reserved
<1>4. Formed(r)
    BY <1>1, <1>3 DEF Formed
<1>5. Payloads(undo)
    BY DEF UndoInv
<1>6. DOMAIN undo' = Nodes /\ undo'[n] = p /\ \A x \in Nodes : x # n => undo'[x] = undo[x]
    BY <1>2, <1>3, <1>5 DEF Payloads
<1>7. p.sources = S
    OBVIOUS
<1>8. \A y \in Nodes : n \notin undo[y].sources /\ n \notin undo'[y].sources
    BY <1>3, <1>6, <1>7 DEF Taken
<1>9. Payloads(undo')
    BY <1>3, <1>5, <1>6, <1>7 DEF Payloads
<1>10. Founded(undo')
  <2> SUFFICES ASSUME NEW C \in SUBSET Nodes, C # {}
               PROVE  \E x \in C : \A y \in C : x \notin undo'[y].sources
      BY DEF Founded
  <2>1. CASE n \in C
      BY <1>8, <2>1
  <2>2. CASE n \notin C
    <3>1. PICK x \in C : \A y \in C : x \notin undo[y].sources
        BY DEF UndoInv, Founded
    <3> QED BY <1>6, <2>2, <3>1
  <2> QED BY <2>1, <2>2
<1>11. DeepIsDue'
  <2> SUFFICES ASSUME NEW s \in Nodes, NEW m \in TooDeep(s)'
               PROVE  \E d \in Calls : \/ call'[d].op = "clear" /\ m \in call'[d].nodes
                                       \/ call'[d].op = "evict" /\ call'[d].into = s
      BY DEF DeepIsDue
  <2>1. CASE s = n
    <3>1. call'[c] = r
        OBVIOUS
    <3> QED BY <1>1, <2>1, <3>1
  <2>2. CASE s # n
    <3>1. Deep(undo', s, m)
        BY TooDeepIs
    <3>2. \A l \in Nat \ {0} : Levels(undo', s)[l] = Levels(undo, s)[l]
        BY <1>3, <1>5, <1>6, <1>8, <1>9, <2>2, LevelsElsewhere
    <3>3. UndoDepth \in Nat \ {0}
        OBVIOUS
    <3>4. PICK l \in Nat \ {0} : l > UndoDepth /\ l <= Cardinality(Nodes) /\ m \in Levels(undo, s)[l]
        BY <3>1, <3>2, <3>3 DEF Deep
    <3>5. m # n
      <4>1. l >= 2
          BY <3>3, <3>4
      <4> QED BY <1>5, <1>8, <3>4, <4>1, BehindIsSource
    <3>6. m \in Nodes /\ undo[m] # NoUndo
        BY <1>6, <3>1, <3>5 DEF Deep
    <3>7. \A k \in Nat : 1 <= k /\ k <= UndoDepth /\ k <= Cardinality(Nodes) => m \notin Levels(undo, s)[k]
        BY <3>1, <3>2 DEF Deep
    <3>8. m \in TooDeep(s)
        BY <3>4, <3>6, <3>7, TooDeepIs DEF Deep
    <3>9. PICK d \in Calls : \/ call[d].op = "clear" /\ m \in call[d].nodes
                             \/ call[d].op = "evict" /\ call[d].into = s
        BY <3>8 DEF UndoInv, DeepIsDue
    <3>10. d # c
        BY <1>2, <3>9
    <3>11. call'[d] = call[d]
        BY <1>1, <3>10, CallIs DEF Becomes
    <3> QED BY <3>9, <3>11
  <2> QED BY <2>1, <2>2
<1>12. \A x \in Nodes : status'[x] # "absent" => Stored(x) \/ x \in call[c].nodes \/ x = call[c].into
    BY <1>2 DEF Stored
<1>13. \A y \in Nodes : \A x \in undo'[y].sources : x \in call[c].nodes \/ Taken(x)
    BY <1>6, <1>7 DEF Taken
<1> QED BY <1>1, <1>2, <1>4, <1>9, <1>10, <1>11, <1>12, <1>13, UndoKept DEF Drawing

LEMMA EvictUndo ==
    ASSUME UndoInv, IsFiniteSet(Nodes), NEW c \in Calls, Evict(c)
    PROVE  UndoInv'
<1> PICK deep, r : deep = TooDeep(call[c].into) /\ r = call'[c]
    OBVIOUS
<1>1. call[c].op = "evict" /\ UNCHANGED <<status, undo>> /\ call[c].into \in Nodes
    BY CallIs DEF Evict, graph
<1>2. \A s \in Nodes : TooDeep(s)' = TooDeep(s)
    BY <1>1 DEF TooDeep, Within, Ancestors
<1>3. \A m \in deep : m \in Nodes /\ Taken(m)
  <2> SUFFICES ASSUME NEW m \in deep
               PROVE  m \in Nodes /\ Taken(m)
      OBVIOUS
  <2>1. Deep(undo, call[c].into, m)
      BY TooDeepIs
  <2>2. UndoDepth \in Nat \ {0}
      OBVIOUS
  <2>3. PICK l \in Nat : l >= 2 /\ m \in Levels(undo, call[c].into)[l]
      BY <2>1, <2>2 DEF Deep
  <2> QED BY <1>1, <2>3, BehindIsSource DEF UndoInv, Taken
<1>4. /\ Becomes(c, r) /\ Formed(r) /\ r.op \notin Drawing
      /\ \/ deep = {} /\ r.nodes = {}
         \/ r.op = "clear" /\ r.nodes = deep
  <2>1. CASE deep = {}
    <3>1. Becomes(c, NoCall) /\ r = NoCall
        BY <2>1, CallIs DEF Evict, Done, Becomes
    <3> QED BY <2>1, <3>1, NothingFormed
  <2>2. CASE deep # {}
    <3> PICK W : W = [n \in deep |-> [status |-> status[n], lifecycle |-> lifecycle[n]]]
        OBVIOUS
    <3>1. call' = [call EXCEPT ![c].op = "clear", ![c].nodes = deep, ![c].was = W]
        BY <2>2 DEF Evict
    <3>2. Becomes(c, r) /\ r = [f \in Fields |-> r[f]] /\ r.op = "clear" /\ r.nodes = deep
      <4>1. DOMAIN call = Calls /\ call[c] = [f \in Fields |-> call[c][f]]
          BY CallIs
      <4>2. Becomes(c, r)
          BY <3>1, <4>1 DEF Becomes
      <4> QED BY <3>1, <4>1, <4>2 DEF Fields
    <3> QED BY <1>3, <3>2 DEF Formed, Drawing
  <2> QED BY <2>1, <2>2
<1>5. DeepIsDue'
  <2> SUFFICES ASSUME NEW s \in Nodes, NEW m \in TooDeep(s)
               PROVE  \E d \in Calls : \/ call'[d].op = "clear" /\ m \in call'[d].nodes
                                       \/ call'[d].op = "evict" /\ call'[d].into = s
      BY <1>2 DEF DeepIsDue
  <2>1. \A d \in Calls \ {c} : call'[d] = call[d]
      BY <1>4, CallIs DEF Becomes
  <2>2. PICK d \in Calls : \/ call[d].op = "clear" /\ m \in call[d].nodes
                           \/ call[d].op = "evict" /\ call[d].into = s
      BY DEF UndoInv, DeepIsDue
  <2>3. CASE d # c
      BY <2>1, <2>2, <2>3
  <2>4. CASE d = c
    <3>1. m \in deep
        BY <1>1, <2>2, <2>4
    <3>2. call'[c].op = "clear" /\ m \in call'[c].nodes
        BY <1>4, <3>1
    <3> QED BY <3>2
  <2> QED BY <2>3, <2>4
<1>6. /\ DOMAIN status' = Nodes /\ Payloads(undo') /\ Founded(undo')
      /\ \A n \in Nodes : status'[n] # "absent" => Stored(n)
      /\ \A y \in Nodes : \A n \in undo'[y].sources : Taken(n)
      /\ \A n \in r.nodes : Taken(n)
    BY <1>1, <1>3, <1>4 DEF UndoInv, Stored, Taken
<1> QED BY <1>4, <1>5, <1>6, UndoKept

\* A cleared payload is gone from what is due and from what is too deep.
LEMMA ClearUndoUndo ==
    ASSUME UndoInv, IsFiniteSet(Nodes), UndoDepth <= 2 \/ \A s \in Nodes : LevelsApart(undo, s),
           NEW c \in Calls, ClearUndo(c)
    PROVE  UndoInv'
<1> PICK n \in call[c].nodes :
        /\ call[c].op = "clear"
        /\ status' = [status EXCEPT ![n] = call[c].was[n].status]
        /\ undo' = [undo EXCEPT ![n] = NoUndo]
        /\ IF call[c].nodes = {n} THEN Done(c)
           ELSE call' = [call EXCEPT ![c].nodes = @ \ {n}]
    BY DEF ClearUndo
<1> PICK r : r = call'[c]
    OBVIOUS
<1>1. /\ Becomes(c, r) /\ Formed(r) /\ r.op \notin Drawing
      /\ \/ call[c].nodes = {n} /\ r.nodes = {}
         \/ r.op = "clear" /\ r.nodes = call[c].nodes \ {n}
  <2>1. CASE call[c].nodes = {n}
    <3>1. Becomes(c, NoCall) /\ r = NoCall
        BY <2>1, CallIs DEF Done, Becomes
    <3> QED BY <2>1, <3>1, NothingFormed
  <2>2. CASE call[c].nodes # {n}
    <3>1. /\ Becomes(c, r) /\ r = [f \in Fields |-> r[f]] /\ r.op = "clear"
          /\ r.nodes = call[c].nodes \ {n}
      <4>1. DOMAIN call = Calls /\ call[c] = [f \in Fields |-> call[c][f]]
          BY CallIs
      <4>2. Becomes(c, r)
          BY <2>2, <4>1 DEF Becomes
      <4> QED BY <2>2, <4>1, <4>2 DEF Fields
    <3> QED BY <3>1, CallIs DEF Formed, Drawing
  <2> QED BY <2>1, <2>2
<1>2. /\ Payloads(undo') /\ Founded(undo')
      /\ \A y \in Nodes : undo'[y].sources \subseteq undo[y].sources
      /\ \A s \in Nodes : TooDeep(s)' \subseteq TooDeep(s) \ {n}
    BY DueShrinks
<1>3. DeepIsDue'
  <2> SUFFICES ASSUME NEW s \in Nodes, NEW m \in TooDeep(s)'
               PROVE  \E d \in Calls : \/ call'[d].op = "clear" /\ m \in call'[d].nodes
                                       \/ call'[d].op = "evict" /\ call'[d].into = s
      BY DEF DeepIsDue
  <2>1. m \in TooDeep(s) /\ m # n
      BY <1>2
  <2>2. \A d \in Calls \ {c} : call'[d] = call[d]
      BY <1>1, CallIs DEF Becomes
  <2>3. PICK d \in Calls : \/ call[d].op = "clear" /\ m \in call[d].nodes
                           \/ call[d].op = "evict" /\ call[d].into = s
      BY <2>1 DEF UndoInv, DeepIsDue
  <2>4. CASE d # c
      BY <2>2, <2>3, <2>4
  <2>5. CASE d = c
    <3>1. call'[c].op = "clear" /\ m \in call'[c].nodes
        BY <1>1, <2>1, <2>3, <2>5
    <3> QED BY <3>1
  <2> QED BY <2>4, <2>5
<1>4. DOMAIN status' = Nodes /\ \A x \in Nodes : status'[x] # "absent" => Stored(x) \/ x \in call[c].nodes
    BY DEF UndoInv, Stored
<1>5. \A y \in Nodes : \A x \in undo'[y].sources : Taken(x)
    BY <1>2 DEF Taken
<1> QED BY <1>1, <1>2, <1>3, <1>4, <1>5, UndoKept

LEMMA CommitReverseUndo ==
    ASSUME UndoInv, IsFiniteSet(Nodes), UndoDepth <= 2 \/ \A s \in Nodes : LevelsApart(undo, s),
           NEW c \in Calls, CommitReverse(c)
    PROVE  UndoInv'
<1> PICK S, s : S = call[c].nodes /\ s = call[c].into
    OBVIOUS
<1>1. /\ call[c].op = "reverse" /\ Becomes(c, NoCall)
      /\ status' = [x \in Nodes |-> IF x \in S THEN "active" ELSE IF x = s THEN "absent" ELSE status[x]]
      /\ undo' = [undo EXCEPT ![s] = NoUndo]
    BY DEF CommitReverse, Done, Becomes
<1>2. /\ Payloads(undo') /\ Founded(undo')
      /\ \A y \in Nodes : undo'[y].sources \subseteq undo[y].sources
      /\ \A t \in Nodes : TooDeep(t)' \subseteq TooDeep(t)
    BY <1>1, DueShrinks
<1>3. DeepIsDue'
  <2>1. \A d \in Calls \ {c} : call'[d] = call[d]
      BY <1>1, CallIs DEF Becomes
  <2> QED BY <1>1, <1>2, <2>1 DEF UndoInv, DeepIsDue
<1>4. DOMAIN status' = Nodes /\ \A x \in Nodes : status'[x] # "absent" => Stored(x) \/ x \in call[c].nodes
    BY <1>1 DEF Stored
<1>5. \A y \in Nodes : \A x \in undo'[y].sources : Taken(x)
    BY <1>2 DEF Taken
<1> QED BY <1>1, <1>2, <1>3, <1>4, <1>5, NothingFormed, UndoKept

LEMMA WriteUndo ==
    ASSUME UndoInv, IsFiniteSet(Nodes), UndoDepth <= 2 \/ \A s \in Nodes : LevelsApart(undo, s),
           NEW c \in Calls, Write(c)
    PROVE  UndoInv'
<1>1. CASE CaptureMerge(c)
    BY <1>1, CaptureMergeUndo
<1>2. CASE CommitMerge(c)
    BY <1>2, CommitMergeUndo
<1>3. CASE Evict(c)
    BY <1>3, EvictUndo
<1>4. CASE ClearUndo(c)
    BY <1>4, ClearUndoUndo
<1>5. CASE CommitReverse(c)
    BY <1>5, CommitReverseUndo
<1>6. CASE PlanDrops(c)
  <2> PICK r : r = call'[c]
      OBVIOUS
  <2>1. DOMAIN call = Calls /\ call[c] = [f \in Fields |-> call[c][f]]
      BY CallIs
  <2>2. Becomes(c, r) /\ call[c].op = "restore" /\ UNCHANGED <<status, undo>>
      BY <1>6, <2>1 DEF PlanDrops, Becomes, graph
  <2>3. r = [f \in Fields |-> r[f]] /\ r.op = "reverse" /\ r.nodes = call[c].nodes
      BY <1>6, <2>1 DEF PlanDrops, Fields
  <2>4. Formed(r) /\ r.op \notin Drawing /\ call[c].op \notin {"evict", "clear"}
      BY <2>2, <2>3, CallIs DEF Formed, Drawing
  <2> QED BY <2>2, <2>3, <2>4, UnwrittenUndo
<1>7. CASE CommitSupersession(c)
  <2>1. /\ UNCHANGED undo /\ Done(c) /\ call[c].op \in {"update", "supersede"}
        /\ DOMAIN status' = Nodes
        /\ \A n \in Nodes : status'[n] # "absent" =>
              Stored(n) \/ n \in call[c].nodes \/ (call[c].op = "update" /\ n = call[c].into)
      BY <1>7 DEF CommitSupersession, Stored
  <2> QED BY <2>1, EndUndo
<1>8. CASE CommitStatus(c)
  <2>1. /\ UNCHANGED undo /\ Done(c) /\ call[c].op = "status" /\ DOMAIN status' = Nodes
        /\ \A n \in Nodes : status'[n] # "absent" => Stored(n) \/ n \in call[c].nodes
      BY <1>8 DEF CommitStatus, Stored
  <2> QED BY <2>1, EndUndo
<1>9. CASE CommitLink(c) \/ Abort(c)
  <2>1. UNCHANGED <<status, undo>> /\ Done(c) /\ call[c].op \notin {"evict", "clear"}
      BY <1>9 DEF CommitLink, Abort, graph
  <2>2. DOMAIN status' = Nodes /\ \A n \in Nodes : status'[n] # "absent" => Stored(n)
      BY <2>1 DEF UndoInv, Stored
  <2> QED BY <2>1, <2>2, EndUndo
<1> QED BY <1>1, <1>2, <1>3, <1>4, <1>5, <1>6, <1>7, <1>8, <1>9 DEF Write

LEMMA NextUndo ==
    ASSUME UndoInv, IsFiniteSet(Nodes), UndoDepth <= 2 \/ \A s \in Nodes : LevelsApart(undo, s),
           [Next]_vars
    PROVE  UndoInv'
<1>1. CASE Next
    BY <1>1, BeginUndo, WriteUndo DEF Next
<1>2. CASE UNCHANGED vars
  <2>1. UNCHANGED <<status, undo, call>>
      BY <1>2 DEF vars, graph
  <2>2. \A s \in Nodes : TooDeep(s)' = TooDeep(s)
      BY <2>1 DEF TooDeep, Within, Ancestors
  <2>3. DeepIsDue'
      BY <2>1, <2>2 DEF UndoInv, DeepIsDue
  <2>4. \A c \in Calls : Formed(call'[c]) /\ Reserved(c)'
      BY <2>1 DEF UndoInv, Reserved, Taken, Stored
  <2> QED BY <2>1, <2>3, <2>4 DEF UndoInv
<1> QED BY <1>1, <1>2

LEMMA InitUndo == IsFiniteSet(Nodes) /\ Init => UndoInv
<1> SUFFICES ASSUME IsFiniteSet(Nodes), Init PROVE UndoInv
    OBVIOUS
<1>1. NoUndo.sources = {}
    BY DEF NoUndo
<1>2. DOMAIN status = Nodes /\ DOMAIN undo = Nodes /\ DOMAIN call = Calls
      /\ (\A n \in Nodes : undo[n] = NoUndo) /\ (\A c \in Calls : call[c] = NoCall)
    BY DEF Init
<1>3. Payloads(undo) /\ Founded(undo)
    BY <1>1, <1>2 DEF Payloads, Founded
<1>4. \A c \in Calls : Formed(call[c]) /\ Reserved(c)
  <2>1. NoCall.op = "none"
      BY NoCallIs
  <2> QED BY <1>2, <2>1, NothingFormed DEF Reserved
<1>5. \A s \in Nodes : TooDeep(s) = {}
    BY <1>2 DEF TooDeep
<1> QED BY <1>2, <1>3, <1>4, <1>5 DEF UndoInv, DeepIsDue

LEMMA InvIsBounded == UndoInv => UndoIsBounded
BY DEF UndoInv, DeepIsDue, UndoIsBounded, TooDeep

\* However many calls run at once, and whatever has become of the nodes they name: once
\* every merge has evicted, no payload lies more than merge_undo_depth merges behind a
\* survivor.  With calls at once two merges may retire one node, which then lies at two
\* levels; a depth of up to two cannot tell.
THEOREM UndoStaysBoundedTogether ==
    IsFiniteSet(Nodes) /\ UndoDepth <= 2 => (Spec => []UndoIsBounded)
<1> SUFFICES ASSUME IsFiniteSet(Nodes), UndoDepth <= 2 PROVE Spec => []UndoIsBounded
    OBVIOUS
<1>1. UndoInv /\ [Next]_vars => UndoInv'
    BY NextUndo
<1>2. Init => UndoInv
    BY InitUndo
<1> QED BY <1>1, <1>2, InvIsBounded, PTL DEF Spec

\* In a session that makes one call at a time, of callers that name active nodes, the same
\* holds whatever merge_undo_depth is: a node lies at one level behind a survivor, since
\* one payload at most would bring it back.
THEOREM UndoStaysBounded ==
    IsFiniteSet(Nodes) /\ OneAtATime /\ ~NamesRetired => (Spec => []UndoIsBounded)
<1> SUFFICES ASSUME IsFiniteSet(Nodes), OneAtATime, ~NamesRetired PROVE Spec => []UndoIsBounded
    OBVIOUS
<1>1. LifecycleInv /\ [Next]_vars => LifecycleInv'
    BY NextInv
<1>2. LifecycleInv /\ UndoInv /\ [Next]_vars => UndoInv'
  <2> SUFFICES ASSUME LifecycleInv, UndoInv, [Next]_vars PROVE UndoInv'
      OBVIOUS
  <2>1. BroughtOnce(undo)
      BY DEF LifecycleInv, PayloadsAreSound, BroughtOnce
  <2>2. \A s \in Nodes : LevelsApart(undo, s)
      BY <2>1, LevelsStayApart DEF UndoInv
  <2> QED BY <2>2, NextUndo
<1>3. Init => UndoInv
    BY InitUndo
<1> QED BY <1>1, <1>2, <1>3, InitInv, InvIsBounded, PTL DEF Spec

===============================================================================

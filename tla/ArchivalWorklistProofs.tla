------------------------ MODULE ArchivalWorklistProofs ------------------------
(***************************************************************************)
(* For any premises, leaves, callers, settings and number of rounds, and   *)
(* calls that interleave as they will: a reason no keep ever answered      *)
(* outranks every keep, a leaf put off comes back within the cap, and a    *)
(* withdrawn verdict holds nothing back.                                   *)
(***************************************************************************)
EXTENDS ArchivalWorklist, FiniteSetTheorems, SequenceTheorems, WellFoundedInduction, TLAPS

USE PremisesAssumption, CapAssumption, BoundsAssumption

Ops == {"none", "archive", "keep", "kept", "defer", "deferred", "reopen"}
Plans == [op : Ops, archive : SUBSET Nodes, keep : SUBSET Nodes, defer : SUBSET Leaves,
          covers : SUBSET Premises, round : Nat]

\* A row of the journal.
Entry == [kind : {"retention", "deferral", "reopened"}, node : Nodes, covers : SUBSET Premises,
          round : Nat]

WorklistTypes ==
    /\ status \in [Nodes -> {"absent", "active", "archived", "historical", "merged"}]
    /\ basis \subseteq Premises /\ flags \subseteq Labels \X Premises
    /\ noticed \subseteq Leaves /\ important \subseteq Leaves
    /\ settings \in Waits /\ round \in 0 .. MaxRound /\ stored \in BOOLEAN
    /\ rows \in Seq(Entry)
    /\ call \in [Callers -> Plans]
    /\ since \in [Leaves -> Nat]

\* What a row says was so once: what it covers was raised, and as many rounds are behind a
\* leaf's latest deferral as have been counted since.
RowFits(k) ==
    /\ rows[k].round <= round
    /\ rows[k].kind # "retention" => rows[k].covers = {}
    /\ rows[k].covers \subseteq raised
    /\ rows[k].kind = "deferral" =>
          rows[k].node \in Leaves /\ since[rows[k].node] <= round - rows[k].round

CallFits(c) == call[c].round <= round /\ call[c].covers \subseteq raised

WorklistInv ==
    /\ WorklistTypes
    /\ OutstandingReasons \subseteq raised
    /\ \A k \in DOMAIN rows : RowFits(k)
    /\ \A c \in Callers : CallFits(c)

-------------------------------------------------------------------------------
(* The journal.                                                              *)

\* The latest of some rows.
LEMMA MaxIs ==
    ASSUME NEW n \in Nat, NEW S \in SUBSET (1 .. n), S # {}
    PROVE  Max(S) \in S /\ \A k \in S : k <= Max(S)
<1> DEFINE T == {m \in Nat : n - m \in S}
           R == OpToRel(<, Nat)
<1>1. T \subseteq Nat /\ T # {}
  <2>1. PICK k \in S : TRUE
      OBVIOUS
  <2>2. k \in Int /\ n - k \in Nat /\ n - (n - k) = k
      BY <2>1
  <2> QED BY <2>2
<1>2. IsWellFoundedOn(R, Nat)
    BY NatLessThanWellFounded
<1>3. \A u, t \in Nat : u < t => <<u, t>> \in R
    BY DEF OpToRel
<1> HIDE DEF R, T
<1>4. PICK t \in T : \A u \in T : <<u, t>> \notin R
    BY <1>1, <1>2, WFMin
<1>5. \A u \in T : t <= u
  <2> SUFFICES ASSUME NEW u \in T PROVE t <= u
      OBVIOUS
  <2>1. u \in Nat /\ t \in Nat /\ ~(u < t)
      BY <1>1, <1>3, <1>4
  <2> QED BY <2>1
<1>6. n - t \in S /\ t \in Nat
    BY <1>4 DEF T
<1>7. \A j \in S : n - t >= j
  <2> SUFFICES ASSUME NEW j \in S PROVE n - t >= j
      OBVIOUS
  <2>1. n - j \in T
      BY DEF T
  <2> QED BY <1>5, <1>6, <2>1
<1>8. \E k \in S : \A j \in S : k >= j
    BY <1>6, <1>7
<1> QED BY <1>8 DEF Max

LEMMA RowsAre ==
    ASSUME WorklistInv
    PROVE  /\ Len(rows) \in Nat /\ DOMAIN rows = 1 .. Len(rows)
           /\ \A n, kinds : Of(n, kinds) \subseteq 1 .. Len(rows)
           /\ \A n, kind, clearing : Standing(n, kind, clearing) \subseteq 1 .. Len(rows)
           /\ \A k \in DOMAIN rows : rows[k] \in Entry
<1>1. Len(rows) \in Nat /\ DOMAIN rows = 1 .. Len(rows) /\ \A k \in DOMAIN rows : rows[k] \in Entry
    BY DEF WorklistInv, WorklistTypes
<1> QED BY <1>1 DEF Of, Standing

\* A keep covers only what the node carried, or stands for the node itself.
LEMMA KeepsCoverTheRaised ==
    ASSUME WorklistInv, NEW n
    PROVE  Confirmed(n) \subseteq raised \cup {n}
<1> DEFINE K == Standing(n, "retention", {"reopened"})
<1>1. \A k \in K : Anchors(rows[k]) \subseteq raised \cup {n}
  <2> SUFFICES ASSUME NEW k \in K PROVE Anchors(rows[k]) \subseteq raised \cup {n}
      OBVIOUS
  <2>1. k \in DOMAIN rows /\ rows[k].node = n
      BY DEF Standing, Of
  <2>2. rows[k].covers \subseteq raised
      BY <2>1 DEF WorklistInv, RowFits
  <2> QED BY <2>1, <2>2 DEF Anchors
<1>2. Confirmed(n) = UNION {Anchors(rows[k]) : k \in K}
    BY DEF Confirmed
<1> HIDE DEF K
<1> QED BY <1>1, <1>2

\* While a reopening is the newest verdict on a node, no other stands.
LEMMA ReopenedClears ==
    ASSUME WorklistInv, NEW n,
           Of(n, {"retention", "deferral", "reopened"}) # {},
           rows[Max(Of(n, {"retention", "deferral", "reopened"}))].kind = "reopened"
    PROVE  Confirmed(n) = {} /\ Deferrals(n) = {}
<1> PICK about, last : about = Of(n, {"retention", "deferral", "reopened"}) /\ last = Max(about)
    OBVIOUS
<1>1. about \subseteq 1 .. Len(rows) /\ Len(rows) \in Nat
    BY RowsAre
<1>2. last \in about /\ \A k \in about : k <= last
    BY <1>1, MaxIs
<1>3. last \in Of(n, {"reopened"}) /\ last \in Of(n, {"retention", "reopened"})
    BY <1>2 DEF Of
<1>4. \A k \in Of(n, {"retention"}) \cup Of(n, {"deferral"}) : k \in about /\ ~(last < k)
  <2> SUFFICES ASSUME NEW k \in Of(n, {"retention"}) \cup Of(n, {"deferral"})
               PROVE  k \in about /\ ~(last < k)
      OBVIOUS
  <2>1. k \in about
      BY DEF Of
  <2>2. k \in Int /\ last \in Int /\ k <= last
      BY <1>1, <1>2, <2>1
  <2> QED BY <2>1, <2>2
<1>5. Standing(n, "retention", {"reopened"}) = {} /\ Deferrals(n) = {}
    BY <1>3, <1>4 DEF Standing, Deferrals
<1> QED BY <1>5 DEF Confirmed

\* The wait before a leaf comes back is within the cap, however often it was put off.
LEMMA WaitIsCapped ==
    ASSUME settings \in Waits, NEW count \in Nat \ {0}
    PROVE  Wait(count) <= settings[2] /\ Wait(count) \in Int
<1>1. settings[1] \in Int /\ settings[2] \in Int
    BY DEF Waits
<1>2. 2 ^ (count - 1) \in Int
    OBVIOUS
<1> PICK a, b : a = settings[1] * 2 ^ (count - 1) /\ b = settings[2]
    OBVIOUS
<1>3. a \in Int /\ b \in Int
    BY <1>1, <1>2
<1>4. \E x \in {a, b} : \A y \in {a, b} : x <= y
    BY <1>3
<1>5. Min({a, b}) \in {a, b} /\ \A y \in {a, b} : Min({a, b}) <= y
    BY <1>4 DEF Min
<1> QED BY <1>3, <1>5 DEF Wait
-------------------------------------------------------------------------------
(* What the invariant says of what is offered.                               *)

LEMMA ReasonsArePremises ==
    ASSUME WorklistTypes
    PROVE  /\ Stale \subseteq Premises /\ MergedIn \subseteq Premises /\ EvidenceGone \subseteq Premises
           /\ ArchivalReasons \subseteq OutstandingReasons /\ OutstandingReasons \subseteq Premises
BY DEF WorklistTypes, Stale, MergedIn, EvidenceGone, ArchivalReasons, OutstandingReasons, Flagged

LEMMA InvIsSound == WorklistInv => WorklistIsSound
<1> SUFFICES ASSUME WorklistInv PROVE WorklistIsSound
    OBVIOUS
<1>1. TypeOK
  <2>1. \A k \in DOMAIN rows :
          /\ rows[k].kind = "deferral" => rows[k].node \in Leaves
          /\ rows[k].covers \subseteq (IF rows[k].kind = "retention" THEN Premises ELSE {})
          /\ rows[k].round \in 0 .. round
    <3> SUFFICES ASSUME NEW k \in DOMAIN rows
                 PROVE  /\ rows[k].kind = "deferral" => rows[k].node \in Leaves
                        /\ rows[k].covers \subseteq (IF rows[k].kind = "retention" THEN Premises ELSE {})
                        /\ rows[k].round \in 0 .. round
        OBVIOUS
    <3>1. rows[k] \in Entry /\ RowFits(k)
        BY RowsAre DEF WorklistInv
    <3>2. round \in Nat
        BY DEF WorklistInv, WorklistTypes
    <3> QED BY <3>1, <3>2 DEF Entry, RowFits
  <2>2. \A c \in Callers : call[c].round \in 0 .. round
    <3> SUFFICES ASSUME NEW c \in Callers PROVE call[c].round \in 0 .. round
        OBVIOUS
    <3>1. call[c] \in Plans /\ CallFits(c) /\ round \in Nat
        BY DEF WorklistInv, WorklistTypes
    <3> QED BY <3>1 DEF Plans, CallFits
  <2> QED BY <2>1, <2>2 DEF TypeOK, WorklistInv, WorklistTypes
<1>2. WithdrawnIsOffered
  <2> SUFFICES ASSUME NEW n \in Leaves \cup {Inference},
                      Of(n, {"retention", "deferral", "reopened"}) # {},
                      rows[Max(Of(n, {"retention", "deferral", "reopened"}))].kind = "reopened",
                      Active(n)
               PROVE  IF n = Inference THEN ArchivalReasons # {} => n \in Nominated
                      ELSE n \notin noticed \cup important => n \in Nominated
      BY DEF WithdrawnIsOffered
  <2>1. Confirmed(n) = {} /\ Deferrals(n) = {}
      BY ReopenedClears
  <2>2. CASE n = Inference
      BY <2>1, <2>2 DEF Nominated, RetentionCovers
  <2>3. CASE n # Inference
      BY <2>1, <2>3 DEF Nominated, NeverRetrieved, Qualifies, RetentionCovers, Due
  <2> QED BY <2>2, <2>3
<1> QED BY <1>1, <1>2 DEF WorklistIsSound

LEMMA InvComesBack == WorklistInv => ComesBackWithinTheCap
<1> SUFFICES ASSUME WorklistInv, NEW x \in Leaves, Qualifies(x), since[x] >= settings[2],
                    Deferrals(x) # {}
             PROVE  \/ round < rows[Max(Deferrals(x))].round
                    \/ round - rows[Max(Deferrals(x))].round >= Wait(Cardinality(Deferrals(x)))
    BY DEF ComesBackWithinTheCap, Nominated, NeverRetrieved, Due
<1> PICK D, k : D = Deferrals(x) /\ k = Max(D)
    OBVIOUS
<1>1. D \subseteq 1 .. Len(rows) /\ Len(rows) \in Nat
    BY RowsAre DEF Deferrals
<1>2. k \in D
    BY <1>1, MaxIs
<1>3. k \in DOMAIN rows /\ rows[k].node = x /\ rows[k].kind = "deferral"
    BY <1>2 DEF Deferrals, Standing, Of
<1>4. rows[k] \in Entry /\ RowFits(k)
    BY <1>3, RowsAre DEF WorklistInv
<1>5. since[x] <= round - rows[k].round /\ since[x] \in Nat /\ round \in Nat /\ rows[k].round \in Nat
    BY <1>3, <1>4 DEF RowFits, Entry, WorklistInv, WorklistTypes
<1>6. Cardinality(D) \in Nat \ {0}
  <2>1. IsFiniteSet(D)
    <3>1. 1 \in Int /\ Len(rows) \in Int
        BY <1>1
    <3>2. IsFiniteSet(1 .. Len(rows))
        BY <3>1, FS_Interval
    <3> QED BY <1>1, <3>2, FS_Subset
  <2> QED BY <2>1, FS_CardinalityType, FS_EmptySet
<1>7. settings \in Waits /\ settings[2] \in Int
    BY DEF WorklistInv, WorklistTypes, Waits
<1>8. Wait(Cardinality(D)) <= settings[2] /\ Wait(Cardinality(D)) \in Int
    BY <1>6, <1>7, WaitIsCapped
<1> QED BY <1>5, <1>7, <1>8

-------------------------------------------------------------------------------
(* What a step leaves of the journal and of the calls.                       *)

LEMMA PlansAre ==
    /\ NoCall \in Plans /\ NoCall.covers = {} /\ NoCall.round = 0
    /\ \A r \in Plans : /\ AfterKeeps(r) \in Plans
                        /\ AfterKeeps(r).covers = {} /\ AfterKeeps(r).round = 0
    /\ \A r \in Plans : /\ AfterArchivals(r) \in Plans
                        /\ AfterArchivals(r).covers \subseteq r.covers
                        /\ AfterArchivals(r).round \in {0, r.round}
<1>1. NoCall \in Plans /\ NoCall.covers = {} /\ NoCall.round = 0
    BY DEF NoCall, Plans, Ops
<1>2. ASSUME NEW r \in Plans
      PROVE  /\ AfterKeeps(r) \in Plans
             /\ AfterKeeps(r).covers = {} /\ AfterKeeps(r).round = 0
    BY <1>1, <1>2 DEF AfterKeeps, NoCall, Plans, Ops
<1>3. ASSUME NEW r \in Plans
      PROVE  /\ AfterArchivals(r) \in Plans
             /\ AfterArchivals(r).covers \subseteq r.covers
             /\ AfterArchivals(r).round \in {0, r.round}
    BY <1>2, <1>3 DEF AfterArchivals, Plans, Ops
<1> QED BY <1>1, <1>2, <1>3

\* A call that becomes r keeps to what was raised.
LEMMA CallsFit ==
    ASSUME WorklistInv, NEW c \in Callers, NEW r \in Plans, call' = [call EXCEPT ![c] = r],
           r.round <= round, r.covers \subseteq raised,
           raised' = raised, round' = round
    PROVE  call' \in [Callers -> Plans] /\ \A d \in Callers : CallFits(d)'
<1>1. call' \in [Callers -> Plans]
    BY DEF WorklistInv, WorklistTypes
<1>2. \A d \in Callers : call'[d] = IF d = c THEN r ELSE call[d]
    BY DEF WorklistInv, WorklistTypes
<1> QED BY <1>1, <1>2 DEF WorklistInv, CallFits

\* Calls, and with them the journal, as the graph or the round moves on.
LEMMA CallsStay ==
    ASSUME WorklistInv, call' = call, raised \subseteq raised', round' \in Nat, round <= round'
    PROVE  call' \in [Callers -> Plans] /\ \A d \in Callers : CallFits(d)'
<1> SUFFICES ASSUME NEW d \in Callers PROVE CallFits(d)'
    BY DEF WorklistInv, WorklistTypes
<1>1. call[d] \in Plans /\ call'[d] = call[d] /\ CallFits(d) /\ round \in Nat
    BY DEF WorklistInv, WorklistTypes
<1>2. call[d].round \in Nat
    BY <1>1 DEF Plans
<1> QED BY <1>1, <1>2 DEF CallFits

LEMMA RowsStay ==
    ASSUME WorklistInv, rows' = rows, raised \subseteq raised', since' = since, round' = round
    PROVE  rows' \in Seq(Entry) /\ \A k \in DOMAIN rows' : RowFits(k)'
BY DEF WorklistInv, WorklistTypes, RowFits

\* A row that is added.
LEMMA RowsFit ==
    ASSUME WorklistInv, NEW e \in Entry, rows' = Append(rows, e), raised' = raised, round' = round,
           since' \in [Leaves -> Nat], \A x \in Leaves : since'[x] <= since[x],
           e.round <= round, e.kind # "retention" => e.covers = {}, e.covers \subseteq raised,
           e.kind = "deferral" => e.node \in Leaves /\ since'[e.node] = 0
    PROVE  rows' \in Seq(Entry) /\ \A k \in DOMAIN rows' : RowFits(k)'
<1>1. rows \in Seq(Entry) /\ round \in Nat /\ since \in [Leaves -> Nat]
    BY DEF WorklistInv, WorklistTypes
<1>2. /\ rows' \in Seq(Entry) /\ Len(rows') = Len(rows) + 1 /\ DOMAIN rows' = 1 .. Len(rows) + 1
      /\ \A k \in 1 .. Len(rows) : rows'[k] = rows[k]
      /\ rows'[Len(rows) + 1] = e
    BY <1>1, AppendProperties
<1> SUFFICES ASSUME NEW k \in DOMAIN rows' PROVE RowFits(k)'
    BY <1>2
<1>3. Len(rows) \in Nat
    BY <1>1
<1>4. CASE k = Len(rows) + 1
  <2>1. rows'[k] = e /\ e.round \in Nat
      BY <1>2, <1>4 DEF Entry
  <2> QED BY <1>1, <2>1 DEF RowFits
<1>5. CASE k \in 1 .. Len(rows)
  <2>1. rows'[k] = rows[k] /\ rows[k] \in Entry /\ RowFits(k)
      BY <1>2, <1>5, RowsAre DEF WorklistInv
  <2>2. rows[k].kind = "deferral" => since'[rows[k].node] <= round - rows[k].round
    <3> SUFFICES ASSUME rows[k].kind = "deferral" PROVE since'[rows[k].node] <= round - rows[k].round
        OBVIOUS
    <3>1. rows[k].node \in Leaves /\ since[rows[k].node] <= round - rows[k].round
        BY <2>1 DEF RowFits
    <3>2. since'[rows[k].node] <= since[rows[k].node] /\ since'[rows[k].node] \in Nat
          /\ since[rows[k].node] \in Nat /\ rows[k].round \in Nat
        BY <1>1, <2>1, <3>1 DEF Entry
    <3> QED BY <1>1, <3>1, <3>2
  <2> QED BY <2>1, <2>2 DEF RowFits
<1> QED BY <1>2, <1>3, <1>4, <1>5

\* A step that touches no more than what else happens in the graph.
LEMMA GraphInv ==
    ASSUME WorklistInv, UNCHANGED <<rows, clock, call, since>>,
           status' \in [Nodes -> {"absent", "active", "archived", "historical", "merged"}],
           basis' \subseteq Premises, flags' \subseteq Labels \X Premises,
           noticed' \subseteq Leaves, important' \subseteq Leaves,
           \/ Raise
           \/ UNCHANGED <<status, basis, flags, raised>>
    PROVE  WorklistInv'
<1>1. UNCHANGED <<rows, settings, round, stored, call, since>>
    BY DEF clock
<1>2. raised \subseteq raised' /\ OutstandingReasons' \subseteq raised'
  <2>1. CASE Raise
      BY <2>1 DEF Raise
  <2>2. CASE UNCHANGED <<status, basis, flags, raised>>
      BY <2>2 DEF WorklistInv, OutstandingReasons, Stale, MergedIn, EvidenceGone, Flagged, Active
  <2> QED BY <2>1, <2>2
<1>3. round \in Nat
    BY DEF WorklistInv, WorklistTypes
<1>4. call' \in [Callers -> Plans] /\ \A d \in Callers : CallFits(d)'
    BY <1>1, <1>2, <1>3, CallsStay
<1>5. rows' \in Seq(Entry) /\ \A k \in DOMAIN rows' : RowFits(k)'
    BY <1>1, <1>2, RowsStay
<1>6. WorklistTypes'
    BY <1>1, <1>4, <1>5 DEF WorklistInv, WorklistTypes
<1> QED BY <1>2, <1>4, <1>5, <1>6 DEF WorklistInv
-------------------------------------------------------------------------------
(* The steps.                                                                *)

\* A step of a call that writes nothing.
LEMMA CallInv ==
    ASSUME WorklistInv, NEW c \in Callers, NEW r \in Plans, call' = [call EXCEPT ![c] = r],
           r.round <= round, r.covers \subseteq raised,
           UNCHANGED <<graph, rows, clock, raised, since>>
    PROVE  WorklistInv'
<1>1. UNCHANGED <<status, basis, flags, noticed, important, rows, settings, round, stored, raised, since>>
    BY DEF graph, clock
<1>2. call' \in [Callers -> Plans] /\ \A d \in Callers : CallFits(d)'
    BY <1>1, CallsFit
<1>3. rows' \in Seq(Entry) /\ \A k \in DOMAIN rows' : RowFits(k)'
    BY <1>1, RowsStay
<1>4. OutstandingReasons' \subseteq raised'
    BY <1>1 DEF WorklistInv, OutstandingReasons, Stale, MergedIn, EvidenceGone, Flagged, Active
<1>5. WorklistTypes'
    BY <1>1, <1>2, <1>3 DEF WorklistInv, WorklistTypes
<1> QED BY <1>2, <1>3, <1>4, <1>5 DEF WorklistInv

\* A step of a call that adds a row.
LEMMA RowInv ==
    ASSUME WorklistInv, NEW c \in Callers, NEW r \in Plans, call' = [call EXCEPT ![c] = r],
           r.round <= round, r.covers \subseteq raised,
           NEW e \in Entry, rows' = Append(rows, e),
           e.round <= round, e.kind # "retention" => e.covers = {}, e.covers \subseteq raised,
           e.kind = "deferral" => e.node \in Leaves /\ since'[e.node] = 0,
           since' \in [Leaves -> Nat], \A x \in Leaves : since'[x] <= since[x],
           UNCHANGED <<graph, clock, raised>>
    PROVE  WorklistInv'
<1>1. UNCHANGED <<status, basis, flags, noticed, important, settings, round, stored, raised>>
    BY DEF graph, clock
<1>2. call' \in [Callers -> Plans] /\ \A d \in Callers : CallFits(d)'
    BY <1>1, CallsFit
<1>3. rows' \in Seq(Entry) /\ \A k \in DOMAIN rows' : RowFits(k)'
    BY <1>1, RowsFit
<1>4. OutstandingReasons' \subseteq raised'
    BY <1>1 DEF WorklistInv, OutstandingReasons, Stale, MergedIn, EvidenceGone, Flagged, Active
<1>5. WorklistTypes'
    BY <1>1, <1>2, <1>3 DEF WorklistInv, WorklistTypes
<1> QED BY <1>2, <1>3, <1>4, <1>5 DEF WorklistInv

LEMMA CallIs ==
    ASSUME WorklistInv, NEW c \in Callers
    PROVE  /\ call[c] \in Plans /\ CallFits(c) /\ round \in Nat /\ call[c].round \in Nat
           /\ AfterKeeps(call[c]) \in Plans /\ AfterKeeps(call[c]).covers = {}
           /\ AfterKeeps(call[c]).round = 0
           /\ AfterArchivals(call[c]) \in Plans /\ AfterArchivals(call[c]).covers \subseteq raised
           /\ AfterArchivals(call[c]).round <= round
<1>1. call[c] \in Plans /\ CallFits(c) /\ round \in Nat
    BY DEF WorklistInv, WorklistTypes
<1>2. call[c].round \in Nat /\ call[c].round <= round /\ call[c].covers \subseteq raised
    BY <1>1 DEF Plans, CallFits
<1> QED BY <1>1, <1>2, PlansAre

LEMMA ApplyInv ==
    ASSUME WorklistInv, NEW c \in Callers, NEW r \in Requests, Apply(c, r)
    PROVE  WorklistInv'
<1> PICK asked : asked = Resolved(r)
    OBVIOUS
<1>1. asked \in Plans /\ asked.covers = {} /\ asked.round = 0
  <2>1. r.archive \subseteq Nodes /\ r.keep \subseteq Nodes /\ r.defer \subseteq Leaves
      BY DEF Requests, Nodes
  <2> QED BY <2>1, PlansAre DEF Resolved, NoCall, Plans, Ops
<1> PICK p : p = IF asked.archive # {} THEN [asked EXCEPT !.op = "archive"] ELSE AfterArchivals(asked)
    OBVIOUS
<1>2. call' = [call EXCEPT ![c] = p] /\ UNCHANGED <<graph, rows, clock, raised, since>>
    BY DEF Apply
<1>3. p \in Plans /\ p.covers = {} /\ p.round = 0
  <2>1. CASE asked.archive # {}
      BY <1>1, <2>1 DEF Plans, Ops
  <2>2. CASE asked.archive = {}
      BY <1>1, <2>2, PlansAre
  <2> QED BY <2>1, <2>2
<1>4. p.round <= round
    BY <1>3 DEF WorklistInv, WorklistTypes
<1> QED BY <1>2, <1>3, <1>4, CallInv

LEMMA ReadKeepsInv ==
    ASSUME WorklistInv, NEW c \in Callers, ReadKeeps(c)
    PROVE  WorklistInv'
<1>1. UNCHANGED <<graph, rows, clock, raised, since>>
    BY DEF ReadKeeps
<1>2. ASSUME NEW n \in call[c].keep, NEW covers \in SUBSET Premises, Accepts(n, covers),
             call' = [call EXCEPT ![c].op = "kept", ![c].covers = covers]
      PROVE  WorklistInv'
  <2> PICK r : r = [call[c] EXCEPT !.op = "kept", !.covers = covers]
      OBVIOUS
  <2>1. call' = [call EXCEPT ![c] = r]
      BY <1>2 DEF WorklistInv, WorklistTypes
  <2>2. r \in Plans /\ r.covers = covers /\ r.round = call[c].round
      BY CallIs DEF Plans, Ops
  <2>3. covers \subseteq raised
      BY <1>2 DEF Accepts, Uncovered, Carried, WorklistInv
  <2>4. r.round <= round
      BY <2>2, CallIs DEF CallFits
  <2> QED BY <1>1, <2>1, <2>2, <2>3, <2>4, CallInv
<1>3. ASSUME call' = [call EXCEPT ![c] = AfterKeeps(call[c])]
      PROVE  WorklistInv'
  <2> PICK r : r = AfterKeeps(call[c])
      OBVIOUS
  <2>1. r \in Plans /\ r.round <= round /\ r.covers \subseteq raised
      BY CallIs
  <2> QED BY <1>1, <1>3, <2>1, CallInv
<1> QED BY <1>2, <1>3 DEF ReadKeeps

LEMMA WriteKeepInv ==
    ASSUME WorklistInv, NEW c \in Callers, WriteKeep(c)
    PROVE  WorklistInv'
<1> PICK n \in call[c].keep :
        rows' = Append(rows, [Row("retention", n) EXCEPT !.covers = call[c].covers])
    BY DEF WriteKeep
<1> PICK e : e = [Row("retention", n) EXCEPT !.covers = call[c].covers]
    OBVIOUS
<1>1. call[c].covers \subseteq raised /\ call[c].covers \subseteq Premises /\ n \in Nodes
    BY CallIs DEF CallFits, Plans
<1>2. e \in Entry /\ e.kind = "retention" /\ e.covers = call[c].covers /\ e.round = 0
    BY <1>1 DEF Row, Entry
<1> PICK r : r = AfterKeeps(call[c])
    OBVIOUS
<1>3. /\ call' = [call EXCEPT ![c] = r] /\ r \in Plans /\ r.round <= round /\ r.covers \subseteq raised
      /\ e.round <= round /\ UNCHANGED <<graph, clock, raised>> /\ since' = since
    BY <1>2, CallIs DEF WriteKeep
<1>4. since' \in [Leaves -> Nat] /\ \A x \in Leaves : since'[x] <= since[x]
    BY <1>3 DEF WorklistInv, WorklistTypes
<1> QED BY <1>1, <1>2, <1>3, <1>4, RowInv

LEMMA ReadDeferralsInv ==
    ASSUME WorklistInv, NEW c \in Callers, ReadDeferrals(c)
    PROVE  WorklistInv'
<1>1. UNCHANGED <<graph, rows, clock, raised, since>>
    BY DEF ReadDeferrals
<1>2. ASSUME call' = [call EXCEPT ![c].op = "deferred", ![c].round = round] PROVE WorklistInv'
  <2> PICK r : r = [call[c] EXCEPT !.op = "deferred", !.round = round]
      OBVIOUS
  <2>1. call' = [call EXCEPT ![c] = r]
      BY <1>2 DEF WorklistInv, WorklistTypes
  <2>2. r \in Plans /\ r.covers = call[c].covers /\ r.round = round
      BY CallIs DEF Plans, Ops
  <2>3. r.round <= round /\ r.covers \subseteq raised
      BY <2>2, CallIs DEF CallFits
  <2> QED BY <1>1, <2>1, <2>2, <2>3, CallInv
<1>3. ASSUME call' = [call EXCEPT ![c] = NoCall] PROVE WorklistInv'
  <2>1. NoCall.round <= round
      BY PlansAre, CallIs
  <2> QED BY <1>1, <1>3, <2>1, PlansAre, CallInv
<1> QED BY <1>2, <1>3 DEF ReadDeferrals

LEMMA WriteDeferralInv ==
    ASSUME WorklistInv, NEW c \in Callers, WriteDeferral(c)
    PROVE  WorklistInv'
<1> PICK x \in call[c].defer :
        /\ rows' = Append(rows, [Row("deferral", x) EXCEPT !.round = call[c].round])
        /\ since' = [since EXCEPT ![x] = 0]
    BY DEF WriteDeferral
<1> PICK e : e = [Row("deferral", x) EXCEPT !.round = call[c].round]
    OBVIOUS
<1>1. x \in Leaves /\ x \in Nodes /\ call[c].round \in Nat /\ call[c].round <= round
    BY CallIs DEF CallFits, Plans, Nodes
<1>2. /\ e \in Entry /\ e.kind = "deferral" /\ e.covers = {} /\ e.round = call[c].round
      /\ e.node = x
    BY <1>1 DEF Row, Entry
<1>3. call' = [call EXCEPT ![c] = NoCall] /\ UNCHANGED <<graph, clock, raised>>
    BY DEF WriteDeferral
<1>4. since' \in [Leaves -> Nat] /\ since'[x] = 0 /\ \A y \in Leaves : since'[y] <= since[y]
    BY <1>1 DEF WorklistInv, WorklistTypes
<1>5. NoCall \in Plans /\ NoCall.round <= round /\ NoCall.covers \subseteq raised
    BY PlansAre, CallIs
<1> QED BY <1>1, <1>2, <1>3, <1>4, <1>5, RowInv

LEMMA ReadReopenInv ==
    ASSUME WorklistInv, NEW c \in Callers, NEW n \in Nodes, ReadReopen(c, n)
    PROVE  WorklistInv'
<1> PICK r : r = [NoCall EXCEPT !.op = "reopen", !.keep = {n}]
    OBVIOUS
<1>1. call' = [call EXCEPT ![c] = r] /\ UNCHANGED <<graph, rows, clock, raised, since>>
    BY DEF ReadReopen
<1>2. r \in Plans /\ r.covers = {} /\ r.round = 0
    BY DEF NoCall, Plans, Ops
<1>3. r.round <= round
    BY <1>2, CallIs
<1> QED BY <1>1, <1>2, <1>3, CallInv

LEMMA WriteReopenInv ==
    ASSUME WorklistInv, NEW c \in Callers, WriteReopen(c)
    PROVE  WorklistInv'
<1> PICK n \in call[c].keep : rows' = Append(rows, Row("reopened", n))
    BY DEF WriteReopen
<1> PICK e : e = Row("reopened", n)
    OBVIOUS
<1>1. n \in Nodes /\ round \in Nat
    BY CallIs DEF Plans
<1>2. e \in Entry /\ e.kind = "reopened" /\ e.covers = {} /\ e.round = 0
    BY <1>1 DEF Row, Entry
<1>3. call' = [call EXCEPT ![c] = NoCall] /\ UNCHANGED <<graph, clock, raised>> /\ since' = since
    BY DEF WriteReopen
<1>4. since' \in [Leaves -> Nat] /\ \A x \in Leaves : since'[x] <= since[x]
    BY <1>3 DEF WorklistInv, WorklistTypes
<1>5. NoCall \in Plans /\ NoCall.round <= round /\ NoCall.covers \subseteq raised /\ e.round <= round
    BY <1>1, <1>2, PlansAre
<1> QED BY <1>1, <1>2, <1>3, <1>4, <1>5, RowInv
LEMMA ArchiveInv ==
    ASSUME WorklistInv, NEW c \in Callers, Archive(c)
    PROVE  WorklistInv'
<1> PICK r : r = AfterArchivals(call[c])
    OBVIOUS
<1>1. /\ status' = [n \in Nodes |-> IF n \in call[c].archive THEN "archived" ELSE status[n]]
      /\ call' = [call EXCEPT ![c] = r]
      /\ UNCHANGED <<basis, flags, noticed, important, rows, settings, round, stored, since>>
      /\ raised' = raised \cup OutstandingReasons'
    BY DEF Archive, Raise, clock
<1>2. r \in Plans /\ r.round <= round /\ r.covers \subseteq raised
    BY CallIs
<1>3. call' \in [Callers -> Plans] /\ \A d \in Callers : CallFits(d)'
  <2>1. /\ call' \in [Callers -> Plans]
        /\ \A d \in Callers : call'[d] = IF d = c THEN r ELSE call[d]
      BY <1>1, <1>2 DEF WorklistInv, WorklistTypes
  <2> QED BY <1>1, <1>2, <2>1 DEF WorklistInv, CallFits
<1>4. rows' \in Seq(Entry) /\ \A k \in DOMAIN rows' : RowFits(k)'
    BY <1>1, RowsStay
<1>5. status' \in [Nodes -> {"absent", "active", "archived", "historical", "merged"}]
    BY <1>1 DEF WorklistInv, WorklistTypes
<1>6. WorklistTypes'
    BY <1>1, <1>3, <1>4, <1>5 DEF WorklistInv, WorklistTypes
<1> QED BY <1>1, <1>3, <1>4, <1>6 DEF WorklistInv

\* A round that completes is counted for every leaf put off.
LEMMA CompleteInv ==
    ASSUME WorklistInv, CompleteReflectRound
    PROVE  WorklistInv'
<1>1. /\ UNCHANGED <<status, basis, flags, noticed, important, rows, settings, call, raised>>
      /\ round < MaxRound /\ stored' = FALSE
      /\ \/ round' = round + 1 /\ since' = Aged
         \/ round' = round /\ since' = since
    BY DEF CompleteReflectRound, graph
<1>2. round \in Nat /\ round' \in 0 .. MaxRound /\ round <= round' /\ since \in [Leaves -> Nat]
    BY <1>1 DEF WorklistInv, WorklistTypes
<1>3. \A x \in Leaves : Aged[x] \in Nat /\ Aged[x] <= since[x] + 1
  <2> SUFFICES ASSUME NEW x \in Leaves PROVE Aged[x] \in Nat /\ Aged[x] <= since[x] + 1
      OBVIOUS
  <2> PICK a, b : a = since[x] + 1 /\ b = MaxDeferralCap
      OBVIOUS
  <2>1. a \in Nat /\ b \in Nat
      BY <1>2
  <2>2. \E y \in {a, b} : \A z \in {a, b} : y <= z
      BY <2>1
  <2>3. Min({a, b}) \in {a, b} /\ \A z \in {a, b} : Min({a, b}) <= z
      BY <2>2 DEF Min
  <2> QED BY <2>1, <2>3 DEF Aged
<1>4. since' \in [Leaves -> Nat] /\ \A x \in Leaves : since'[x] - since[x] <= round' - round
  <2>1. CASE round' = round + 1 /\ since' = Aged
    <3>1. since' \in [Leaves -> Nat]
      <4>1. Aged = [x \in Leaves |-> Aged[x]]
          BY DEF Aged
      <4> QED BY <1>3, <2>1, <4>1
    <3>2. ASSUME NEW x \in Leaves PROVE since'[x] - since[x] <= round' - round
      <4>1. since'[x] \in Nat /\ since[x] \in Nat /\ since'[x] <= since[x] + 1
          BY <1>2, <1>3, <2>1
      <4>2. round' - round = 1
          BY <1>2, <2>1
      <4> QED BY <4>1, <4>2
    <3> QED BY <3>1, <3>2
  <2>2. CASE round' = round /\ since' = since
    <3>1. ASSUME NEW x \in Leaves PROVE since'[x] - since[x] <= round' - round
      <4>1. since[x] \in Nat /\ since'[x] = since[x]
          BY <1>2, <2>2
      <4> QED BY <1>2, <2>2, <4>1
    <3> QED BY <1>2, <2>2, <3>1
  <2> QED BY <1>1, <2>1, <2>2
<1>5. \A k \in DOMAIN rows' : RowFits(k)'
  <2> SUFFICES ASSUME NEW k \in DOMAIN rows PROVE RowFits(k)'
      BY <1>1
  <2>1. rows'[k] = rows[k] /\ rows[k].round \in Nat /\ RowFits(k)
      BY <1>1, RowsAre DEF Entry, WorklistInv
  <2>2. rows[k].round <= round'
      BY <1>2, <2>1 DEF RowFits
  <2>3. rows[k].kind = "deferral" => since'[rows[k].node] <= round' - rows[k].round
    <3> SUFFICES ASSUME rows[k].kind = "deferral" PROVE since'[rows[k].node] <= round' - rows[k].round
        OBVIOUS
    <3>1. rows[k].node \in Leaves /\ since[rows[k].node] <= round - rows[k].round
        BY <2>1 DEF RowFits
    <3>2. /\ since'[rows[k].node] \in Nat /\ since[rows[k].node] \in Nat
          /\ since'[rows[k].node] - since[rows[k].node] <= round' - round
        BY <1>2, <1>4, <3>1
    <3> QED BY <1>2, <2>1, <3>1, <3>2
  <2> QED BY <1>1, <2>1, <2>2, <2>3 DEF RowFits
<1>6. call' \in [Callers -> Plans] /\ \A d \in Callers : CallFits(d)'
    BY <1>1, <1>2, CallsStay
<1>7. OutstandingReasons' \subseteq raised'
    BY <1>1 DEF WorklistInv, OutstandingReasons, Stale, MergedIn, EvidenceGone, Flagged, Active
<1>8. WorklistTypes'
    BY <1>1, <1>2, <1>4, <1>6 DEF WorklistInv, WorklistTypes
<1> QED BY <1>5, <1>6, <1>7, <1>8 DEF WorklistInv

LEMMA ClockInv ==
    ASSUME WorklistInv, Store \/ ConfigureDeferral
    PROVE  WorklistInv'
<1>1. UNCHANGED <<status, basis, flags, noticed, important, rows, round, call, raised, since>>
    BY DEF Store, ConfigureDeferral, graph
<1>2. settings' \in Waits /\ stored' \in BOOLEAN
    BY DEF Store, ConfigureDeferral, WorklistInv, WorklistTypes
<1>3. round \in Nat
    BY DEF WorklistInv, WorklistTypes
<1>4. call' \in [Callers -> Plans] /\ \A d \in Callers : CallFits(d)'
    BY <1>1, <1>3, CallsStay
<1>5. rows' \in Seq(Entry) /\ \A k \in DOMAIN rows' : RowFits(k)'
    BY <1>1, RowsStay
<1>6. OutstandingReasons' \subseteq raised'
    BY <1>1 DEF WorklistInv, OutstandingReasons, Stale, MergedIn, EvidenceGone, Flagged, Active
<1>7. WorklistTypes'
    BY <1>1, <1>2, <1>4, <1>5 DEF WorklistInv, WorklistTypes
<1> QED BY <1>4, <1>5, <1>6, <1>7 DEF WorklistInv

\* What else happens to the nodes.
NodesMove ==
    \/ \E p \in Premises : Supersede(p)
    \/ \E p, m \in Premises : Merge(p, m)
    \/ \E n \in Nodes : Restore(n)
    \/ \E x \in Leaves : Notice(x) \/ JudgeImportance(x)

LEMMA NodesMoveInv == WorklistInv /\ NodesMove => WorklistInv'
<1> SUFFICES ASSUME WorklistInv, NodesMove PROVE WorklistInv'
    OBVIOUS
<1>1. /\ status \in [Nodes -> {"absent", "active", "archived", "historical", "merged"}]
      /\ basis \subseteq Premises /\ flags \subseteq Labels \X Premises
      /\ noticed \subseteq Leaves /\ important \subseteq Leaves
    BY DEF WorklistInv, WorklistTypes
<1>2. ASSUME NEW p \in Premises, Supersede(p) PROVE WorklistInv'
  <2>1. status' \in [Nodes -> {"absent", "active", "archived", "historical", "merged"}]
      BY <1>1, <1>2 DEF Supersede
  <2>2. flags' \subseteq Labels \X Premises
      BY <1>1, <1>2 DEF Supersede, Labels
  <2>3. /\ UNCHANGED <<basis, noticed, important, rows, clock, call, since>>
        /\ Raise
      BY <1>2 DEF Supersede
  <2>4. /\ UNCHANGED <<rows, clock, call, since>>
        /\ basis' \subseteq Premises /\ noticed' \subseteq Leaves /\ important' \subseteq Leaves
      BY <1>1, <2>3
  <2> QED BY <2>1, <2>2, <2>3, <2>4, GraphInv
<1>3. ASSUME NEW p \in Premises, NEW m \in Premises, Merge(p, m) PROVE WorklistInv'
  <2>1. status' \in [Nodes -> {"absent", "active", "archived", "historical", "merged"}]
      BY <1>1, <1>3 DEF Merge
  <2>2. flags' \subseteq Labels \X Premises /\ basis' \subseteq Premises
      BY <1>1, <1>3 DEF Merge, Labels
  <2>3. /\ UNCHANGED <<noticed, important, rows, clock, call, since>>
        /\ Raise
      BY <1>3 DEF Merge
  <2>4. /\ UNCHANGED <<rows, clock, call, since>>
        /\ noticed' \subseteq Leaves /\ important' \subseteq Leaves
      BY <1>1, <2>3
  <2> QED BY <2>1, <2>2, <2>3, <2>4, GraphInv
<1>4. ASSUME NEW n \in Nodes, Restore(n) PROVE WorklistInv'
    BY <1>1, <1>4, GraphInv DEF Restore
<1>5. ASSUME NEW x \in Leaves, Notice(x) \/ JudgeImportance(x) PROVE WorklistInv'
    BY <1>1, <1>5, GraphInv DEF Notice, JudgeImportance
<1> QED BY <1>2, <1>3, <1>4, <1>5 DEF NodesMove

-------------------------------------------------------------------------------
(* What holds of the worklist.                                               *)

LEMMA InitInv == Init => WorklistInv
<1> SUFFICES ASSUME Init PROVE WorklistInv
    OBVIOUS
<1>1. rows \in Seq(Entry) /\ DOMAIN rows = {}
    BY DEF Init
<1>2. WorklistTypes
  <2>1. status \in [Nodes -> {"absent", "active", "archived", "historical", "merged"}]
      BY DEF Init
  <2>2. /\ basis \subseteq Premises /\ flags \subseteq Labels \X Premises
        /\ noticed \subseteq Leaves /\ important \subseteq Leaves
      BY DEF Init
  <2>3. settings \in Waits /\ round \in 0 .. MaxRound /\ stored \in BOOLEAN
    <3>1. round = 0 /\ stored = FALSE /\ settings \in Waits
        BY DEF Init
    <3>2. 0 \in 0 .. MaxRound
        OBVIOUS
    <3> QED BY <3>1, <3>2
  <2>4. call \in [Callers -> Plans]
      BY PlansAre DEF Init
  <2>5. since \in [Leaves -> Nat]
      BY DEF Init
  <2> QED BY <1>1, <2>1, <2>2, <2>3, <2>4, <2>5 DEF WorklistTypes
<1>3. OutstandingReasons \subseteq raised
  <2>1. \A p \in basis : status[p] = "active"
      BY DEF Init, Nodes
  <2> QED BY <2>1 DEF Init, OutstandingReasons, Stale, MergedIn, EvidenceGone, Flagged, Active
<1>4. \A c \in Callers : CallFits(c)
    BY PlansAre DEF Init, CallFits
<1> QED BY <1>1, <1>2, <1>3, <1>4 DEF WorklistInv

LEMMA NextInv == WorklistInv /\ [Next]_vars => WorklistInv'
<1> SUFFICES ASSUME WorklistInv, [Next]_vars PROVE WorklistInv'
    OBVIOUS
<1>1. CASE NodesMove
    BY <1>1, NodesMoveInv
<1>2. CASE UNCHANGED vars
  <2>1. UNCHANGED <<rows, clock, call, since, status, basis, flags, noticed, important, raised>>
      BY <1>2 DEF vars, graph
  <2>2. /\ status \in [Nodes -> {"absent", "active", "archived", "historical", "merged"}]
        /\ basis \subseteq Premises /\ flags \subseteq Labels \X Premises
        /\ noticed \subseteq Leaves /\ important \subseteq Leaves
      BY DEF WorklistInv, WorklistTypes
  <2> QED BY <2>1, <2>2, GraphInv
<1> QED BY <1>1, <1>2, ApplyInv, ArchiveInv, ReadKeepsInv, WriteKeepInv, ReadDeferralsInv,
           WriteDeferralInv, ReadReopenInv, WriteReopenInv, CompleteInv, ClockInv DEF Next, NodesMove

\* A step adds to the journal, or changes what the inference rests on, and never both.
LEMMA StepsAreApart ==
    ASSUME WorklistInv, [Next]_vars
    PROVE  rows' = rows \/ UNCHANGED <<status, basis, flags, raised>>
BY DEF Next, vars, graph, Apply, Archive, ReadKeeps, WriteKeep, ReadDeferrals, WriteDeferral, ReadReopen,
       WriteReopen, Store, CompleteReflectRound, ConfigureDeferral, Supersede, Merge, Restore, Notice,
       JudgeImportance

LEMMA NewReasonStep ==
    ASSUME WorklistInv, [Next]_vars, Active(Inference)', (OutstandingReasons' \ raised) # {}
    PROVE  /\ (ArchivalReasons' \ raised) # {} => Inference \in Nominated'
           /\ (MergedIn' \ raised) \subseteq PendingReview'
<1>1. rows' = rows
  <2>1. CASE UNCHANGED <<status, basis, flags, raised>>
    <3>1. OutstandingReasons' = OutstandingReasons
        BY <2>1 DEF OutstandingReasons, Stale, MergedIn, EvidenceGone, Flagged, Active
    <3> QED BY <3>1 DEF WorklistInv
  <2> QED BY <2>1, StepsAreApart
<1>2. Confirmed(Inference)' = Confirmed(Inference)
    BY <1>1 DEF Confirmed, Standing, Of, Anchors
<1>3. Confirmed(Inference) \subseteq raised \cup {Inference}
    BY KeepsCoverTheRaised
<1>4. ArchivalReasons' \subseteq Premises /\ MergedIn' \subseteq Premises
  <2>1. WorklistTypes'
      BY NextInv DEF WorklistInv
  <2> QED BY <2>1, ReasonsArePremises DEF WorklistTypes, Stale, MergedIn, EvidenceGone,
             ArchivalReasons, Flagged
<1>5. (ArchivalReasons' \ raised) \cap Confirmed(Inference)' = {}
      /\ (MergedIn' \ raised) \cap Confirmed(Inference)' = {}
    BY <1>2, <1>3, <1>4
<1>6. (ArchivalReasons' \ raised) # {} => Inference \in Nominated'
    BY <1>5 DEF Nominated, RetentionCovers
<1>7. (MergedIn' \ raised) \subseteq PendingReview'
    BY <1>5 DEF PendingReview
<1> QED BY <1>6, <1>7

\* However many calls apply and reopen at once: the variables keep their types, and while
\* the newest verdict on a node is that it is reopened, neither a keep nor a deferral holds
\* it off the worklist.
THEOREM WorklistStaysSound == Spec => []WorklistIsSound
<1> QED BY InitInv, NextInv, InvIsSound, PTL DEF Spec

\* A leaf that still qualifies is offered once as many rounds as the cap have completed since
\* its latest deferral, however often it was put off and whatever the settings were meanwhile.
THEOREM DeferralsRunOut == Spec => []ComesBackWithinTheCap
<1> QED BY InitInv, NextInv, InvComesBack, PTL DEF Spec

\* A reason the inference never carried before puts it back on the worklist: no keep can have
\* covered it, in whatever order calls read and write.
THEOREM NewReasonsOutrank == Spec => NewReasonOutranks
<1>1. WorklistInv /\ [Next]_vars =>
         [Active(Inference)' /\ (OutstandingReasons' \ raised) # {} =>
             /\ (ArchivalReasons' \ raised) # {} => Inference \in Nominated'
             /\ (MergedIn' \ raised) \subseteq PendingReview']_vars
    BY NewReasonStep
<1> QED BY <1>1, InitInv, NextInv, PTL DEF Spec, NewReasonOutranks

==============================================================================

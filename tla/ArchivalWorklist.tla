-------------------------- MODULE ArchivalWorklist --------------------------
(* The archival worklist of reflect, and the verdicts that take a node off it.  An
   inference rests on premises: while one of them has changed, or all of them are
   gone, it is offered for review, until a keep covers every reason it carries.  A
   leaf, a claim no search ever returned, is offered until it is archived, kept,
   noticed, or deferred for a number of reflect rounds.  Every verdict is a row of
   an append-only journal, and what stands is what replaying the rows leaves.
   apply_reflection reads before each of its steps and writes after other tasks have
   run, and several calls may be under way.                                      *)
EXTENDS Integers, Sequences, FiniteSets, FiniteSetsExt, TLC

CONSTANTS
    Premises,       \* facts the inference may come to rest on
    FirstPremises,  \* ... and those it rests on at first
    Inference,      \* the inference
    Leaves,         \* facts nothing is derived from
    Callers,        \* tasks that call apply_reflection or reopen
    MaxDeferralCap, \* MAX_DEFERRAL_CAP
    MaxCalls,       \* bound: calls in all
    MaxMoves,       \* bound: what else happens to the nodes and the settings
    MaxRound        \* bound: reflect rounds

Nodes == Premises \cup Leaves \cup {Inference}

ASSUME PremisesAssumption == /\ FirstPremises \subseteq Premises
                             /\ Inference \notin Premises \cup Leaves
                             /\ Premises \cap Leaves = {}
                             /\ IsFiniteSet(Nodes)
ASSUME CapAssumption == MaxDeferralCap \in Nat \ {0}
ASSUME BoundsAssumption == MaxCalls \in Nat /\ MaxMoves \in Nat /\ MaxRound \in Nat

VARIABLES
    status,     \* of each node; a premise not yet made is "absent"
    basis,      \* the premises the inference is derived from
    flags,      \* <<label, premise>> of the review edges on the inference
    noticed,    \* leaves a search returned, or something links to
    important,  \* leaves judged above the importance ceiling
    rows,       \* the journal, oldest first
    settings,   \* the deferral settings in force
    round,      \* reflect_round
    stored,     \* whether stores_since_reflect is above zero
    call,       \* the call of each task
    calls,      \* bound: calls so far
    moves,      \* bound: moves so far
    raised,     \* history: the reasons the inference has ever carried
    since       \* history: the rounds completed since a leaf's latest deferral

Symmetry == Permutations(Callers) \cup Permutations(FirstPremises)

graph == <<status, basis, flags, noticed, important>>
clock == <<settings, round, stored>>
vars == <<graph, rows, clock, call, calls, moves, raised, since>>

NoCall == [op |-> "none", archive |-> {}, keep |-> {}, defer |-> {}, covers |-> {}, round |-> 0]
Labels == {"evidence_superseded", "evidence_merged"}

\* The <<first_wait, cap>> a graph may be configured with.
Waits == {w \in (1 .. MaxDeferralCap) \X (1 .. MaxDeferralCap) : w[1] <= w[2]}

Init ==
    /\ status = [n \in Nodes |-> IF n \in Premises \ FirstPremises THEN "absent" ELSE "active"]
    /\ basis = FirstPremises
    /\ flags = {}
    /\ noticed = {}
    /\ important = {}
    /\ rows = <<>>
    /\ settings \in Waits
    /\ round = 0
    /\ stored = FALSE
    /\ call = [c \in Callers |-> NoCall]
    /\ calls = 0
    /\ moves = 0
    /\ raised = {}
    /\ since = [x \in Leaves |-> 0]

Active(n) == status[n] = "active"

-------------------------------------------------------------------------------
(* What the journal leaves standing.                                         *)

Row(kind, n) == [kind |-> kind, node |-> n, covers |-> {}, round |-> 0]

\* The rows of a kind about a node.
Of(n, kinds) == {k \in DOMAIN rows : rows[k].node = n /\ rows[k].kind \in kinds}

\* ... and those of them after the last row that clears the node's entry.
Standing(n, kind, clearing) ==
    {k \in Of(n, {kind}) : \A j \in Of(n, clearing) : j < k}

\* A keep for the node's own sake covers the node itself.
Anchors(row) == IF row.covers = {} THEN {row.node} ELSE row.covers

\* confirmed_reasons_for: a reopening drops the node's whole entry.
Confirmed(n) ==
    UNION {Anchors(rows[k]) : k \in Standing(n, "retention", {"reopened"})}

\* Mutant: a reopening leaves the deferrals.
DeferralsKept(n) == Standing(n, "deferral", {"retention"})

\* deferrals_for: the deferrals a node has had since it was last kept or reopened.
Deferrals(n) == Standing(n, "deferral", {"retention", "reopened"})

\* Mutant: the wait doubles without end.
WaitUncapped(count) == settings[1] * 2 ^ (count - 1)

\* deferral_wait: the first wait, doubled with each further deferral, up to the cap.
Wait(count) == Min({settings[1] * 2 ^ (count - 1), settings[2]})

\* deferral_due.
Due(n) ==
    Deferrals(n) # {} =>
        LET last == rows[Max(Deferrals(n))].round IN
        round < last \/ round - last >= Wait(Cardinality(Deferrals(n)))

-------------------------------------------------------------------------------
(* What is offered.                                                          *)

Flagged(label) == {p \in Premises : <<label, p>> \in flags}

\* The evidence_stale label: the flags, and the premises that are superseded now.
Stale == Flagged("evidence_superseded") \cup {p \in basis : status[p] = "historical"}
MergedIn == Flagged("evidence_merged")

\* evidence_gone_for: the premises, once none of them is active.
EvidenceGone == IF \E p \in basis : Active(p) THEN {} ELSE basis

ArchivalReasons == Stale \cup EvidenceGone
OutstandingReasons == Stale \cup MergedIn \cup EvidenceGone

\* retention_covers: a standing keep answers every reason there is now.
RetentionCovers(n, reasons) ==
    (IF reasons = {} THEN {n} ELSE reasons) \subseteq Confirmed(n)

\* never_retrieved_exclusion, but for the deferral.
Qualifies(x) == Active(x) /\ x \notin important \cup noticed /\ ~RetentionCovers(x, {})
NeverRetrieved(x) == Qualifies(x) /\ Due(x)

\* nominate_archival_candidates: the classes evidence_stale and never_retrieved.
Nominated ==
    {x \in Leaves : NeverRetrieved(x)}
    \cup {i \in {Inference} : /\ Active(i)
                              /\ ArchivalReasons # {}
                              /\ ~RetentionCovers(i, ArchivalReasons)}

\* gather_pending_review: the reasons the worklist shows for the inference.
PendingReview ==
    IF Active(Inference) THEN (Stale \cup MergedIn) \ Confirmed(Inference) ELSE {}

Raise == raised' = raised \cup OutstandingReasons'

-------------------------------------------------------------------------------
(* apply_reflection: archivals, then keeps, then deferrals.                  *)

Requests ==
    {r \in [archive : SUBSET Nodes, keep : SUBSET (Leaves \cup {Inference}), defer : SUBSET Leaves] :
        /\ Cardinality(r.archive) <= 1 /\ Cardinality(r.keep) <= 1 /\ Cardinality(r.defer) <= 1
        /\ Cardinality(r.archive) + Cardinality(r.keep) + Cardinality(r.defer) \in {1, 2}}

\* What a batch comes to: only active nodes are archived, an archival wins, and a keep
\* and a deferral of one node refuse each other.
Resolved(r) ==
    LET gone == {n \in r.archive : Active(n)} IN
    [NoCall EXCEPT !.archive = gone,
                   !.keep = r.keep \ (gone \cup r.defer),
                   !.defer = r.defer \ (gone \cup r.keep)]

\* The steps of a call, those with nothing left to do passed over.
AfterKeeps(r) == IF r.defer # {} THEN [NoCall EXCEPT !.op = "defer", !.defer = r.defer] ELSE NoCall
AfterArchivals(r) ==
    IF r.keep # {} THEN [r EXCEPT !.op = "keep", !.archive = {}] ELSE AfterKeeps(r)

\* The nodes to archive are read, and exported.
Apply(c, r) ==
    /\ call[c].op = "none" /\ calls < MaxCalls
    /\ calls' = calls + 1
    /\ LET asked == Resolved(r) IN
       call' = [call EXCEPT ![c] =
           IF asked.archive # {} THEN [asked EXCEPT !.op = "archive"] ELSE AfterArchivals(asked)]
    /\ UNCHANGED <<graph, rows, clock, moves, raised, since>>

\* The flip looks at no status again.
Archive(c) ==
    /\ call[c].op = "archive"
    /\ status' = [n \in Nodes |-> IF n \in call[c].archive THEN "archived" ELSE status[n]]
    /\ call' = [call EXCEPT ![c] = AfterArchivals(call[c])]
    /\ UNCHANGED <<basis, flags, noticed, important, rows, clock, calls, moves, since>>
    /\ Raise

Carried(n) == IF n = Inference THEN OutstandingReasons ELSE {}
Uncovered(n) == Carried(n) \ Confirmed(n)

\* Mutant: a keep may name more than the reasons that are open.
AcceptsSurplus(n, covers) ==
    /\ Active(n)
    /\ ~(Carried(n) # {} /\ Uncovered(n) = {})
    /\ Uncovered(n) \subseteq covers

\* A keep names the open reasons exactly, and answers something.
Accepts(n, covers) ==
    /\ Active(n)
    /\ ~(Carried(n) # {} /\ Uncovered(n) = {})
    /\ covers = Uncovered(n)

\* A keep that names anything else is skipped, as is one with nothing to answer.
ReadKeeps(c) ==
    /\ call[c].op = "keep"
    /\ \/ \E n \in call[c].keep, covers \in SUBSET Premises :
            /\ Accepts(n, covers)
            /\ call' = [call EXCEPT ![c].op = "kept", ![c].covers = covers]
       \/ /\ ~\E n \in call[c].keep, covers \in SUBSET Premises : Accepts(n, covers)
          /\ call' = [call EXCEPT ![c] = AfterKeeps(call[c])]
    /\ UNCHANGED <<graph, rows, clock, calls, moves, raised, since>>

\* record_retention.
WriteKeep(c) ==
    /\ call[c].op = "kept"
    /\ \E n \in call[c].keep :
          rows' = Append(rows, [Row("retention", n) EXCEPT !.covers = call[c].covers])
    /\ call' = [call EXCEPT ![c] = AfterKeeps(call[c])]
    /\ UNCHANGED <<graph, clock, calls, moves, raised, since>>

\* A deferral answers a nomination, so the node must be one.
ReadDeferrals(c) ==
    /\ call[c].op = "defer"
    /\ IF \E x \in call[c].defer : NeverRetrieved(x)
       THEN call' = [call EXCEPT ![c].op = "deferred", ![c].round = round]
       ELSE call' = [call EXCEPT ![c] = NoCall]
    /\ UNCHANGED <<graph, rows, clock, calls, moves, raised, since>>

\* record_deferral.
WriteDeferral(c) ==
    /\ call[c].op = "deferred"
    /\ \E x \in call[c].defer :
          /\ rows' = Append(rows, [Row("deferral", x) EXCEPT !.round = call[c].round])
          /\ since' = [since EXCEPT ![x] = 0]
    /\ call' = [call EXCEPT ![c] = NoCall]
    /\ UNCHANGED <<graph, clock, calls, moves, raised>>

-------------------------------------------------------------------------------
(* reopen.                                                                   *)

\* Refused unless a keep or a deferral is holding the node back.
ReadReopen(c, n) ==
    /\ call[c].op = "none" /\ calls < MaxCalls
    /\ Confirmed(n) # {} \/ ~Due(n)
    /\ calls' = calls + 1
    /\ call' = [call EXCEPT ![c] = [NoCall EXCEPT !.op = "reopen", !.keep = {n}]]
    /\ UNCHANGED <<graph, rows, clock, moves, raised, since>>

WriteReopen(c) ==
    /\ call[c].op = "reopen"
    /\ \E n \in call[c].keep : rows' = Append(rows, Row("reopened", n))
    /\ call' = [call EXCEPT ![c] = NoCall]
    /\ UNCHANGED <<graph, clock, calls, moves, raised, since>>

-------------------------------------------------------------------------------
(* Rounds and settings.                                                      *)

Store ==
    /\ ~stored
    /\ stored' = TRUE
    /\ UNCHANGED <<graph, rows, settings, round, call, calls, moves, raised, since>>

Aged == [x \in Leaves |-> Min({since[x] + 1, MaxDeferralCap})]

\* A reflect that completes zeroes the counter, and is a round if it was not zero.
CompleteReflectRound ==
    /\ round < MaxRound
    /\ round' = IF stored THEN round + 1 ELSE round
    /\ since' = IF stored THEN Aged ELSE since
    /\ stored' = FALSE
    /\ UNCHANGED <<graph, rows, settings, call, calls, moves, raised>>

Move == moves < MaxMoves /\ moves' = moves + 1

ConfigureDeferral ==
    /\ Move
    /\ settings' \in Waits
    /\ UNCHANGED <<graph, rows, round, stored, call, calls, raised, since>>

-------------------------------------------------------------------------------
(* What else happens to the nodes.                                           *)

\* supersede_by_existing: the inferences that rest on a superseded fact are flagged.
Supersede(p) ==
    /\ Move
    /\ Active(p)
    /\ status' = [status EXCEPT ![p] = "historical"]
    /\ flags' = IF p \in basis THEN flags \cup {<<"evidence_superseded", p>>} ELSE flags
    /\ UNCHANGED <<basis, noticed, important, rows, clock, call, calls, since>>
    /\ Raise

\* merge_nodes: the inference rests on the survivor, and is flagged with the fact that
\* went away.
Merge(p, m) ==
    /\ Move
    /\ Active(p) /\ p \in basis
    /\ status[m] = "absent"
    /\ status' = [status EXCEPT ![p] = "merged", ![m] = "active"]
    /\ basis' = (basis \ {p}) \cup {m}
    /\ flags' = flags \cup {<<"evidence_merged", p>>}
    /\ UNCHANGED <<noticed, important, rows, clock, call, calls, since>>
    /\ Raise

\* restore: what was archived, or is true again.  The flags stay.
Restore(n) ==
    /\ Move
    /\ status[n] \in {"archived", "historical"}
    /\ status' = [status EXCEPT ![n] = "active"]
    /\ UNCHANGED <<basis, flags, noticed, important, rows, clock, call, calls, since>>
    /\ Raise

\* A search returns a leaf, or something is linked to it.
Notice(x) ==
    /\ Move
    /\ x \notin noticed
    /\ noticed' = noticed \cup {x}
    /\ UNCHANGED <<status, basis, flags, important, rows, clock, call, calls, raised, since>>

\* judge_importance, up or down.
JudgeImportance(x) ==
    /\ Move
    /\ important' = IF x \in important THEN important \ {x} ELSE important \cup {x}
    /\ UNCHANGED <<status, basis, flags, noticed, rows, clock, call, calls, raised, since>>

Next ==
    \/ \E c \in Callers, r \in Requests : Apply(c, r)
    \/ \E c \in Callers : Archive(c) \/ ReadKeeps(c) \/ WriteKeep(c)
    \/ \E c \in Callers : ReadDeferrals(c) \/ WriteDeferral(c) \/ WriteReopen(c)
    \/ \E c \in Callers, n \in Nodes : ReadReopen(c, n)
    \/ Store \/ CompleteReflectRound \/ ConfigureDeferral
    \/ \E p \in Premises : Supersede(p)
    \/ \E p, m \in Premises : Merge(p, m)
    \/ \E n \in Nodes : Restore(n)
    \/ \E x \in Leaves : Notice(x) \/ JudgeImportance(x)

Spec == Init /\ [][Next]_vars

-------------------------------------------------------------------------------
(* Properties.                                                               *)

\* The variables keep their types: keeps are of leaves and the inference, deferrals of
\* leaves, and what a row covers is premises.
TypeOK ==
    /\ status \in [Nodes -> {"absent", "active", "archived", "historical", "merged"}]
    /\ basis \subseteq Premises /\ flags \subseteq Labels \X Premises
    /\ noticed \subseteq Leaves /\ important \subseteq Leaves
    /\ \A k \in DOMAIN rows :
          /\ rows[k].kind = "deferral" => rows[k].node \in Leaves
          /\ rows[k].covers \subseteq (IF rows[k].kind = "retention" THEN Premises ELSE {})
          /\ rows[k].round \in 0 .. round
    /\ settings \in Waits /\ round \in 0 .. MaxRound /\ stored \in BOOLEAN
    /\ \A c \in Callers : call[c].round \in 0 .. round

\* A new reason outranks an old verdict: a reason the inference never carried before
\* puts it back on the worklist, whatever was kept, by whoever, in whatever order:
\* no keep can have covered it.
NewReasonOutranks ==
    [][Active(Inference)' /\ (OutstandingReasons' \ raised) # {} =>
          /\ (ArchivalReasons' \ raised) # {} => Inference \in Nominated'
          /\ (MergedIn' \ raised) \subseteq PendingReview']_vars

\* A deferral is not for good: once as many rounds as the cap have completed since a
\* leaf's latest deferral, a leaf that still qualifies is offered, however often it was
\* put off, by however many calls at once, and whatever the settings were meanwhile.
ComesBackWithinTheCap ==
    \A x \in Leaves : Qualifies(x) /\ since[x] >= settings[2] => x \in Nominated

\* Reopening puts the question back: while the newest verdict on a node is that it is
\* reopened, nothing holds it back, neither a keep nor a deferral.
WithdrawnIsOffered ==
    \A n \in Leaves \cup {Inference} :
        LET about == Of(n, {"retention", "deferral", "reopened"}) IN
        about # {} /\ rows[Max(about)].kind = "reopened" /\ Active(n) =>
            IF n = Inference THEN ArchivalReasons # {} => n \in Nominated
            ELSE n \notin noticed \cup important => n \in Nominated

\* The shape of the state, and that a withdrawn verdict holds nothing back.
WorklistIsSound == TypeOK /\ WithdrawnIsOffered
=============================================================================

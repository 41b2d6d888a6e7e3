------------------------------ MODULE JudgeRoster ------------------------------
(***************************************************************************)
(* The judges of one graph: the agent records and what they answer to, the *)
(* approved ids, the confirmations kept per seat, and the claims by which  *)
(* an agent becomes one of them (mcp/tools.py, mcp/server.py, core/seat.py, *)
(* core/types.py), beside the commands a person gives on the CLI, which is *)
(* another process on the same store.                                      *)
(*                                                                         *)
(* A step runs from one question to the user to the next: the store's own  *)
(* calls do not suspend in memory.py and sqlite_adapter.py, and a person   *)
(* reading a prompt does.  What a claim read before a question, it uses    *)
(* after it.                                                               *)
(***************************************************************************)
EXTENDS Integers, FiniteSets, Sequences, SequencesExt, Functions

CONSTANTS
    Names,          \* what a judge may be called; also an id, in a seeded approval
    Keys,           \* the opaque keys new_agent_id mints
    NoId,
    Seats,          \* the complete seats: conversation, client and model
    NoSeat,         \* a seat whose conversation or model is unknown
    Claims,         \* the claims that may wait on the user together
    Kept,           \* JUDGE_CONFIRMATIONS_KEPT
    PickerRounds,   \* _PICKER_ROUNDS
    MaxOps          \* bound: claims begun and commands given

Ids == Names \cup Keys
AnySeat == Seats \cup {NoSeat}

ASSUME RosterAssumption ==
    /\ Names \cap Keys = {} /\ NoId \notin Ids /\ NoSeat \notin Seats
    /\ Kept \in Nat \ {0} /\ PickerRounds \in Nat /\ MaxOps \in Nat

VARIABLES
    agents,         \* the agent table: a record for each id that has one
    approved,       \* the approved ids
    confirmations,  \* <<id, seat>> the user confirmed, newest last
    memo,           \* judge_confirmed: the id this connection last claimed, or NoId
    tokens,         \* judge_tokens: the <<id, seat>> each token of the connection names
    rows,           \* the ids the graph's decisions record
    claim,          \* each claim that waits on the user, or Idle
    given,          \* the ids the user has admitted, by an answer or a command
    answered,       \* the <<id, seat>> the user chose when asked, or could not be asked about
    ops

store == <<agents, approved, confirmations, rows>>
session == <<memo, tokens, claim>>
vars == <<store, session, given, answered, ops>>

NoAgent == [name |-> NoId, former |-> {}, out |-> FALSE]
Idle == [at |-> "idle", handle |-> NoId, key |-> NoId, held |-> NoAgent, seen |-> {},
         confirmed |-> <<>>, seat |-> NoSeat, rounds |-> 0]

Init ==
    /\ agents = <<>>
    /\ approved = {}
    /\ confirmations = <<>>
    /\ memo = NoId
    /\ tokens = {}
    /\ rows = {}
    /\ claim = [c \in Claims |-> Idle]
    /\ given = {} /\ answered = {} /\ ops = 0

-------------------------------------------------------------------------------
(* Whom a handle names.                                                      *)

\* live_agents: the records no other record has absorbed, retired ones included.
Live(ag) == {k \in DOMAIN ag : \A j \in DOMAIN ag \ {k} : k \notin ag[j].former}

\* resolve_agent: an id beats a name, and a name beats an id that was absorbed.
Resolve(ag, handle) ==
    LET byId == Live(ag) \cap {handle}
        byName == {k \in Live(ag) : ag[k].name = handle}
        byFormer == {k \in Live(ag) : handle \in ag[k].former}
    IN CASE byId # {} -> handle
         [] byId = {} /\ byName # {} -> CHOOSE k \in byName : TRUE
         [] byId = {} /\ byName = {} /\ byFormer # {} -> CHOOSE k \in byFormer : TRUE
         [] OTHER -> NoId

\* name_holder: the other judge already called so.
NameHolder(ag, name, except) ==
    LET holders == {k \in Live(ag) \ {except} : ag[k].name = name}
    IN IF holders = {} THEN NoId ELSE CHOOSE k \in holders : TRUE

\* The record an id has, as the code holds it from one read to a later write.
Held(ag, k) == IF k = NoId THEN NoAgent ELSE ag[k]

Aliases(k) == {k} \cup agents[k].former

\* agents with one record written: upsert_agent.
Upsert(k, record) == agents' = [j \in DOMAIN agents \cup {k} |-> IF j = k THEN record ELSE agents[j]]

\* seed_approved_judges: the handle's judge, or the handle itself.
Admitted(handle) == IF Resolve(agents, handle) # NoId THEN Resolve(agents, handle) ELSE handle

\* The other entries: a list has one entry for each judge and seat.
Others(list, c) ==
    IF c \in Range(list) THEN RemoveAt(list, CHOOSE i \in DOMAIN list : list[i] = c) ELSE list

\* with_confirmation: one entry for each judge and seat, the newest Kept of them.
WithConfirmation(list, c) ==
    LET all == Append(Others(list, c), c)
    IN SubSeq(all, 1 + (IF Len(all) > Kept THEN Len(all) - Kept ELSE 0), Len(all))

-------------------------------------------------------------------------------
(* claim_agent.                                                              *)

Begun == ops < MaxOps /\ ops' = ops + 1

\* The claim is over; what it bound is a token, the binding and the memo.
Bind(c, k, seat) ==
    /\ tokens' = tokens \cup {<<k, seat>>}
    /\ memo' = k
    /\ claim' = [claim EXCEPT ![c] = Idle]

Refuse(c) ==
    /\ claim' = [claim EXCEPT ![c] = Idle]
    /\ UNCHANGED <<agents, approved, confirmations, memo, tokens>>

\* The record is written, as it was read, and the claim binds.
Finish(c, k, held, handle, seat) ==
    /\ Upsert(k, IF held = NoAgent THEN [name |-> handle, former |-> {}, out |-> FALSE] ELSE held)
    /\ Bind(c, k, seat)

\* approve_agent_ids: a union with the list as it is now.
Admit(c, k) == approved \cup {k}

\* Mutant: only a judge the user has just chosen is looked at for its retirement.
SettleCarried(c, k, held, handle, seat, chosen, list) ==
    /\ ~(chosen /\ held.out)
    /\ approved' = IF chosen THEN Admit(c, k) ELSE approved
    /\ confirmations' = IF chosen /\ seat # NoSeat
                        THEN WithConfirmation(list, <<k, seat>>) ELSE confirmations
    /\ Finish(c, k, held, handle, seat)

\* Past the question: a retired judge is refused whichever way it was reached; the
\* judge chosen is approved and its seat confirmed, over the list as the claim read
\* it; and new wording under a judge not just chosen is put to the user first.
Settle(c, k, held, handle, seat, chosen, list) ==
    IF held.out THEN Refuse(c)
    ELSE
    /\ approved' = IF chosen THEN Admit(c, k) ELSE approved
    /\ confirmations' = IF chosen /\ seat # NoSeat
                        THEN WithConfirmation(list, <<k, seat>>) ELSE confirmations
    /\ \/ Finish(c, k, held, handle, seat)
       \/ /\ ~chosen
          /\ claim' = [claim EXCEPT ![c] = [Idle EXCEPT !.at = "wording", !.handle = handle,
                          !.key = k, !.held = held, !.seat = seat]]
          /\ UNCHANGED <<agents, memo, tokens>>

\* Mutant: the memo answers for a complete seat as well.
CarriesByMemo(k, seat) ==
    /\ k \in approved
    /\ memo = k \/ (seat # NoSeat /\ <<k, seat>> \in Range(confirmations))

\* Asked and answered: by a confirmation in exactly this seat, or, where the seat is
\* not known, by the connection's memo; either way while the judge is approved.
Carries(k, seat) ==
    /\ k \in approved
    /\ IF seat = NoSeat THEN memo = k ELSE <<k, seat>> \in Range(confirmations)

\* A claim reads the roster, the approvals and the confirmations, and asks unless
\* the answer carries.
StartClaim(c, handle, seat) ==
    /\ claim[c] = Idle
    /\ Begun
    /\ LET existing == Resolve(agents, handle)
           key == IF existing # NoId THEN existing ELSE handle
       IN IF Carries(key, seat)
          THEN Settle(c, key, Held(agents, existing), handle, seat, FALSE, confirmations)
          ELSE /\ claim' = [claim EXCEPT ![c] = [at |-> "asked", handle |-> handle, key |-> key,
                              held |-> Held(agents, existing), seen |-> approved,
                              confirmed |-> confirmations, seat |-> seat, rounds |-> 0]]
               /\ UNCHANGED <<agents, approved, confirmations, memo, tokens>>
    /\ UNCHANGED <<rows, given, answered>>

\* What the picker shows: the serving judges, the approved ids nothing has claimed,
\* the proposal where it names nobody, and any name the user types.
Offered(c) ==
    LET serving == {k \in Live(agents) : ~agents[k].out}
        known == DOMAIN agents \cup UNION {agents[k].former : k \in DOMAIN agents}
    IN serving \cup (approved \ known) \cup {claim[c].handle} \cup Names

\* The user picks or types a handle, which is resolved against the roster as it is now
\* and against the approvals as they were; a name nobody has is a judge of its own.
Answer(c, chosen) ==
    /\ claim[c].at = "asked"
    /\ chosen \in Offered(c)
    /\ LET existing == Resolve(agents, chosen)
           fresh == CHOOSE k \in Keys \cup {NoId} :
                       IF Keys \subseteq DOMAIN agents \cup given THEN k = NoId
                       ELSE k \in Keys \ (DOMAIN agents \cup given)
           key == IF existing # NoId THEN existing
                  ELSE IF chosen \in claim[c].seen THEN chosen ELSE fresh
       IN /\ key # NoId
          /\ Settle(c, key, Held(agents, existing), chosen, claim[c].seat, TRUE, claim[c].confirmed)
          /\ given' = IF Held(agents, existing).out THEN given ELSE given \cup {key}
          /\ answered' = answered \cup {<<key, claim[c].seat>>}
    /\ UNCHANGED <<rows, ops>>

\* The user declines, or the picker has gone up as often as it may.
Decline(c) ==
    /\ claim[c].at = "asked"
    /\ Refuse(c)
    /\ UNCHANGED <<rows, given, answered, ops>>

\* No channel to the user: an id approved when the claim began still binds.
NoChannel(c) ==
    /\ claim[c].at = "asked"
    /\ IF claim[c].key \in claim[c].seen
       THEN Settle(c, claim[c].key, claim[c].held, claim[c].handle, claim[c].seat, FALSE,
                   claim[c].confirmed)
       ELSE Refuse(c)
    /\ answered' = answered \cup {<<claim[c].key, claim[c].seat>>}
    /\ UNCHANGED <<rows, given, ops>>

\* The new wording is confirmed or not, and recorded either way.
AnswerWording(c) ==
    /\ claim[c].at = "wording"
    /\ Finish(c, claim[c].key, claim[c].held, claim[c].handle, claim[c].seat)
    /\ UNCHANGED <<approved, confirmations, rows, given, answered, ops>>

-------------------------------------------------------------------------------
(* The commands, which the picker gives too for two of them.                 *)

\* absorbing: the judge that holds the name answers for the other's ids.
Absorbing(holder, k) == [agents[holder] EXCEPT !.former = @ \cup Aliases(k)]

\* rename_judge: a name another judge holds is a question, and yes consolidates.
RenameJudge(handle, name) ==
    LET k == Resolve(agents, handle)
        holder == NameHolder(agents, name, k)
    IN /\ k # NoId
       /\ IF holder = NoId THEN Upsert(k, [agents[k] EXCEPT !.name = name])
          ELSE Upsert(holder, Absorbing(holder, k))

SetRetired(handle, was) ==
    LET k == Resolve(agents, handle)
    IN k # NoId /\ agents[k].out = was /\ Upsert(k, [agents[k] EXCEPT !.out = ~was])

RetireJudge(handle) == SetRetired(handle, FALSE)
ReinstateJudge(handle) == SetRetired(handle, TRUE)

\* The picker renames or reinstates, and goes up again.
FromPicker(c, handle) ==
    /\ claim[c].at = "asked"
    /\ claim[c].rounds < PickerRounds
    /\ ReinstateJudge(handle) \/ \E name \in Names : RenameJudge(handle, name)
    /\ claim' = [claim EXCEPT ![c].rounds = @ + 1]
    /\ UNCHANGED <<approved, confirmations, memo, tokens, rows, given, answered, ops>>

\* The same on the CLI, and retiring, which only the CLI does.
Command(handle) ==
    /\ Begun
    /\ RetireJudge(handle) \/ ReinstateJudge(handle) \/ \E name \in Names : RenameJudge(handle, name)
    /\ UNCHANGED <<approved, confirmations, session, rows, given, answered>>

\* epimemer agents confirm, and EPIMEMER_APPROVED_AGENTS.
Confirm(handle) ==
    /\ Begun
    /\ approved' = approved \cup {Admitted(handle)}
    /\ given' = given \cup {Admitted(handle)}
    /\ UNCHANGED <<agents, confirmations, session, rows, answered>>

\* Mutant: the rows a judge is named by are not scanned.
DeleteUnscanned(handle) ==
    LET k == Resolve(agents, handle)
    IN /\ Begun
       /\ k # NoId
       /\ agents[k].former = {}
       /\ approved' = approved \ Aliases(k)
       /\ agents' = [j \in DOMAIN agents \ {k} |-> agents[j]]
       /\ UNCHANGED <<confirmations, session, rows, given, answered>>

\* delete_judge, its scan run again: a judge that absorbed nobody and that no row
\* names goes, with its approval.
DeleteJudge(handle) ==
    LET k == Resolve(agents, handle)
    IN /\ Begun
       /\ k # NoId
       /\ agents[k].former = {} /\ k \notin rows
       /\ approved' = approved \ Aliases(k)
       /\ agents' = [j \in DOMAIN agents \ {k} |-> agents[j]]
       /\ UNCHANGED <<confirmations, session, rows, given, answered>>

\* A write under a token: credited while its judge is approved, else to nobody.
Decide(k, seat) ==
    /\ <<k, seat>> \in tokens
    /\ rows' = IF k \in approved THEN rows \cup {k} ELSE rows
    /\ UNCHANGED <<agents, approved, confirmations, session, given, answered, ops>>

Next ==
    \/ \E c \in Claims :
          \/ \E h \in Ids, s \in AnySeat : StartClaim(c, h, s)
          \/ \E h \in Ids : Answer(c, h) \/ FromPicker(c, h)
          \/ Decline(c) \/ NoChannel(c) \/ AnswerWording(c)
    \/ \E h \in Ids : Command(h) \/ Confirm(h) \/ DeleteJudge(h)
    \/ \E k \in Ids, s \in AnySeat : Decide(k, s)

Spec == Init /\ [][Next]_vars
\* No seat is preferred to another.
Symmetry == Permutations(Seats)

-------------------------------------------------------------------------------
(* Properties.                                                               *)

\* The variables have their types.
TypeOK ==
    /\ DOMAIN agents \subseteq Ids
    /\ \A k \in DOMAIN agents :
          agents[k] \in [name : Ids, former : SUBSET Ids, out : BOOLEAN]
    /\ approved \subseteq Ids /\ rows \subseteq Ids /\ given \subseteq Ids
    /\ confirmations \in Seq(Ids \X Seats) /\ Len(confirmations) <= Kept
    /\ IsInjective(confirmations)
    /\ memo \in Ids \cup {NoId}
    /\ tokens \subseteq Ids \X AnySeat /\ answered \subseteq Ids \X AnySeat
    /\ \A c \in Claims : claim[c].at \in {"idle", "asked", "wording"} /\ claim[c].rounds <= PickerRounds

\* The cadence of the question: a token for a complete seat names a judge the user
\* was asked about in exactly that seat, whatever was renamed, consolidated, deleted
\* or dropped from the list since.
AskedInCompleteSeat == \A t \in tokens : t[2] \in Seats => t \in answered

\* Whom a row's judge is found under: itself, or the judge that absorbed it.
Answers(ag, k) == \E j \in Live(ag) : k = j \/ k \in ag[j].former

\* "Every decision it has already made" stays answerable: no rename, consolidation,
\* deletion or stale write of a record by a claim leaves a row naming a judge nothing
\* resolves, where something did.  It is about one claim waiting at a time: two that
\* read their records on either side of two opposite consolidations write back judges
\* that each answer for the other, and neither is then found.
RowsStayAnswered == [][\A k \in rows : Answers(agents, k) => Answers(agents', k)]_vars

\* approve_agent_ids is "a union, never a replacement": an approval goes with its
\* record, by a deletion, and no claim that waited on the user takes one back.
ApprovalsAreKept == [][\A k \in approved \ approved' : k \notin DOMAIN agents' \cup rows]_vars

\* "Nothing new may be judged as it": no claim binds a judge that is retired, however
\* it was reached.
RetiredAreNotBound ==
    [][\A t \in tokens' \ tokens : t[1] \in DOMAIN agents' /\ ~agents'[t[1]].out]_vars

\* The shape of the state, and the cadence of the question.
RosterIsSound == TypeOK /\ AskedInCompleteSeat

\* Whom a claim binds was admitted to the graph, stays admitted, and is not retired.
BindingsAreApproved == ApprovalsAreKept /\ RetiredAreNotBound
===============================================================================

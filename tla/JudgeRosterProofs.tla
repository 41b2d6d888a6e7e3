-------------------------- MODULE JudgeRosterProofs ---------------------------
(***************************************************************************)
(* For any names, keys, seats and number of claims waiting together: every *)
(* judge a complete seat is bound to was asked about in that seat, no       *)
(* claim takes an approval back or binds a judge that is retired, and no   *)
(* command leaves a decision's judge unanswerable.                         *)
(***************************************************************************)
EXTENDS JudgeRoster, FiniteSetTheorems, SequenceTheorems, WellFoundedInduction, TLAPS

USE RosterAssumption DEF Ids, AnySeat

AgentRecord == [name : Ids, former : SUBSET Ids, out : BOOLEAN]
ClaimRecord ==
    [at : {"idle", "asked", "wording"}, handle : Ids \cup {NoId}, key : Ids \cup {NoId},
     held : AgentRecord \cup {NoAgent}, seen : SUBSET Ids, confirmed : Seq(Ids \X Seats),
     seat : AnySeat, rounds : 0..PickerRounds]

\* What the variables' types leave out: a claim that waits is on a judge.
RosterTypes ==
    /\ TypeOK
    /\ agents \in [DOMAIN agents -> AgentRecord]
    /\ claim \in [Claims -> ClaimRecord]
    /\ \A c \in Claims : claim[c].at # "idle" => claim[c].key \in Ids /\ claim[c].handle \in Ids

\* Every confirmation, kept or read by a claim that waits, is one the user was asked for.
ConfirmationsWereAsked ==
    /\ Range(confirmations) \subseteq answered
    /\ \A c \in Claims : /\ Range(claim[c].confirmed) \subseteq answered
                         /\ IsInjective(claim[c].confirmed)

\* A claim that waits on its wording alone has a judge to bind.
WordingIsSettled ==
    \A c \in Claims : claim[c].at = "wording" =>
        /\ ~claim[c].held.out
        /\ claim[c].seat \in Seats => <<claim[c].key, claim[c].seat>> \in answered

RosterInv ==
    /\ RosterTypes
    /\ ConfirmationsWereAsked
    /\ WordingIsSettled
    /\ AskedInCompleteSeat

--------------------------------------------------------------------------------
(* Lists, records and handles.                                               *)

LEMMA RemoveIs ==
    ASSUME NEW S, NEW list \in Seq(S), IsInjective(list), NEW i \in DOMAIN list
    PROVE  /\ RemoveAt(list, i) \in Seq(S)
           /\ IsInjective(RemoveAt(list, i))
           /\ Range(RemoveAt(list, i)) \subseteq Range(list) \ {list[i]}
<1> DEFINE before == SubSeq(list, 1, i - 1)
           after == SubSeq(list, i + 1, Len(list))
           new == before \o after
<1>1. DOMAIN list = 1..Len(list) /\ Len(list) \in Nat /\ i \in 1..Len(list)
    OBVIOUS
<1>2. /\ before \in Seq(S) /\ Len(before) = i - 1
      /\ \A j \in 1..(i - 1) : before[j] = list[j]
  <2>1. \A j \in 1..(i - 1) : list[j] \in S
      BY <1>1, ElementOfSeq
  <2>2. /\ before \in Seq(S) /\ Len(before) = IF 1 <= i - 1 THEN (i - 1) - 1 + 1 ELSE 0
        /\ \A j \in 1..((i - 1) - 1 + 1) : before[j] = list[1 + j - 1]
      BY <1>1, <2>1, SubSeqProperties
  <2> QED BY <1>1, <2>2
<1>3. /\ after \in Seq(S) /\ Len(after) = Len(list) - i
      /\ \A j \in 1..(Len(list) - i) : after[j] = list[i + j]
  <2>1. \A j \in (i + 1)..Len(list) : list[j] \in S
      BY <1>1, ElementOfSeq
  <2>2. /\ after \in Seq(S) /\ Len(after) = IF i + 1 <= Len(list) THEN Len(list) - (i + 1) + 1 ELSE 0
        /\ \A j \in 1..(Len(list) - (i + 1) + 1) : after[j] = list[(i + 1) + j - 1]
      BY <1>1, <2>1, SubSeqProperties
  <2> QED BY <1>1, <2>2
<1> HIDE DEF before, after
<1>4. /\ new \in Seq(S) /\ Len(new) = Len(list) - 1
      /\ \A j \in 1..(Len(list) - 1) : new[j] = IF j <= i - 1 THEN before[j] ELSE after[j - (i - 1)]
  <2>1. /\ new \in Seq(S) /\ Len(new) = Len(before) + Len(after)
        /\ \A j \in 1..(Len(before) + Len(after)) :
              new[j] = IF j <= Len(before) THEN before[j] ELSE after[j - Len(before)]
      BY <1>2, <1>3, ConcatProperties
  <2>2. Len(before) + Len(after) = Len(list) - 1
      BY <1>1, <1>2, <1>3
  <2> QED BY <1>2, <2>1, <2>2
<1> HIDE DEF new
<1>5. \A j \in 1..(Len(list) - 1) : new[j] = IF j < i THEN list[j] ELSE list[j + 1]
  <2> SUFFICES ASSUME NEW j \in 1..(Len(list) - 1) PROVE new[j] = IF j < i THEN list[j] ELSE list[j + 1]
      OBVIOUS
  <2>1. CASE j < i
      BY <1>1, <1>2, <1>4, <2>1
  <2>2. CASE ~(j < i)
    <3>1. j - (i - 1) \in 1..(Len(list) - i) /\ i + (j - (i - 1)) = j + 1 /\ ~(j <= i - 1)
        BY <1>1, <2>2
    <3> QED BY <1>3, <1>4, <2>2, <3>1
  <2> QED BY <2>1, <2>2
<1>6. DOMAIN new = 1..(Len(list) - 1)
    BY <1>1, <1>4
<1>7. IsInjective(new)
  <2> SUFFICES ASSUME NEW a \in 1..(Len(list) - 1), NEW b \in 1..(Len(list) - 1), new[a] = new[b]
               PROVE  a = b
      BY <1>6 DEF IsInjective
  <2> DEFINE at(j) == IF j < i THEN j ELSE j + 1
  <2>1. \A j \in 1..(Len(list) - 1) : at(j) \in DOMAIN list /\ new[j] = list[at(j)]
      BY <1>1, <1>5
  <2>2. at(a) = at(b)
      BY <2>1 DEF IsInjective
  <2> QED BY <1>1, <2>2
<1>8. Range(new) \subseteq Range(list) \ {list[i]}
  <2> SUFFICES ASSUME NEW j \in 1..(Len(list) - 1) PROVE new[j] \in Range(list) /\ new[j] # list[i]
      BY <1>6 DEF Range
  <2>1. PICK m \in DOMAIN list : new[j] = list[m] /\ m # i
      BY <1>1, <1>5
  <2> QED BY <2>1 DEF IsInjective, Range
<1> QED BY <1>4, <1>7, <1>8 DEF RemoveAt, new, before, after

\* A list that takes one confirmation more has one entry for each judge and seat still, and
\* no other than it had.
LEMMA WithConfirmationIs ==
    ASSUME NEW S, NEW list \in Seq(S), IsInjective(list), NEW e \in S
    PROVE  /\ WithConfirmation(list, e) \in Seq(S) /\ Len(WithConfirmation(list, e)) <= Kept
           /\ IsInjective(WithConfirmation(list, e))
           /\ Range(WithConfirmation(list, e)) \subseteq Range(list) \cup {e}
<1> DEFINE others == Others(list, e)
           all == Append(others, e)
           first == 1 + (IF Len(all) > Kept THEN Len(all) - Kept ELSE 0)
           new == SubSeq(all, first, Len(all))
<1>1. others \in Seq(S) /\ IsInjective(others) /\ Range(others) \subseteq Range(list) \ {e}
  <2>1. CASE e \in Range(list)
    <3>1. PICK i \in DOMAIN list : list[i] = e /\ others = RemoveAt(list, i)
        BY <2>1 DEF Others, Range
    <3> QED BY <3>1, RemoveIs
  <2>2. CASE e \notin Range(list)
      BY <2>2 DEF Others
  <2> QED BY <2>1, <2>2
<1> HIDE DEF others
<1>2. /\ all \in Seq(S) /\ Len(all) = Len(others) + 1 /\ Len(others) \in Nat
      /\ \A i \in 1..Len(others) : all[i] = others[i]
      /\ all[Len(others) + 1] = e
    BY <1>1, AppendProperties
<1>3. \A i \in 1..Len(others) : others[i] \in Range(list) \ {e}
  <2>1. \A i \in 1..Len(others) : others[i] \in Range(others)
      BY <1>1 DEF Range
  <2> QED BY <1>1, <2>1
<1>4. \A i \in 1..Len(all) : all[i] \in Range(list) \cup {e}
    BY <1>2, <1>3
<1>5. \A i, j \in 1..Len(all) : all[i] = all[j] => i = j
    BY <1>1, <1>2, <1>3 DEF IsInjective
<1> HIDE DEF all
<1>6. first \in 1..(Len(all) + 1) /\ Len(all) - first + 1 <= Kept /\ Len(all) \in Nat
    BY <1>2
<1> HIDE DEF first
<1>7. \A i \in first..Len(all) : all[i] \in S
    BY <1>2, <1>6, ElementOfSeq
<1>8. /\ new \in Seq(S)
      /\ Len(new) = IF first <= Len(all) THEN Len(all) - first + 1 ELSE 0
      /\ \A i \in 1..(Len(all) - first + 1) : new[i] = all[first + i - 1]
    BY <1>6, <1>7, SubSeqProperties
<1>9. DOMAIN new = 1..(Len(all) - first + 1) /\ Len(new) <= Kept
    BY <1>6, <1>8
<1> HIDE DEF new
<1>10. \A i \in DOMAIN new : first + i - 1 \in 1..Len(all)
    BY <1>6, <1>9
<1>11. IsInjective(new)
  <2> SUFFICES ASSUME NEW a \in DOMAIN new, NEW b \in DOMAIN new, new[a] = new[b]
               PROVE  a = b
      BY DEF IsInjective
  <2>1. first + a - 1 = first + b - 1
      BY <1>5, <1>8, <1>9, <1>10
  <2> QED BY <1>6, <1>9, <2>1
<1>12. Range(new) \subseteq Range(list) \cup {e}
    BY <1>4, <1>8, <1>9, <1>10 DEF Range
<1> QED BY <1>8, <1>9, <1>11, <1>12 DEF WithConfirmation, new, first, all, others

LEMMA LiveIs == \A ag : Live(ag) \subseteq DOMAIN ag
BY DEF Live

\* Whom a handle names is a judge no other has absorbed.
LEMMA ResolveIs == \A ag, handle : Resolve(ag, handle) = NoId \/ Resolve(ag, handle) \in Live(ag)
BY DEF Resolve

LEMMA NameHolderIs ==
    \A ag, name, except :
        LET holder == NameHolder(ag, name, except)
        IN holder = NoId \/ (holder \in Live(ag) /\ holder # except)
BY DEF NameHolder

\* A record written.
LEMMA UpsertIs ==
    ASSUME RosterTypes, NEW k \in Ids, NEW record \in AgentRecord, Upsert(k, record)
    PROVE  /\ DOMAIN agents' = DOMAIN agents \cup {k} /\ DOMAIN agents' \subseteq Ids
           /\ agents' \in [DOMAIN agents' -> AgentRecord]
           /\ agents'[k] = record
           /\ \A j \in DOMAIN agents \ {k} : agents'[j] = agents[j]
<1>1. agents' = [j \in DOMAIN agents \cup {k} |-> IF j = k THEN record ELSE agents[j]]
    BY DEF Upsert
<1>2. DOMAIN agents' = DOMAIN agents \cup {k} /\ DOMAIN agents \subseteq Ids
    BY <1>1 DEF RosterTypes, TypeOK
<1>3. \A j \in DOMAIN agents : agents[j] \in AgentRecord
    BY DEF RosterTypes
<1> QED BY <1>1, <1>2, <1>3

LEMMA IdleIs == Idle \in ClaimRecord /\ Idle.at = "idle" /\ Idle.confirmed = <<>>
BY EmptySeq DEF Idle, ClaimRecord

LEMMA EmptyIs == IsInjective(<<>>) /\ Range(<<>>) = {}
BY DEF IsInjective, Range

\* A graph before any judge.
LEMMA InitRoster == Init => RosterInv
<1> SUFFICES ASSUME Init PROVE RosterInv
    OBVIOUS
<1>1. claim \in [Claims -> ClaimRecord] /\ \A c \in Claims : claim[c] = Idle
    BY IdleIs DEF Init
<1>2. DOMAIN agents = {} /\ agents \in [DOMAIN agents -> AgentRecord]
    BY DEF Init
<1>3. TypeOK
    BY <1>1, <1>2, IdleIs, EmptyIs, EmptySeq DEF Init, TypeOK, Idle
<1>4. RosterTypes
    BY <1>1, <1>2, <1>3, IdleIs DEF RosterTypes
<1>5. ConfirmationsWereAsked /\ WordingIsSettled /\ AskedInCompleteSeat
    BY <1>1, IdleIs, EmptyIs DEF Init, ConfirmationsWereAsked, WordingIsSettled, AskedInCompleteSeat
<1> QED BY <1>4, <1>5 DEF RosterInv

--------------------------------------------------------------------------------
(* What a claim does to the store and to what waits.                         *)

\* A claim that binds: its record is written as held, or made.
LEMMA FinishIs ==
    ASSUME RosterTypes, NEW c \in Claims, NEW k \in Ids, NEW held \in AgentRecord \cup {NoAgent},
           NEW handle \in Ids, NEW seat \in AnySeat, ~held.out, Finish(c, k, held, handle, seat)
    PROVE  /\ DOMAIN agents' \subseteq Ids /\ agents' \in [DOMAIN agents' -> AgentRecord]
           /\ k \in DOMAIN agents' /\ ~agents'[k].out
           /\ tokens' = tokens \cup {<<k, seat>>} /\ memo' = k
           /\ claim' = [claim EXCEPT ![c] = Idle]
<1>1. PICK record \in AgentRecord : Upsert(k, record) /\ ~record.out
  <2>1. CASE held = NoAgent
    <3>1. [name |-> handle, former |-> {}, out |-> FALSE] \in AgentRecord
        BY DEF AgentRecord
    <3> QED BY <2>1, <3>1 DEF Finish
  <2>2. CASE held # NoAgent
      BY <2>2 DEF Finish
  <2> QED BY <2>1, <2>2
<1>2. /\ DOMAIN agents' = DOMAIN agents \cup {k} /\ DOMAIN agents' \subseteq Ids
      /\ agents' \in [DOMAIN agents' -> AgentRecord] /\ agents'[k] = record
    BY <1>1, UpsertIs
<1> QED BY <1>1, <1>2 DEF Finish, Bind

\* A claim past its question, over the list as it read it: refused, bound, or left to its
\* wording; whichever way, its seat is one the user was asked in.
LEMMA SettleIs ==
    ASSUME RosterInv, NEW c \in Claims, NEW k \in Ids, NEW held \in AgentRecord \cup {NoAgent},
           NEW handle \in Ids, NEW seat \in AnySeat, NEW chosen \in BOOLEAN,
           NEW list \in Seq(Ids \X Seats), IsInjective(list), Range(list) \subseteq answered',
           answered \subseteq answered', seat \in Seats => <<k, seat>> \in answered',
           Settle(c, k, held, handle, seat, chosen, list)
    PROVE  /\ approved \subseteq approved' /\ approved' \subseteq approved \cup {k}
           /\ confirmations' \in Seq(Ids \X Seats) /\ Len(confirmations') <= Kept
           /\ IsInjective(confirmations') /\ Range(confirmations') \subseteq answered'
           /\ DOMAIN agents' \subseteq Ids /\ agents' \in [DOMAIN agents' -> AgentRecord]
           /\ \/ tokens' = tokens
              \/ tokens' = tokens \cup {<<k, seat>>} /\ k \in DOMAIN agents' /\ ~agents'[k].out
           /\ memo' \in {memo, k}
           /\ \E r \in ClaimRecord :
                 /\ claim' = [claim EXCEPT ![c] = r]
                 /\ \/ r.at = "idle"
                    \/ /\ r.at = "wording" /\ r.key = k /\ r.handle = handle
                       /\ r.held = held /\ ~held.out /\ r.seat = seat
                 /\ r.confirmed = <<>>
<1>1. /\ confirmations \in Seq(Ids \X Seats) /\ Len(confirmations) <= Kept
      /\ IsInjective(confirmations) /\ Range(confirmations) \subseteq answered'
    BY DEF RosterInv, RosterTypes, TypeOK, ConfirmationsWereAsked
<1>2. DOMAIN agents \subseteq Ids /\ agents \in [DOMAIN agents -> AgentRecord] /\ RosterTypes
    BY DEF RosterInv, RosterTypes, TypeOK
<1>3. CASE held.out
    BY <1>1, <1>2, <1>3, IdleIs DEF Settle, Refuse
<1>4. CASE ~held.out
  <2>1. /\ confirmations' \in Seq(Ids \X Seats) /\ Len(confirmations') <= Kept
        /\ IsInjective(confirmations') /\ Range(confirmations') \subseteq answered'
    <3>1. CASE chosen /\ seat # NoSeat
      <4>1. seat \in Seats /\ <<k, seat>> \in Ids \X Seats /\ <<k, seat>> \in answered'
          BY <3>1
      <4>2. confirmations' = WithConfirmation(list, <<k, seat>>)
          BY <1>4, <3>1 DEF Settle
      <4>3. /\ WithConfirmation(list, <<k, seat>>) \in Seq(Ids \X Seats)
            /\ Len(WithConfirmation(list, <<k, seat>>)) <= Kept
            /\ IsInjective(WithConfirmation(list, <<k, seat>>))
            /\ Range(WithConfirmation(list, <<k, seat>>)) \subseteq Range(list) \cup {<<k, seat>>}
        <5> DEFINE S == Ids \X Seats
                   e == <<k, seat>>
        <5>1. list \in Seq(S) /\ e \in S /\ IsInjective(list)
            BY <4>1
        <5> HIDE DEF S, e
        <5>2. /\ WithConfirmation(list, e) \in Seq(S) /\ Len(WithConfirmation(list, e)) <= Kept
              /\ IsInjective(WithConfirmation(list, e))
              /\ Range(WithConfirmation(list, e)) \subseteq Range(list) \cup {e}
            BY <5>1, WithConfirmationIs
        <5> QED BY <5>2 DEF S, e
      <4> QED BY <4>1, <4>2, <4>3
    <3>2. CASE ~(chosen /\ seat # NoSeat)
        BY <1>1, <1>4, <3>2 DEF Settle
    <3> QED BY <3>1, <3>2
  <2>2. approved \subseteq approved' /\ approved' \subseteq approved \cup {k}
      BY <1>4 DEF Settle, Admit
  <2>3. CASE Finish(c, k, held, handle, seat)
      BY <1>2, <1>4, <2>1, <2>2, <2>3, FinishIs, IdleIs
  <2>4. CASE /\ claim' = [claim EXCEPT ![c] = [Idle EXCEPT !.at = "wording", !.handle = handle,
                          !.key = k, !.held = held, !.seat = seat]]
             /\ UNCHANGED <<agents, memo, tokens>>
    <3> DEFINE r == [Idle EXCEPT !.at = "wording", !.handle = handle, !.key = k, !.held = held, !.seat = seat]
    <3>1. r \in ClaimRecord
        BY IdleIs DEF ClaimRecord
    <3>2. /\ r.at = "wording" /\ r.key = k /\ r.handle = handle /\ r.held = held
          /\ r.seat = seat /\ r.confirmed = <<>>
        BY IdleIs DEF ClaimRecord
    <3> HIDE DEF r
    <3>3. claim' = [claim EXCEPT ![c] = r]
        BY <2>4 DEF r
    <3> QED BY <1>2, <1>4, <2>1, <2>2, <2>4, <3>1, <3>2, <3>3
  <2> QED BY <1>4, <2>3, <2>4 DEF Settle
<1> QED BY <1>3, <1>4

\* What a settled claim keeps of the invariant.
LEMMA SettledInv ==
    ASSUME RosterInv, NEW c \in Claims, NEW k \in Ids, NEW held \in AgentRecord \cup {NoAgent},
           NEW handle \in Ids, NEW seat \in AnySeat, NEW chosen \in BOOLEAN,
           NEW list \in Seq(Ids \X Seats), IsInjective(list), Range(list) \subseteq answered',
           answered \subseteq answered', seat \in Seats => <<k, seat>> \in answered',
           answered' \subseteq Ids \X AnySeat, given' \subseteq Ids, rows' = rows,
           Settle(c, k, held, handle, seat, chosen, list)
    PROVE  RosterInv'
<1>0. /\ approved \subseteq approved' /\ approved' \subseteq approved \cup {k}
      /\ confirmations' \in Seq(Ids \X Seats) /\ Len(confirmations') <= Kept
      /\ IsInjective(confirmations') /\ Range(confirmations') \subseteq answered'
      /\ DOMAIN agents' \subseteq Ids /\ agents' \in [DOMAIN agents' -> AgentRecord]
      /\ \/ tokens' = tokens
         \/ tokens' = tokens \cup {<<k, seat>>} /\ k \in DOMAIN agents' /\ ~agents'[k].out
      /\ memo' \in {memo, k}
      /\ \E r \in ClaimRecord :
            /\ claim' = [claim EXCEPT ![c] = r]
            /\ \/ r.at = "idle"
               \/ /\ r.at = "wording" /\ r.key = k /\ r.handle = handle
                  /\ r.held = held /\ ~held.out /\ r.seat = seat
            /\ r.confirmed = <<>>
    BY SettleIs, SMTT(60)
<1>1. PICK r \in ClaimRecord :
         /\ claim' = [claim EXCEPT ![c] = r]
         /\ r.at # "idle" => r.key \in Ids /\ r.handle \in Ids
         /\ r.at = "wording" => ~r.held.out /\ (r.seat \in Seats => <<r.key, r.seat>> \in answered')
         /\ r.confirmed = <<>>
    BY <1>0
<1>2. claim' \in [Claims -> ClaimRecord] /\ claim'[c] = r /\ \A d \in Claims \ {c} : claim'[d] = claim[d]
    BY <1>1 DEF RosterInv, RosterTypes
<1>3. \A d \in Claims : claim'[d].at \in {"idle", "asked", "wording"} /\ claim'[d].rounds <= PickerRounds
    BY <1>2 DEF ClaimRecord
<1>4. approved' \subseteq Ids /\ tokens' \subseteq Ids \X AnySeat /\ memo' \in Ids \cup {NoId}
    BY <1>0 DEF RosterInv, RosterTypes, TypeOK
<1>5. \A j \in DOMAIN agents' : agents'[j] \in [name : Ids, former : SUBSET Ids, out : BOOLEAN]
    BY <1>0 DEF AgentRecord
<1>6. TypeOK'
    BY <1>3, <1>4, <1>5, <1>0 DEF RosterInv, RosterTypes, TypeOK
<1>7. RosterTypes'
  <2>1. agents' \in [DOMAIN agents' -> AgentRecord]
      BY <1>0
  <2> QED BY <1>1, <1>2, <1>6, <2>1 DEF RosterInv, RosterTypes
<1>8. ConfirmationsWereAsked'
  <2>1. Range(confirmations') \subseteq answered'
      BY <1>0
  <2> QED BY <1>1, <1>2, <2>1, EmptyIs DEF RosterInv, ConfirmationsWereAsked
<1>9. WordingIsSettled'
    BY <1>1, <1>2 DEF RosterInv, WordingIsSettled
<1>10. AskedInCompleteSeat'
  <2>1. tokens' \subseteq tokens \cup {<<k, seat>>}
      BY <1>0
  <2> QED BY <2>1 DEF RosterInv, AskedInCompleteSeat
<1> QED BY <1>7, <1>8, <1>9, <1>10 DEF RosterInv

--------------------------------------------------------------------------------
(* The invariant, an action at a time.                                       *)

\* A claim that waits, or one that is over, beside what nothing else changes.
LEMMA WaitingInv ==
    ASSUME RosterInv, NEW c \in Claims, NEW r \in ClaimRecord, claim' = [claim EXCEPT ![c] = r],
           r.at # "idle" => r.key \in Ids /\ r.handle \in Ids,
           r.at # "wording", Range(r.confirmed) \subseteq answered, IsInjective(r.confirmed),
           UNCHANGED <<agents, approved, confirmations, memo, tokens, rows, given, answered>>
    PROVE  RosterInv'
<1>1. claim' \in [Claims -> ClaimRecord] /\ claim'[c] = r /\ \A d \in Claims \ {c} : claim'[d] = claim[d]
    BY DEF RosterInv, RosterTypes
<1>2. \A d \in Claims : claim'[d].at \in {"idle", "asked", "wording"} /\ claim'[d].rounds <= PickerRounds
    BY <1>1 DEF ClaimRecord
<1>3. TypeOK'
    BY <1>2 DEF RosterInv, RosterTypes, TypeOK
<1>4. RosterTypes'
    BY <1>1, <1>3 DEF RosterInv, RosterTypes
<1>5. ConfirmationsWereAsked'
    BY <1>1 DEF RosterInv, ConfirmationsWereAsked
<1>6. WordingIsSettled' /\ AskedInCompleteSeat'
    BY <1>1 DEF RosterInv, WordingIsSettled, AskedInCompleteSeat
<1> QED BY <1>4, <1>5, <1>6 DEF RosterInv

LEMMA ListsAre ==
    ASSUME RosterInv
    PROVE  /\ confirmations \in Seq(Ids \X Seats) /\ IsInjective(confirmations)
           /\ Range(confirmations) \subseteq answered
           /\ answered \subseteq Ids \X AnySeat /\ approved \subseteq Ids /\ given \subseteq Ids
           /\ \A c \in Claims :
                 /\ claim[c].confirmed \in Seq(Ids \X Seats) /\ IsInjective(claim[c].confirmed)
                 /\ Range(claim[c].confirmed) \subseteq answered
                 /\ claim[c].held \in AgentRecord \cup {NoAgent} /\ claim[c].seat \in AnySeat
                 /\ claim[c].at # "idle" => claim[c].key \in Ids /\ claim[c].handle \in Ids
<1>1. \A c \in Claims : claim[c] \in ClaimRecord
    BY DEF RosterInv, RosterTypes
<1> QED BY <1>1 DEF RosterInv, RosterTypes, TypeOK, ConfirmationsWereAsked, ClaimRecord

LEMMA HeldIs ==
    ASSUME RosterInv, NEW handle
    PROVE  /\ Resolve(agents, handle) # NoId =>
                 Resolve(agents, handle) \in Ids /\ Resolve(agents, handle) \in DOMAIN agents
           /\ Held(agents, Resolve(agents, handle)) \in AgentRecord \cup {NoAgent}
BY ResolveIs, LiveIs DEF Held, RosterInv, RosterTypes, TypeOK

LEMMA StartInv ==
    ASSUME RosterInv, NEW c \in Claims, NEW handle \in Ids, NEW seat \in AnySeat, StartClaim(c, handle, seat)
    PROVE  RosterInv'
<1> DEFINE existing == Resolve(agents, handle)
           key == IF existing # NoId THEN existing ELSE handle
           held == Held(agents, existing)
<1>1. key \in Ids /\ held \in AgentRecord \cup {NoAgent}
    BY HeldIs
<1>2. CASE Carries(key, seat) /\ Settle(c, key, held, handle, seat, FALSE, confirmations)
  <2>1. UNCHANGED <<rows, given, answered>>
      BY DEF StartClaim
  <2>2. seat \in Seats => <<key, seat>> \in answered
      BY <1>2, ListsAre DEF Carries
  <2> HIDE DEF existing, key, held
  <2> QED BY <1>1, <1>2, <2>1, <2>2, ListsAre, SettledInv
<1>3. CASE /\ claim' = [claim EXCEPT ![c] = [at |-> "asked", handle |-> handle, key |-> key,
                              held |-> held, seen |-> approved,
                              confirmed |-> confirmations, seat |-> seat, rounds |-> 0]]
           /\ UNCHANGED <<agents, approved, confirmations, memo, tokens>>
  <2> HIDE DEF existing, key, held
  <2> DEFINE r == [at |-> "asked", handle |-> handle, key |-> key, held |-> held, seen |-> approved,
                   confirmed |-> confirmations, seat |-> seat, rounds |-> 0]
  <2>1. r \in ClaimRecord
      BY <1>1, ListsAre DEF ClaimRecord
  <2>2. r.at = "asked" /\ r.key \in Ids /\ r.handle \in Ids /\ r.confirmed = confirmations
      BY <1>1
  <2>3. UNCHANGED <<rows, given, answered>>
      BY DEF StartClaim
  <2> HIDE DEF r
  <2>4. claim' = [claim EXCEPT ![c] = r]
      BY <1>3 DEF r
  <2> QED BY <1>3, <2>1, <2>2, <2>3, <2>4, ListsAre, WaitingInv
<1> QED BY <1>2, <1>3 DEF StartClaim

\* What an answer settles: a judge, and a seat the user has now been asked in.
LEMMA AnswerIs ==
    ASSUME RosterInv, NEW c \in Claims, NEW chosen \in Ids, Answer(c, chosen)
    PROVE  \E key \in Ids, held \in AgentRecord \cup {NoAgent} :
              /\ Settle(c, key, held, chosen, claim[c].seat, TRUE, claim[c].confirmed)
              /\ given' \subseteq given \cup {key}
              /\ answered' = answered \cup {<<key, claim[c].seat>>}
              /\ rows' = rows
              /\ held = Held(agents, Resolve(agents, chosen))
              /\ Resolve(agents, chosen) # NoId => key = Resolve(agents, chosen)
<1> DEFINE existing == Resolve(agents, chosen)
           fresh == CHOOSE k \in Keys \cup {NoId} :
                       IF Keys \subseteq DOMAIN agents \cup given THEN k = NoId
                       ELSE k \in Keys \ (DOMAIN agents \cup given)
           key == IF existing # NoId THEN existing
                  ELSE IF chosen \in claim[c].seen THEN chosen ELSE fresh
           held == Held(agents, existing)
<1>1. fresh \in Keys \cup {NoId}
  <2>1. \E k \in Keys \cup {NoId} :
           IF Keys \subseteq DOMAIN agents \cup given THEN k = NoId
           ELSE k \in Keys \ (DOMAIN agents \cup given)
      OBVIOUS
  <2> QED BY <2>1
<1>2. /\ key # NoId
      /\ Settle(c, key, held, chosen, claim[c].seat, TRUE, claim[c].confirmed)
      /\ given' = IF held.out THEN given ELSE given \cup {key}
      /\ answered' = answered \cup {<<key, claim[c].seat>>}
      /\ rows' = rows
    BY DEF Answer
<1>5. held = Held(agents, Resolve(agents, chosen)) /\ (Resolve(agents, chosen) # NoId => key = Resolve(agents, chosen))
    OBVIOUS
<1> HIDE DEF fresh
<1>3. held \in AgentRecord \cup {NoAgent} /\ (existing # NoId => existing \in Ids)
    BY HeldIs
<1>4. key \in Ids
    BY <1>1, <1>2, <1>3
<1> HIDE DEF existing, key, held
<1> QED BY <1>2, <1>3, <1>4, <1>5

LEMMA AnswerInv ==
    ASSUME RosterInv, NEW c \in Claims, NEW chosen \in Ids, Answer(c, chosen)
    PROVE  RosterInv'
<1>1. PICK key \in Ids, held \in AgentRecord \cup {NoAgent} :
              /\ Settle(c, key, held, chosen, claim[c].seat, TRUE, claim[c].confirmed)
              /\ given' \subseteq given \cup {key}
              /\ answered' = answered \cup {<<key, claim[c].seat>>}
              /\ rows' = rows
    BY AnswerIs
<1>2. /\ claim[c].confirmed \in Seq(Ids \X Seats) /\ IsInjective(claim[c].confirmed)
      /\ Range(claim[c].confirmed) \subseteq answered' /\ claim[c].seat \in AnySeat
      /\ answered' \subseteq Ids \X AnySeat /\ given' \subseteq Ids
      /\ answered \subseteq answered' /\ <<key, claim[c].seat>> \in answered' /\ TRUE \in BOOLEAN
    BY <1>1, ListsAre
<1> QED BY <1>1, <1>2, SettledInv

LEMMA NoChannelInv ==
    ASSUME RosterInv, NEW c \in Claims, NoChannel(c)
    PROVE  RosterInv'
<1>1. /\ claim[c].confirmed \in Seq(Ids \X Seats) /\ IsInjective(claim[c].confirmed)
      /\ claim[c].seat \in AnySeat /\ claim[c].key \in Ids /\ claim[c].handle \in Ids
      /\ claim[c].held \in AgentRecord \cup {NoAgent} /\ FALSE \in BOOLEAN
    BY ListsAre DEF NoChannel
<1>2. /\ answered' = answered \cup {<<claim[c].key, claim[c].seat>>} /\ UNCHANGED <<rows, given>>
      /\ answered' \subseteq Ids \X AnySeat /\ given' \subseteq Ids
      /\ Range(claim[c].confirmed) \subseteq answered'
    BY <1>1, ListsAre DEF NoChannel
<1>3. CASE Settle(c, claim[c].key, claim[c].held, claim[c].handle, claim[c].seat, FALSE, claim[c].confirmed)
    BY <1>1, <1>2, <1>3, SettledInv
<1>4. CASE Refuse(c)
  <2>1. claim' \in [Claims -> ClaimRecord] /\ claim'[c] = Idle /\ \A d \in Claims \ {c} : claim'[d] = claim[d]
      BY <1>4, IdleIs DEF Refuse, RosterInv, RosterTypes
  <2>2. UNCHANGED <<agents, approved, confirmations, memo, tokens>> /\ answered \subseteq answered'
      BY <1>2, <1>4 DEF Refuse
  <2>3. \A d \in Claims : claim'[d].at \in {"idle", "asked", "wording"} /\ claim'[d].rounds <= PickerRounds
      BY <2>1 DEF ClaimRecord
  <2>4. TypeOK'
      BY <1>2, <2>2, <2>3 DEF RosterInv, RosterTypes, TypeOK
  <2>5. RosterTypes'
      BY <2>1, <2>2, <2>4, IdleIs DEF RosterInv, RosterTypes
  <2>6. ConfirmationsWereAsked'
      BY <2>1, <2>2, IdleIs, EmptyIs DEF RosterInv, ConfirmationsWereAsked
  <2>7. WordingIsSettled' /\ AskedInCompleteSeat'
      BY <2>1, <2>2, IdleIs DEF RosterInv, WordingIsSettled, AskedInCompleteSeat
  <2> QED BY <2>5, <2>6, <2>7 DEF RosterInv
<1> QED BY <1>3, <1>4 DEF NoChannel

LEMMA WordingInv ==
    ASSUME RosterInv, NEW c \in Claims, AnswerWording(c)
    PROVE  RosterInv'
<1>1. /\ claim[c].seat \in AnySeat /\ claim[c].key \in Ids /\ claim[c].handle \in Ids
      /\ claim[c].held \in AgentRecord \cup {NoAgent} /\ ~claim[c].held.out
      /\ claim[c].seat \in Seats => <<claim[c].key, claim[c].seat>> \in answered
    BY ListsAre DEF AnswerWording, RosterInv, WordingIsSettled
<1>2. /\ DOMAIN agents' \subseteq Ids /\ agents' \in [DOMAIN agents' -> AgentRecord]
      /\ tokens' = tokens \cup {<<claim[c].key, claim[c].seat>>} /\ memo' = claim[c].key
      /\ claim' = [claim EXCEPT ![c] = Idle]
    BY <1>1, FinishIs DEF AnswerWording, RosterInv
<1>3. UNCHANGED <<approved, confirmations, rows, given, answered>>
    BY DEF AnswerWording
<1>4. claim' \in [Claims -> ClaimRecord] /\ claim'[c] = Idle /\ \A d \in Claims \ {c} : claim'[d] = claim[d]
    BY <1>2, IdleIs DEF RosterInv, RosterTypes
<1>5. \A d \in Claims : claim'[d].at \in {"idle", "asked", "wording"} /\ claim'[d].rounds <= PickerRounds
    BY <1>4 DEF ClaimRecord
<1>6. \A j \in DOMAIN agents' : agents'[j] \in [name : Ids, former : SUBSET Ids, out : BOOLEAN]
    BY <1>2 DEF AgentRecord
<1>7. TypeOK'
    BY <1>1, <1>2, <1>3, <1>5, <1>6 DEF RosterInv, RosterTypes, TypeOK
<1>8. RosterTypes'
    BY <1>2, <1>4, <1>7, IdleIs DEF RosterInv, RosterTypes
<1>9. ConfirmationsWereAsked'
    BY <1>3, <1>4, IdleIs, EmptyIs DEF RosterInv, ConfirmationsWereAsked
<1>10. WordingIsSettled' /\ AskedInCompleteSeat'
    BY <1>1, <1>2, <1>3, <1>4, IdleIs DEF RosterInv, WordingIsSettled, AskedInCompleteSeat
<1> QED BY <1>8, <1>9, <1>10 DEF RosterInv

LEMMA DeclineInv ==
    ASSUME RosterInv, NEW c \in Claims, Decline(c)
    PROVE  RosterInv'
BY IdleIs, EmptyIs, WaitingInv DEF Decline, Refuse

--------------------------------------------------------------------------------
(* The commands.                                                             *)

\* A rename, a consolidation, a retirement and a reinstatement each write the record of one
\* judge that no other has absorbed: under a name of its own, answering for another judge
\* and whoever that answered for, or neither.
LEMMA CommandIs ==
    ASSUME RosterTypes, NEW handle \in Ids,
           \/ RetireJudge(handle) \/ ReinstateJudge(handle)
           \/ \E name \in Names : RenameJudge(handle, name)
    PROVE  \E k \in Live(agents), record \in AgentRecord :
              /\ Upsert(k, record)
              /\ \/ record.former = agents[k].former
                 \/ \E x \in Live(agents) \ {k} : record.former = agents[k].former \cup {x} \cup agents[x].former
<1>1. Live(agents) \subseteq DOMAIN agents /\ \A k \in DOMAIN agents : agents[k] \in AgentRecord
    BY LiveIs DEF RosterTypes
<1>2. ASSUME NEW was \in BOOLEAN, SetRetired(handle, was)
      PROVE  \E k \in Live(agents), record \in AgentRecord : Upsert(k, record) /\ record.former = agents[k].former
  <2> DEFINE k == Resolve(agents, handle)
             record == [agents[k] EXCEPT !.out = ~was]
  <2>1. k \in Live(agents) /\ Upsert(k, record)
      BY <1>2, ResolveIs DEF SetRetired
  <2>2. record \in AgentRecord /\ record.former = agents[k].former
      BY <1>1, <2>1 DEF AgentRecord
  <2> QED BY <2>1, <2>2
<1>3. ASSUME NEW name \in Names, RenameJudge(handle, name)
      PROVE  \E k \in Live(agents), record \in AgentRecord :
                /\ Upsert(k, record)
                /\ \/ record.former = agents[k].former
                   \/ \E x \in Live(agents) \ {k} : record.former = agents[k].former \cup {x} \cup agents[x].former
  <2> DEFINE k == Resolve(agents, handle)
             holder == NameHolder(agents, name, k)
  <2>1. k \in Live(agents)
      BY <1>3, ResolveIs DEF RenameJudge
  <2>2. CASE holder = NoId
    <3> DEFINE record == [agents[k] EXCEPT !.name = name]
    <3>1. Upsert(k, record)
        BY <1>3, <2>2 DEF RenameJudge
    <3>2. record \in AgentRecord /\ record.former = agents[k].former
        BY <1>1, <2>1 DEF AgentRecord
    <3> QED BY <2>1, <3>1, <3>2
  <2>3. CASE holder # NoId
    <3>1. holder \in Live(agents) /\ holder # k
        BY <2>3, NameHolderIs
    <3> DEFINE record == [agents[holder] EXCEPT !.former = @ \cup ({k} \cup agents[k].former)]
    <3>2. Upsert(holder, record)
        BY <1>3, <2>3 DEF RenameJudge, Absorbing, Aliases
    <3> HIDE DEF k, holder
    <3>3. /\ agents[holder] \in AgentRecord /\ agents[k] \in AgentRecord /\ k \in Ids
        BY <1>1, <2>1, <3>1 DEF RosterTypes, TypeOK
    <3>4. record \in AgentRecord /\ record.former = agents[holder].former \cup {k} \cup agents[k].former
        BY <3>3 DEF AgentRecord
    <3> QED BY <2>1, <3>1, <3>2, <3>4
  <2> QED BY <2>2, <2>3
<1> QED BY <1>2, <1>3 DEF RetireJudge, ReinstateJudge

LEMMA CommandTypes ==
    ASSUME RosterTypes, NEW handle \in Ids,
           \/ RetireJudge(handle) \/ ReinstateJudge(handle)
           \/ \E name \in Names : RenameJudge(handle, name)
    PROVE  /\ DOMAIN agents' \subseteq Ids /\ agents' \in [DOMAIN agents' -> AgentRecord]
           /\ \A j \in DOMAIN agents' : agents'[j] \in [name : Ids, former : SUBSET Ids, out : BOOLEAN]
<1>1. PICK k \in Live(agents), record \in AgentRecord : Upsert(k, record)
    BY CommandIs
<1>2. k \in Ids
    BY LiveIs DEF RosterTypes, TypeOK
<1>3. DOMAIN agents' \subseteq Ids /\ agents' \in [DOMAIN agents' -> AgentRecord]
    BY <1>1, <1>2, UpsertIs
<1> QED BY <1>3 DEF AgentRecord

LEMMA CommandInv ==
    ASSUME RosterInv, NEW handle \in Ids, Command(handle)
    PROVE  RosterInv'
<1>1. UNCHANGED <<approved, confirmations, memo, tokens, claim, rows, given, answered>>
    BY DEF Command, session
<1>2. /\ DOMAIN agents' \subseteq Ids /\ agents' \in [DOMAIN agents' -> AgentRecord]
      /\ \A j \in DOMAIN agents' : agents'[j] \in [name : Ids, former : SUBSET Ids, out : BOOLEAN]
    BY CommandTypes DEF Command, RosterInv
<1>3. RosterTypes'
    BY <1>1, <1>2 DEF RosterInv, RosterTypes, TypeOK
<1> QED BY <1>1, <1>3 DEF RosterInv, ConfirmationsWereAsked, WordingIsSettled, AskedInCompleteSeat

LEMMA PickerInv ==
    ASSUME RosterInv, NEW c \in Claims, NEW handle \in Ids, FromPicker(c, handle)
    PROVE  RosterInv'
<1> DEFINE r == [claim[c] EXCEPT !.rounds = @ + 1]
<1>1. claim[c] \in ClaimRecord /\ claim[c].rounds < PickerRounds
    BY DEF FromPicker, RosterInv, RosterTypes
<1>2. r \in ClaimRecord
  <2>1. claim[c].rounds + 1 \in 0..PickerRounds
    <3>1. claim[c].rounds \in 0..PickerRounds
        BY <1>1 DEF ClaimRecord
    <3> QED BY <1>1, <3>1
  <2> DEFINE more == claim[c].rounds + 1
  <2>2. r = [claim[c] EXCEPT !.rounds = more] /\ more \in 0..PickerRounds
      BY <2>1
  <2> HIDE DEF more
  <2> QED BY <1>1, <2>2 DEF ClaimRecord
<1>3. /\ r.at = claim[c].at /\ r.key = claim[c].key /\ r.handle = claim[c].handle
      /\ r.confirmed = claim[c].confirmed /\ claim[c].at = "asked"
    BY <1>1 DEF ClaimRecord, FromPicker
<1>4. claim' = [claim EXCEPT ![c] = r]
    BY DEF FromPicker
<1> HIDE DEF r
<1>5. claim' \in [Claims -> ClaimRecord] /\ claim'[c] = r /\ \A d \in Claims \ {c} : claim'[d] = claim[d]
    BY <1>2, <1>4 DEF RosterInv, RosterTypes
<1>6. \A d \in Claims : claim'[d].at \in {"idle", "asked", "wording"} /\ claim'[d].rounds <= PickerRounds
    BY <1>5 DEF ClaimRecord
<1>7. UNCHANGED <<approved, confirmations, memo, tokens, rows, given, answered>>
    BY DEF FromPicker
<1>8. /\ DOMAIN agents' \subseteq Ids /\ agents' \in [DOMAIN agents' -> AgentRecord]
      /\ \A j \in DOMAIN agents' : agents'[j] \in [name : Ids, former : SUBSET Ids, out : BOOLEAN]
    BY CommandTypes DEF FromPicker, RosterInv
<1>9. TypeOK'
    BY <1>6, <1>7, <1>8 DEF RosterInv, RosterTypes, TypeOK
<1>10. RosterTypes'
    BY <1>3, <1>5, <1>8, <1>9 DEF RosterInv, RosterTypes
<1>11. ConfirmationsWereAsked'
    BY <1>3, <1>5, <1>7 DEF RosterInv, ConfirmationsWereAsked
<1>12. WordingIsSettled' /\ AskedInCompleteSeat'
    BY <1>3, <1>5, <1>7 DEF RosterInv, WordingIsSettled, AskedInCompleteSeat
<1> QED BY <1>10, <1>11, <1>12 DEF RosterInv

\* An id admitted, a judge deleted, and a decision recorded.
LEMMA StoreInv ==
    ASSUME RosterInv,
           \/ \E h \in Ids : Confirm(h) \/ DeleteJudge(h)
           \/ \E k \in Ids, s \in AnySeat : Decide(k, s)
    PROVE  RosterInv'
<1>1. UNCHANGED <<confirmations, memo, tokens, claim, answered>>
    BY DEF Confirm, DeleteJudge, Decide, session
<1>2. approved' \subseteq Ids /\ given' \subseteq Ids /\ rows' \subseteq Ids
  <2>1. ASSUME NEW h \in Ids, Confirm(h) PROVE approved' \subseteq Ids /\ given' \subseteq Ids /\ rows' \subseteq Ids
    <3>1. Admitted(h) \in Ids
        BY HeldIs DEF Admitted
    <3> QED BY <2>1, <3>1 DEF Confirm, RosterInv, RosterTypes, TypeOK
  <2> QED BY <2>1 DEF DeleteJudge, Decide, RosterInv, RosterTypes, TypeOK
<1>3. DOMAIN agents' \subseteq Ids /\ agents' \in [DOMAIN agents' -> AgentRecord]
  <2>1. ASSUME NEW h \in Ids, DeleteJudge(h)
        PROVE  DOMAIN agents' \subseteq Ids /\ agents' \in [DOMAIN agents' -> AgentRecord]
      BY <2>1 DEF DeleteJudge, RosterInv, RosterTypes, TypeOK
  <2> QED BY <2>1 DEF Confirm, Decide, RosterInv, RosterTypes, TypeOK
<1>4. \A j \in DOMAIN agents' : agents'[j] \in [name : Ids, former : SUBSET Ids, out : BOOLEAN]
    BY <1>3 DEF AgentRecord
<1>5. RosterTypes'
    BY <1>1, <1>2, <1>3, <1>4 DEF RosterInv, RosterTypes, TypeOK
<1> QED BY <1>1, <1>5 DEF RosterInv, ConfirmationsWereAsked, WordingIsSettled, AskedInCompleteSeat

LEMMA NextRoster == RosterInv /\ [Next]_vars => RosterInv'
<1> SUFFICES ASSUME RosterInv, [Next]_vars PROVE RosterInv'
    OBVIOUS
<1>1. CASE UNCHANGED vars
    BY <1>1 DEF vars, store, session, RosterInv, RosterTypes, TypeOK, ConfirmationsWereAsked,
       WordingIsSettled, AskedInCompleteSeat
<1>2. ASSUME NEW c \in Claims,
             \/ \E h \in Ids, s \in AnySeat : StartClaim(c, h, s)
             \/ \E h \in Ids : Answer(c, h) \/ FromPicker(c, h)
             \/ Decline(c) \/ NoChannel(c) \/ AnswerWording(c)
      PROVE  RosterInv'
    BY <1>2, StartInv, AnswerInv, PickerInv, DeclineInv, NoChannelInv, WordingInv
<1> QED BY <1>1, <1>2, CommandInv, StoreInv DEF Next

LEMMA RosterHolds == Spec => []RosterInv
BY InitRoster, NextRoster, PTL DEF Spec

\* The variables keep their types, a list of confirmations one entry for each judge and seat,
\* and a token of a complete seat names a judge the user was asked about in exactly that seat.
THEOREM RosterStaysSound == Spec => []RosterIsSound
<1>1. RosterInv => RosterIsSound
    BY DEF RosterInv, RosterTypes, RosterIsSound
<1> QED BY <1>1, RosterHolds, PTL

--------------------------------------------------------------------------------
(* What a step may not do.                                                   *)

\* A claim settled takes no approval back, and binds no judge that is retired.
LEMMA SettledBinds ==
    ASSUME RosterInv, NEW c \in Claims, NEW k \in Ids, NEW held \in AgentRecord \cup {NoAgent},
           NEW handle \in Ids, NEW seat \in AnySeat, NEW chosen \in BOOLEAN,
           NEW list \in Seq(Ids \X Seats), IsInjective(list), Range(list) \subseteq answered',
           answered \subseteq answered', seat \in Seats => <<k, seat>> \in answered',
           Settle(c, k, held, handle, seat, chosen, list)
    PROVE  /\ approved \subseteq approved'
           /\ \A t \in tokens' \ tokens : t[1] \in DOMAIN agents' /\ ~agents'[t[1]].out
<1>1. /\ approved \subseteq approved'
      /\ \/ tokens' = tokens
         \/ tokens' = tokens \cup {<<k, seat>>} /\ k \in DOMAIN agents' /\ ~agents'[k].out
    BY SettleIs, SMTT(60)
<1> QED BY <1>1

LEMMA StartBinds ==
    ASSUME RosterInv, NEW c \in Claims, NEW handle \in Ids, NEW seat \in AnySeat, StartClaim(c, handle, seat)
    PROVE  /\ approved \subseteq approved'
           /\ \A t \in tokens' \ tokens : t[1] \in DOMAIN agents' /\ ~agents'[t[1]].out
<1> DEFINE existing == Resolve(agents, handle)
           key == IF existing # NoId THEN existing ELSE handle
           held == Held(agents, existing)
<1>1. key \in Ids /\ held \in AgentRecord \cup {NoAgent}
    BY HeldIs
<1>2. CASE Carries(key, seat) /\ Settle(c, key, held, handle, seat, FALSE, confirmations)
  <2>1. answered' = answered
      BY DEF StartClaim
  <2>2. seat \in Seats => <<key, seat>> \in answered
      BY <1>2, ListsAre DEF Carries
  <2>3. FALSE \in BOOLEAN
      OBVIOUS
  <2> HIDE DEF existing, key, held
  <2> QED BY <1>1, <1>2, <2>1, <2>2, <2>3, ListsAre, SettledBinds
<1>3. CASE UNCHANGED <<approved, tokens>>
    BY <1>3
<1> QED BY <1>2, <1>3 DEF StartClaim

LEMMA AnswerBinds ==
    ASSUME RosterInv, NEW c \in Claims, NEW chosen \in Ids, Answer(c, chosen)
    PROVE  /\ approved \subseteq approved'
           /\ \A t \in tokens' \ tokens : t[1] \in DOMAIN agents' /\ ~agents'[t[1]].out
<1>1. PICK key \in Ids, held \in AgentRecord \cup {NoAgent} :
              /\ Settle(c, key, held, chosen, claim[c].seat, TRUE, claim[c].confirmed)
              /\ answered' = answered \cup {<<key, claim[c].seat>>}
    BY AnswerIs
<1>2. /\ claim[c].confirmed \in Seq(Ids \X Seats) /\ IsInjective(claim[c].confirmed)
      /\ Range(claim[c].confirmed) \subseteq answered' /\ claim[c].seat \in AnySeat
      /\ answered \subseteq answered' /\ <<key, claim[c].seat>> \in answered' /\ TRUE \in BOOLEAN
    BY <1>1, ListsAre
<1> QED BY <1>1, <1>2, SettledBinds

LEMMA NoChannelBinds ==
    ASSUME RosterInv, NEW c \in Claims, NoChannel(c)
    PROVE  /\ approved \subseteq approved'
           /\ \A t \in tokens' \ tokens : t[1] \in DOMAIN agents' /\ ~agents'[t[1]].out
<1>1. /\ claim[c].confirmed \in Seq(Ids \X Seats) /\ IsInjective(claim[c].confirmed)
      /\ claim[c].seat \in AnySeat /\ claim[c].key \in Ids /\ claim[c].handle \in Ids
      /\ claim[c].held \in AgentRecord \cup {NoAgent} /\ FALSE \in BOOLEAN
    BY ListsAre DEF NoChannel
<1>2. /\ answered' = answered \cup {<<claim[c].key, claim[c].seat>>}
      /\ Range(claim[c].confirmed) \subseteq answered'
    BY <1>1, ListsAre DEF NoChannel
<1>3. CASE Settle(c, claim[c].key, claim[c].held, claim[c].handle, claim[c].seat, FALSE, claim[c].confirmed)
    BY <1>1, <1>2, <1>3, SettledBinds
<1>4. CASE Refuse(c)
    BY <1>4 DEF Refuse
<1> QED BY <1>3, <1>4 DEF NoChannel

LEMMA WordingBinds ==
    ASSUME RosterInv, NEW c \in Claims, AnswerWording(c)
    PROVE  /\ approved \subseteq approved'
           /\ \A t \in tokens' \ tokens : t[1] \in DOMAIN agents' /\ ~agents'[t[1]].out
<1>1. /\ claim[c].seat \in AnySeat /\ claim[c].key \in Ids /\ claim[c].handle \in Ids
      /\ claim[c].held \in AgentRecord \cup {NoAgent} /\ ~claim[c].held.out
    BY ListsAre DEF AnswerWording, RosterInv, WordingIsSettled
<1>2. /\ claim[c].key \in DOMAIN agents' /\ ~agents'[claim[c].key].out
      /\ tokens' = tokens \cup {<<claim[c].key, claim[c].seat>>}
    BY <1>1, FinishIs DEF AnswerWording, RosterInv
<1> QED BY <1>2 DEF AnswerWording

\* An approval is taken back by a deletion alone, of a judge no row names.
LEMMA DeleteKeeps ==
    ASSUME RosterInv, NEW handle \in Ids, DeleteJudge(handle)
    PROVE  /\ \A k \in approved \ approved' : k \notin DOMAIN agents' \cup rows
           /\ tokens' = tokens
<1> DEFINE d == Resolve(agents, handle)
<1>1. /\ Aliases(d) = {d} /\ d \notin rows /\ approved' = approved \ Aliases(d)
      /\ agents' = [j \in DOMAIN agents \ {d} |-> agents[j]] /\ tokens' = tokens
    BY DEF DeleteJudge, Aliases, session
<1> QED BY <1>1

LEMMA BindingStep ==
    ASSUME RosterInv, [Next]_vars
    PROVE  /\ \A k \in approved \ approved' : k \notin DOMAIN agents' \cup rows
           /\ \A t \in tokens' \ tokens : t[1] \in DOMAIN agents' /\ ~agents'[t[1]].out
<1>1. CASE UNCHANGED vars
    BY <1>1 DEF vars, store, session
<1>2. ASSUME NEW c \in Claims,
             \/ \E h \in Ids, s \in AnySeat : StartClaim(c, h, s)
             \/ \E h \in Ids : Answer(c, h)
             \/ NoChannel(c) \/ AnswerWording(c)
      PROVE  /\ approved \subseteq approved'
             /\ \A t \in tokens' \ tokens : t[1] \in DOMAIN agents' /\ ~agents'[t[1]].out
    BY <1>2, StartBinds, AnswerBinds, NoChannelBinds, WordingBinds
<1>3. ASSUME NEW h \in Ids, \/ Command(h) \/ Confirm(h)
                            \/ \E c \in Claims : FromPicker(c, h) \/ Decline(c)
                            \/ \E s \in AnySeat : Decide(h, s)
      PROVE  approved \subseteq approved' /\ tokens' = tokens
    BY <1>3 DEF Command, Confirm, FromPicker, Decline, Refuse, Decide, session
<1>4. CASE \E c \in Claims : Decline(c)
    BY <1>4 DEF Decline, Refuse
<1> QED BY <1>1, <1>2, <1>3, <1>4, DeleteKeeps DEF Next

\* An approval goes with its record, by a deletion, and no claim that waited on the user takes
\* one back; no claim binds a judge that is retired, however it was reached.
THEOREM BindingsStayApproved == Spec => BindingsAreApproved
<1> DEFINE Keeps == \A k \in approved \ approved' : k \notin DOMAIN agents' \cup rows
           Serving == \A t \in tokens' \ tokens : t[1] \in DOMAIN agents' /\ ~agents'[t[1]].out
<1>1. RosterInv /\ [Next]_vars => [Keeps]_vars /\ [Serving]_vars
    BY BindingStep
<1> QED BY <1>1, RosterHolds, PTL DEF Spec, BindingsAreApproved, ApprovalsAreKept, RetiredAreNotBound

--------------------------------------------------------------------------------
(* The rows of the graph.                                                    *)

\* Writing the record of a live judge that keeps whom it answered for, and may take another
\* live judge in, leaves every id that had an answer with one.
LEMMA AnswersKept ==
    ASSUME RosterTypes, NEW k \in Live(agents), NEW record \in AgentRecord, Upsert(k, record),
           \/ record.former = agents[k].former
           \/ \E x \in Live(agents) \ {k} : record.former = agents[k].former \cup {x} \cup agents[x].former,
           NEW r \in Ids, Answers(agents, r)
    PROVE  Answers(agents', r)
<1>1. k \in DOMAIN agents /\ k \in Ids
    BY LiveIs DEF RosterTypes, TypeOK
<1>2. /\ DOMAIN agents' = DOMAIN agents /\ agents'[k] = record
      /\ \A j \in DOMAIN agents \ {k} : agents'[j] = agents[j]
  <2>1. /\ DOMAIN agents' = DOMAIN agents \cup {k} /\ agents'[k] = record
        /\ \A j \in DOMAIN agents \ {k} : agents'[j] = agents[j]
      BY <1>1, UpsertIs
  <2> QED BY <1>1, <2>1
<1>3. PICK j \in Live(agents) : r = j \/ r \in agents[j].former
    BY DEF Answers
<1>4. /\ j \in DOMAIN agents /\ \A i \in DOMAIN agents \ {j} : j \notin agents[i].former
      /\ \A i \in DOMAIN agents \ {k} : k \notin agents[i].former
    BY <1>3 DEF Live
<1>5. k \in Live(agents')
    BY <1>1, <1>2, <1>4 DEF Live
<1>6. CASE record.former = agents[k].former
  <2>1. j \in Live(agents') /\ agents'[j].former = agents[j].former
      BY <1>1, <1>2, <1>4, <1>6 DEF Live
  <2> QED BY <1>3, <2>1 DEF Answers
<1>7. ASSUME NEW x \in Live(agents) \ {k}, record.former = agents[k].former \cup {x} \cup agents[x].former
      PROVE  Answers(agents', r)
  <2>1. CASE j = x
    <3>1. r \in agents'[k].former
        BY <1>2, <1>3, <1>7, <2>1
    <3> QED BY <1>5, <3>1 DEF Answers
  <2>2. CASE j # x
    <3>1. x \in DOMAIN agents
        BY <1>7, LiveIs
    <3>2. \A i \in DOMAIN agents' \ {j} : j \notin agents'[i].former
      <4>1. j \notin agents[x].former
          BY <1>4, <2>2, <3>1
      <4> QED BY <1>1, <1>2, <1>4, <1>7, <2>2, <4>1
    <3>3. j \in Live(agents') /\ agents[j].former \subseteq agents'[j].former
        BY <1>2, <1>4, <1>7, <3>2 DEF Live
    <3> QED BY <1>3, <3>3 DEF Answers
  <2> QED BY <2>1, <2>2
<1> QED BY <1>6, <1>7

\* A deletion leaves the rows' judges answered for: none of them is the judge deleted.
LEMMA DeleteAnswers ==
    ASSUME RosterTypes, NEW handle \in Ids, DeleteJudge(handle), NEW r \in rows, Answers(agents, r)
    PROVE  Answers(agents', r)
<1> DEFINE d == Resolve(agents, handle)
<1>1. /\ d \notin rows /\ agents[d].former = {}
      /\ agents' = [j \in DOMAIN agents \ {d} |-> agents[j]]
    BY DEF DeleteJudge
<1> HIDE DEF d
<1>2. PICK j \in Live(agents) : r = j \/ r \in agents[j].former
    BY DEF Answers
<1>3. j # d
    BY <1>1, <1>2
<1>4. j \in Live(agents') /\ agents'[j] = agents[j]
    BY <1>1, <1>3 DEF Live
<1> QED BY <1>2, <1>4 DEF Answers

\* A command, of the CLI or from the picker, and a decision recorded.
CommandStep ==
    \/ \E h \in Ids : Command(h) \/ Confirm(h) \/ DeleteJudge(h)
    \/ \E c \in Claims, h \in Ids : FromPicker(c, h)
    \/ \E k \in Ids, s \in AnySeat : Decide(k, s)

LEMMA CommandAnswers ==
    ASSUME RosterTypes, CommandStep, NEW r \in rows, Answers(agents, r)
    PROVE  Answers(agents', r)
<1>1. r \in Ids
    BY DEF RosterTypes, TypeOK
<1>2. ASSUME NEW h \in Ids,
             \/ RetireJudge(h) \/ ReinstateJudge(h) \/ \E name \in Names : RenameJudge(h, name)
      PROVE  Answers(agents', r)
    BY <1>1, <1>2, CommandIs, AnswersKept
<1>3. CASE agents' = agents
    BY <1>3
<1> QED BY <1>2, <1>3, DeleteAnswers DEF CommandStep, Command, Confirm, FromPicker, Decide

\* "Every decision it has already made" stays answerable whatever a person commands: no rename,
\* consolidation, retirement, reinstatement or deletion leaves a row naming a judge nothing
\* resolves, where something did.  A claim's write of a record it read earlier is not among
\* them.
THEOREM CommandsKeepAnswers ==
    Spec => [][CommandStep => \A k \in rows : Answers(agents, k) => Answers(agents', k)]_vars
<1> DEFINE Answerable == CommandStep => \A k \in rows : Answers(agents, k) => Answers(agents', k)
<1>1. RosterInv /\ [Next]_vars => [Answerable]_vars
    BY CommandAnswers DEF RosterInv
<1> QED BY <1>1, RosterHolds, PTL DEF Spec

--------------------------------------------------------------------------------
(* One claim waiting at a time.                                              *)

OneClaim == \A c, d \in Claims : c = d

\* Whom a judge answers for.
Former(k) == IF k \in DOMAIN agents THEN agents[k].former ELSE {}

\* Whom k answered for once: no more than it does now, and with whoever those answer for.
Earlier(k, former) == former \subseteq Former(k) /\ \A i \in former : Former(i) \subseteq former

\* Absorption nests, and a claim that waits will write back a part of what its judge answers
\* for now.
NestInv ==
    /\ IsFiniteSet(DOMAIN agents)
    /\ \A k \in Ids : Former(k) \subseteq DOMAIN agents \ {k} /\ Earlier(k, Former(k))
    /\ \A c \in Claims : claim[c].at # "idle" => Earlier(claim[c].key, claim[c].held.former)

\* Of the judges that answer for an id the one that answers for most is absorbed by nobody.
LEMMA NestedAnswers ==
    ASSUME RosterTypes, NestInv, NEW r \in DOMAIN agents
    PROVE  Answers(agents, r)
<1> DEFINE S == {i \in DOMAIN agents : r \in agents[i].former}
           n == Cardinality(DOMAIN agents)
           size(i) == Cardinality(agents[i].former)
           T == {m \in Nat : \E i \in S : m = n - size(i)}
           R == OpToRel(<, Nat)
<1>1. DOMAIN agents \subseteq Ids /\ \A i \in DOMAIN agents : Former(i) = agents[i].former
    BY DEF RosterTypes, TypeOK, Former
<1>2. CASE S = {}
    BY <1>2 DEF Answers, Live
<1>3. CASE S # {}
  <2>1. \A i \in DOMAIN agents : size(i) \in Nat /\ n \in Nat /\ size(i) <= n
    <3> SUFFICES ASSUME NEW i \in DOMAIN agents PROVE size(i) \in Nat /\ n \in Nat /\ size(i) <= n
        OBVIOUS
    <3>1. agents[i].former \subseteq DOMAIN agents /\ IsFiniteSet(DOMAIN agents)
        BY <1>1 DEF NestInv
    <3> QED BY <3>1, FS_Subset, FS_CardinalityType
  <2>2. T \subseteq Nat /\ T # {}
    <3>1. PICK i \in S : TRUE
        BY <1>3
    <3>2. n - size(i) \in Nat
        BY <2>1
    <3> QED BY <3>1, <3>2
  <2>3. \A u, t \in Nat : u < t => <<u, t>> \in R
      BY DEF OpToRel
  <2>4. IsWellFoundedOn(R, Nat)
      BY NatLessThanWellFounded
  <2> HIDE DEF R, T
  <2>5. PICK t \in T : \A u \in T : <<u, t>> \notin R
      BY <2>2, <2>4, WFMin
  <2>6. PICK i \in S : t = n - size(i)
      BY <2>5 DEF T
  <2>7. \A m \in DOMAIN agents \ {i} : i \notin agents[m].former
    <3> SUFFICES ASSUME NEW m \in DOMAIN agents \ {i}, i \in agents[m].former PROVE FALSE
        OBVIOUS
    <3>1. /\ agents[i].former \subseteq agents[m].former /\ i \notin agents[i].former
          /\ agents[m].former \subseteq DOMAIN agents /\ IsFiniteSet(DOMAIN agents)
        BY <1>1 DEF NestInv, Earlier
    <3>2. m \in S
        BY <3>1
    <3>3. IsFiniteSet(agents[m].former)
        BY <3>1, FS_Subset
    <3>4. size(i) < size(m)
      <4>1. agents[i].former # agents[m].former
          BY <3>1
      <4>2. size(i) <= size(m) /\ size(i) # size(m)
          BY <3>1, <3>3, <4>1, FS_Subset
      <4> QED BY <2>1, <4>2
    <3>5. n - size(m) \in Nat /\ n - size(m) < t /\ t \in Nat
        BY <2>1, <2>2, <2>6, <3>4
    <3>6. n - size(m) \in T
        BY <3>2, <3>5 DEF T
    <3> QED BY <2>3, <2>5, <3>5, <3>6
  <2>8. i \in Live(agents) /\ r \in agents[i].former
      BY <2>7 DEF Live
  <2> QED BY <2>8 DEF Answers
<1> QED BY <1>2, <1>3

\* A judge nobody has absorbed that takes another in, or none.
LEMMA AbsorbNests ==
    ASSUME RosterTypes, NestInv, NEW k \in Live(agents), NEW record \in AgentRecord, Upsert(k, record),
           \/ record.former = agents[k].former
           \/ \E x \in Live(agents) \ {k} : record.former = agents[k].former \cup {x} \cup agents[x].former,
           \A c \in Claims : /\ claim'[c].at = claim[c].at /\ claim'[c].key = claim[c].key
                             /\ claim'[c].held = claim[c].held
    PROVE  NestInv'
<1>1. k \in DOMAIN agents /\ k \in Ids /\ DOMAIN agents \subseteq Ids
    BY LiveIs DEF RosterTypes, TypeOK
<1>2. /\ DOMAIN agents' = DOMAIN agents
      /\ \A j \in Ids : Former(j)' = IF j = k THEN record.former ELSE Former(j)
  <2>1. /\ DOMAIN agents' = DOMAIN agents \cup {k} /\ agents'[k] = record
        /\ \A j \in DOMAIN agents \ {k} : agents'[j] = agents[j]
      BY <1>1, UpsertIs
  <2> QED BY <1>1, <2>1 DEF Former
<1>3. \A y \in Live(agents) : y \in Ids /\ y \in DOMAIN agents /\ Former(y) = agents[y].former
                              /\ \A j \in Ids \ {y} : y \notin Former(j)
    BY <1>1 DEF Live, Former
<1>4. \A j \in Ids : Former(j) \subseteq DOMAIN agents \ {j} /\ Earlier(j, Former(j))
    BY DEF NestInv
<1>5. /\ Former(k) \subseteq record.former /\ record.former \subseteq DOMAIN agents \ {k}
      /\ \A i \in record.former : Former(i) \subseteq record.former
    BY <1>3, <1>4 DEF Earlier
<1>6. \A j \in Ids : Former(j)' \subseteq DOMAIN agents' \ {j} /\ Earlier(j, Former(j))'
    BY <1>1, <1>2, <1>3, <1>4, <1>5 DEF Earlier
<1>7. ASSUME NEW j \in Ids, NEW former, Earlier(j, former) PROVE Earlier(j, former)'
    BY <1>1, <1>2, <1>3, <1>4, <1>5, <1>7 DEF Earlier
<1>8. \A c \in Claims : claim[c].at # "idle" => claim[c].key \in Ids
    BY DEF RosterTypes
<1> QED BY <1>2, <1>6, <1>7, <1>8 DEF NestInv

\* A judge that answers for nobody and that nobody has absorbed goes.
LEMMA DeleteNests ==
    ASSUME RosterTypes, NestInv, NEW handle \in Ids, DeleteJudge(handle)
    PROVE  NestInv'
<1> PICK d : d = Resolve(agents, handle)
    OBVIOUS
<1>1. /\ d \in Live(agents) /\ agents[d].former = {} /\ claim' = claim
      /\ agents' = [j \in DOMAIN agents \ {d} |-> agents[j]]
    BY ResolveIs DEF DeleteJudge, session
<1>2. DOMAIN agents' = DOMAIN agents \ {d} /\ \A j \in Ids : Former(j)' = Former(j)
    BY <1>1 DEF Former, Live
<1>3. \A j \in Ids \ {d} : d \notin Former(j)
    BY <1>1 DEF Former, Live
<1>4. DOMAIN agents \subseteq Ids /\ IsFiniteSet(DOMAIN agents')
  <2>1. DOMAIN agents' \subseteq DOMAIN agents /\ IsFiniteSet(DOMAIN agents)
      BY <1>2 DEF NestInv
  <2> QED BY <2>1, FS_Subset DEF RosterTypes, TypeOK
<1>5. \A j \in Ids : Former(j)' \subseteq DOMAIN agents' \ {j}
    BY <1>1, <1>2, <1>3 DEF NestInv, Former
<1>6. ASSUME NEW j \in Ids, NEW former, Earlier(j, former) PROVE Earlier(j, former)'
  <2>1. former \subseteq Ids
      BY <1>4, <1>6 DEF Earlier, NestInv
  <2> QED BY <1>2, <1>6, <2>1 DEF Earlier
<1>7. \A j \in Ids : Earlier(j, Former(j))'
    BY <1>2, <1>6 DEF NestInv, Earlier
<1>8. \A c \in Claims : claim[c].at # "idle" => claim[c].key \in Ids
    BY DEF RosterTypes
<1> QED BY <1>1, <1>4, <1>5, <1>6, <1>7, <1>8 DEF NestInv

\* A claim that binds: its judge answers for what it did when the claim read it.
LEMMA FinishNests ==
    ASSUME OneClaim, RosterTypes, NestInv, NEW c \in Claims, NEW k \in Ids,
           NEW held \in AgentRecord \cup {NoAgent}, NEW handle \in Ids, NEW seat \in AnySeat,
           Earlier(k, held.former), Finish(c, k, held, handle, seat)
    PROVE  NestInv'
<1>1. PICK record \in AgentRecord : Upsert(k, record) /\ record.former = held.former
  <2>1. CASE held = NoAgent
    <3>1. [name |-> handle, former |-> {}, out |-> FALSE] \in AgentRecord
        BY DEF AgentRecord
    <3> QED BY <2>1, <3>1 DEF Finish, NoAgent
  <2>2. CASE held # NoAgent
      BY <2>2 DEF Finish
  <2> QED BY <2>1, <2>2
<1>2. PICK former : former = held.former
    OBVIOUS
<1>3. /\ DOMAIN agents' = DOMAIN agents \cup {k}
      /\ \A j \in Ids : Former(j)' = IF j = k THEN former ELSE Former(j)
  <2>1. /\ DOMAIN agents' = DOMAIN agents \cup {k} /\ agents'[k] = record
        /\ \A j \in DOMAIN agents \ {k} : agents'[j] = agents[j]
      BY <1>1, UpsertIs
  <2> QED BY <1>1, <1>2, <2>1 DEF Former
<1>4. DOMAIN agents \subseteq Ids /\ \A j \in Ids : Former(j) \subseteq DOMAIN agents \ {j} /\ Earlier(j, Former(j))
    BY DEF RosterTypes, TypeOK, NestInv
<1>5. former \subseteq Former(k) /\ \A i \in former : Former(i) \subseteq former
    BY <1>2 DEF Earlier
<1>6. IsFiniteSet(DOMAIN agents')
  <2>1. IsFiniteSet(DOMAIN agents)
      BY DEF NestInv
  <2> QED BY <1>3, <2>1, FS_AddElement
<1>7. ASSUME NEW j \in Ids
      PROVE  Former(j)' \subseteq DOMAIN agents' \ {j} /\ Earlier(j, Former(j))'
  <2>1. Former(j)' \subseteq DOMAIN agents' \ {j}
      BY <1>3, <1>4, <1>5
  <2>2. ASSUME NEW i \in Former(j)' PROVE Former(i)' \subseteq Former(j)'
    <3>1. i \in Ids /\ i # j /\ Former(i)' \subseteq Former(i)
        BY <1>3, <1>4, <1>5, <2>1
    <3>2. CASE j = k
        BY <1>3, <1>5, <2>2, <3>1, <3>2
    <3>3. CASE j # k
      <4>1. i \in Former(j) /\ Former(j)' = Former(j) /\ Former(i) \subseteq Former(j)
          BY <1>3, <1>4, <2>2, <3>3 DEF Earlier
      <4> QED BY <3>1, <4>1
    <3> QED BY <3>2, <3>3
  <2> QED BY <2>1, <2>2 DEF Earlier
<1>8. \A d \in Claims : claim'[d].at = "idle"
  <2>1. claim' = [claim EXCEPT ![c] = Idle] /\ \A d \in Claims : d = c
      BY DEF Finish, Bind, OneClaim
  <2> QED BY <2>1, IdleIs DEF RosterTypes
<1> QED BY <1>6, <1>7, <1>8 DEF NestInv

LEMMA RefuseNests ==
    ASSUME RosterTypes, NestInv, NEW c \in Claims, Refuse(c)
    PROVE  NestInv'
<1>1. agents' = agents /\ claim' = [claim EXCEPT ![c] = Idle]
    BY DEF Refuse
<1>2. \A d \in Claims : claim'[d] = IF d = c THEN Idle ELSE claim[d]
    BY <1>1 DEF RosterTypes
<1> QED BY <1>1, <1>2, IdleIs DEF NestInv, Earlier, Former

\* A claim past its question is refused, binds, or waits on with what it read.
LEMMA SettleNests ==
    ASSUME OneClaim, RosterTypes, NestInv, NEW c \in Claims, NEW k \in Ids,
           NEW held \in AgentRecord \cup {NoAgent}, NEW handle \in Ids, NEW seat \in AnySeat,
           NEW chosen \in BOOLEAN, NEW list,
           Earlier(k, held.former), Settle(c, k, held, handle, seat, chosen, list)
    PROVE  NestInv'
<1>1. CASE Finish(c, k, held, handle, seat)
    BY <1>1, FinishNests
<1>2. CASE Refuse(c)
    BY <1>2, RefuseNests
<1>3. CASE /\ claim' = [claim EXCEPT ![c] = [Idle EXCEPT !.at = "wording", !.handle = handle,
                          !.key = k, !.held = held, !.seat = seat]]
           /\ agents' = agents
  <2> DEFINE r == [Idle EXCEPT !.at = "wording", !.handle = handle, !.key = k, !.held = held, !.seat = seat]
  <2>1. r.key = k /\ r.held = held
      BY DEF Idle
  <2> HIDE DEF r
  <2>2. \A d \in Claims : claim'[d] = IF d = c THEN r ELSE claim[d]
      BY <1>3 DEF RosterTypes, r
  <2>3. \A d \in Claims : claim'[d].at # "idle" => Earlier(claim'[d].key, claim'[d].held.former)
      BY <2>1, <2>2 DEF NestInv
  <2> QED BY <1>3, <2>3 DEF NestInv, Earlier, Former
<1> QED BY <1>1, <1>2, <1>3 DEF Settle

\* What a claim reads of a judge, or of one there is none of.
LEMMA ReadIsEarlier ==
    ASSUME RosterInv, NestInv, NEW handle, NEW k \in Ids,
           Resolve(agents, handle) # NoId => k = Resolve(agents, handle)
    PROVE  Earlier(k, Held(agents, Resolve(agents, handle)).former)
<1>1. CASE Resolve(agents, handle) # NoId
  <2>1. k \in DOMAIN agents /\ Held(agents, Resolve(agents, handle)) = agents[k]
      BY <1>1, HeldIs DEF Held
  <2>2. Earlier(k, Former(k)) /\ Former(k) = agents[k].former
      BY <2>1 DEF NestInv, Former
  <2> QED BY <2>1, <2>2
<1>2. CASE Resolve(agents, handle) = NoId
    BY <1>2 DEF Held, NoAgent, Earlier
<1> QED BY <1>1, <1>2

LEMMA StartNests ==
    ASSUME OneClaim, RosterInv, NestInv, NEW c \in Claims, NEW handle \in Ids, NEW seat \in AnySeat,
           StartClaim(c, handle, seat)
    PROVE  NestInv'
<1> DEFINE existing == Resolve(agents, handle)
           key == IF existing # NoId THEN existing ELSE handle
           held == Held(agents, existing)
<1>1. key \in Ids /\ held \in AgentRecord \cup {NoAgent} /\ RosterTypes
    BY HeldIs DEF RosterInv
<1>2. Earlier(key, held.former)
    BY <1>1, ReadIsEarlier
<1>3. CASE Settle(c, key, held, handle, seat, FALSE, confirmations)
  <2> HIDE DEF existing, key, held
  <2>1. FALSE \in BOOLEAN
      OBVIOUS
  <2> QED BY <1>1, <1>2, <1>3, <2>1, SettleNests
<1>4. CASE /\ claim' = [claim EXCEPT ![c] = [at |-> "asked", handle |-> handle, key |-> key,
                              held |-> held, seen |-> approved,
                              confirmed |-> confirmations, seat |-> seat, rounds |-> 0]]
           /\ agents' = agents
  <2> HIDE DEF existing, key, held
  <2>1. \A d \in Claims : \/ claim'[d] = claim[d]
                          \/ claim'[d].key = key /\ claim'[d].held = held
      BY <1>1, <1>4 DEF RosterTypes
  <2>2. \A d \in Claims : claim'[d].at # "idle" => Earlier(claim'[d].key, claim'[d].held.former)
      BY <1>2, <2>1 DEF NestInv
  <2> QED BY <1>4, <2>2 DEF NestInv, Earlier, Former
<1> QED BY <1>3, <1>4 DEF StartClaim

LEMMA AnswerNests ==
    ASSUME OneClaim, RosterInv, NestInv, NEW c \in Claims, NEW chosen \in Ids, Answer(c, chosen)
    PROVE  NestInv'
<1> DEFINE existing == Resolve(agents, chosen)
           held == Held(agents, existing)
<1>1. PICK key \in Ids : /\ Settle(c, key, held, chosen, claim[c].seat, TRUE, claim[c].confirmed)
                         /\ existing # NoId => key = existing
  <2>1. PICK key \in Ids, read \in AgentRecord \cup {NoAgent} :
                /\ Settle(c, key, read, chosen, claim[c].seat, TRUE, claim[c].confirmed)
                /\ read = held
                /\ existing # NoId => key = existing
      BY AnswerIs
  <2> HIDE DEF held, existing
  <2> QED BY <2>1
<1>2. held \in AgentRecord \cup {NoAgent} /\ claim[c].seat \in AnySeat /\ RosterTypes /\ TRUE \in BOOLEAN
    BY HeldIs, ListsAre DEF RosterInv
<1>3. Earlier(key, held.former)
    BY <1>1, ReadIsEarlier
<1> HIDE DEF held, existing
<1> QED BY <1>1, <1>2, <1>3, SettleNests

LEMMA NoChannelNests ==
    ASSUME OneClaim, RosterInv, NestInv, NEW c \in Claims, NoChannel(c)
    PROVE  NestInv'
<1>1. /\ claim[c].seat \in AnySeat /\ claim[c].key \in Ids /\ claim[c].handle \in Ids
      /\ claim[c].held \in AgentRecord \cup {NoAgent} /\ FALSE \in BOOLEAN /\ RosterTypes
      /\ Earlier(claim[c].key, claim[c].held.former)
    BY ListsAre DEF NoChannel, RosterInv, NestInv
<1>2. CASE Settle(c, claim[c].key, claim[c].held, claim[c].handle, claim[c].seat, FALSE, claim[c].confirmed)
    BY <1>1, <1>2, SettleNests
<1>3. CASE Refuse(c)
    BY <1>1, <1>3, RefuseNests
<1> QED BY <1>2, <1>3 DEF NoChannel

LEMMA WordingNests ==
    ASSUME OneClaim, RosterInv, NestInv, NEW c \in Claims, AnswerWording(c)
    PROVE  NestInv'
<1>1. /\ claim[c].seat \in AnySeat /\ claim[c].key \in Ids /\ claim[c].handle \in Ids
      /\ claim[c].held \in AgentRecord \cup {NoAgent} /\ RosterTypes
      /\ Earlier(claim[c].key, claim[c].held.former)
    BY ListsAre DEF AnswerWording, RosterInv, NestInv
<1> QED BY <1>1, FinishNests DEF AnswerWording

LEMMA CommandNests ==
    ASSUME RosterInv, NestInv, NEW handle \in Ids,
           \/ Command(handle)
           \/ \E c \in Claims : FromPicker(c, handle)
    PROVE  NestInv'
<1>1. RosterTypes
    BY DEF RosterInv
<1>2. PICK k \in Live(agents), record \in AgentRecord :
              /\ Upsert(k, record)
              /\ \/ record.former = agents[k].former
                 \/ \E x \in Live(agents) \ {k} : record.former = agents[k].former \cup {x} \cup agents[x].former
    BY <1>1, CommandIs DEF Command, FromPicker
<1>3. \A c \in Claims : /\ claim'[c].at = claim[c].at /\ claim'[c].key = claim[c].key
                        /\ claim'[c].held = claim[c].held
  <2>1. CASE claim' = claim
      BY <2>1
  <2>2. ASSUME NEW c \in Claims, claim' = [claim EXCEPT ![c].rounds = @ + 1]
        PROVE  \A d \in Claims : /\ claim'[d].at = claim[d].at /\ claim'[d].key = claim[d].key
                                 /\ claim'[d].held = claim[d].held
      BY <1>1, <2>2 DEF RosterTypes, ClaimRecord
  <2> QED BY <2>1, <2>2 DEF Command, FromPicker, session
<1> QED BY <1>1, <1>2, <1>3, AbsorbNests

LEMMA NextNests ==
    ASSUME OneClaim, RosterInv, NestInv, [Next]_vars
    PROVE  NestInv'
<1>1. RosterTypes
    BY DEF RosterInv
<1>2. CASE agents' = agents /\ claim' = claim
    BY <1>2 DEF NestInv, Earlier, Former
<1>3. ASSUME NEW c \in Claims,
             \/ \E h \in Ids, s \in AnySeat : StartClaim(c, h, s)
             \/ \E h \in Ids : Answer(c, h)
             \/ Decline(c) \/ NoChannel(c) \/ AnswerWording(c)
      PROVE  NestInv'
    BY <1>1, <1>3, StartNests, AnswerNests, NoChannelNests, WordingNests, RefuseNests DEF Decline
<1>4. ASSUME NEW h \in Ids, Command(h) \/ DeleteJudge(h) \/ \E c \in Claims : FromPicker(c, h)
      PROVE  NestInv'
    BY <1>1, <1>4, CommandNests, DeleteNests
<1>5. ASSUME NEW h \in Ids, Confirm(h) \/ \E s \in AnySeat : Decide(h, s)
      PROVE  agents' = agents /\ claim' = claim
    BY <1>5 DEF Confirm, Decide, session
<1> QED BY <1>2, <1>3, <1>4, <1>5 DEF Next, vars, store, session

LEMMA InitNests == Init => NestInv
<1> SUFFICES ASSUME Init PROVE NestInv
    OBVIOUS
<1>1. DOMAIN agents = {} /\ \A c \in Claims : claim[c].at = "idle"
    BY IdleIs DEF Init
<1> QED BY <1>1, FS_EmptySet DEF NestInv, Earlier, Former

\* Only a deletion takes a record away, of a judge no row names.
LEMMA RecordsStay ==
    ASSUME RosterInv, [Next]_vars, NEW k \in rows, k \in DOMAIN agents
    PROVE  k \in DOMAIN agents'
<1>1. ASSUME NEW h \in Ids, DeleteJudge(h) PROVE k \in DOMAIN agents'
    BY <1>1 DEF DeleteJudge
<1>2. ASSUME NEW j, NEW record, Upsert(j, record) PROVE k \in DOMAIN agents'
    BY <1>2 DEF Upsert
<1>3. ASSUME NEW c, NEW j, NEW held, NEW handle, NEW seat, NEW chosen, NEW list,
             Settle(c, j, held, handle, seat, chosen, list)
      PROVE  agents' = agents \/ \E record : Upsert(j, record)
    BY <1>3 DEF Settle, Refuse, Finish
<1>4. CASE agents' = agents
    BY <1>4
<1>5. ASSUME NEW c \in Claims,
             \/ \E h \in Ids, s \in AnySeat : StartClaim(c, h, s)
             \/ \E h \in Ids : Answer(c, h)
             \/ Decline(c) \/ NoChannel(c) \/ AnswerWording(c)
      PROVE  k \in DOMAIN agents'
    BY <1>2, <1>3, <1>5 DEF StartClaim, Answer, Decline, NoChannel, AnswerWording, Refuse, Finish
<1>6. ASSUME NEW h \in Ids, Command(h) \/ \E c \in Claims : FromPicker(c, h)
      PROVE  k \in DOMAIN agents'
    BY <1>2, <1>6 DEF Command, FromPicker, RetireJudge, ReinstateJudge, SetRetired, RenameJudge
<1> QED BY <1>1, <1>4, <1>5, <1>6 DEF Next, Confirm, Decide, vars, store

EveryoneAnswers == \A k \in DOMAIN agents : Answers(agents, k)

\* A row whose judge has an answer is of a judge that has a record, and keeps it.
LEMMA NestedRowsAnswer ==
    ASSUME RosterInv, NestInv, [Next]_vars, EveryoneAnswers', NEW k \in rows, Answers(agents, k)
    PROVE  Answers(agents', k)
<1>1. k \in DOMAIN agents
  <2>1. PICK j \in Live(agents) : k = j \/ k \in agents[j].former
      BY DEF Answers
  <2>2. j \in DOMAIN agents /\ j \in Ids /\ Former(j) = agents[j].former
      BY LiveIs DEF Former, RosterInv, RosterTypes, TypeOK
  <2> QED BY <2>1, <2>2 DEF NestInv
<1>2. k \in DOMAIN agents'
    BY <1>1, RecordsStay
<1> QED BY <1>2 DEF EveryoneAnswers

\* "Every decision it has already made" stays answerable, whatever one claim that waits on the
\* user writes back and whatever is renamed, consolidated, retired or deleted while it waits.  With
\* two claims waiting it is false: each may write back a judge that answers for the other.
THEOREM AnswersStay == OneClaim => (Spec => RowsStayAnswered)
<1> SUFFICES ASSUME OneClaim PROVE Spec => RowsStayAnswered
    OBVIOUS
<1> DEFINE Answerable == \A k \in rows : Answers(agents, k) => Answers(agents', k)
<1>1. RosterInv /\ NestInv /\ [Next]_vars => NestInv'
    BY NextNests
<1>2. RosterInv /\ NestInv => EveryoneAnswers
    BY NestedAnswers DEF RosterInv, EveryoneAnswers
<1>3. RosterInv /\ NestInv /\ EveryoneAnswers' /\ [Next]_vars => [Answerable]_vars
    BY NestedRowsAnswer
<1> QED BY <1>1, <1>2, <1>3, InitNests, RosterHolds, PTL DEF Spec, RowsStayAnswered

==============================================================================

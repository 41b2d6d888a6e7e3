# Epimemer, in TLA+

Epimemer keeps an agent's memory as a graph of documents, facts, inferences and topics, serves it over
MCP, and lets a person watch it in a dashboard. These modules model the parts of it whose correctness
depends on order: who may move the active graph and when, what happens to an operation when the
connection under it is lost, and how a claim leaves the active set and comes back. Every definition is
translated from the source; `PROJECT.json` names the lines.

Run a model with `tlc -config X.cfg M`, check the proofs with `tlapm M.tla`.

## The system

| part | state it keeps | operations | hard because | correct when |
|---|---|---|---|---|
| Graph guard `storage/active_graph.py` | a lock and its queue, a count, an event | `using`, `moving` | tasks interleave at every await and may be cancelled there | a move excludes everyone, wakeups are not lost, movers are not starved |
| SurrealDB connection `storage/surrealdb_adapter.py` | the connection in use, the one known lost, the graph selected | `_call`, `_reconnect`, `connect`, `_use`, `switch_database`, `_borrowed` | one connection for all tasks; sockets are lost, the server is away, calls time out | an operation's statements run in one graph, a rebuild lands on it, nothing deadlocks |
| Node lifecycle `mcp/tools.py`, `versioning.py`, `storage/memory.py` | status, episodes, merge payloads, edges | `update`, `supersede_by`, `merge_facts`, `merge_inferences`, `reverse_merge`, archival, `restore` | a call reads, awaits, then writes what it planned; others run beside it | nothing is lost, a reversal restores, a wrong claim stays gone, lineage is whole |
| Session gate and judges `mcp/server.py` | the bound judge, tokens, seats | every tool call | the gate reads graph state before the turn is taken | a write is credited to a judge its graph approves, in the graph the agent named |
| Judge roster `mcp/tools.py` | agents, approvals, confirmations | `claim_agent`, rename, merge | waits for a person without a turn | one judge per key, approval per graph |
| Dashboard hub `visualization/hub.py` | sessions, pending RPCs, browsers | register, RPC, relay, disconnect | a reconnect replaces a slot while RPCs pend on it | each RPC is answered once or failed, the active graph shown is the session's |
| Dashboard client, bus, ring | a bounded queue, a ring | publish, send, re-register | events dropped when full, sockets lost | order kept, the dashboard converges |
| Reflection: the archival worklist `pipelines/reflection` | an append-only journal, settings, the round | nominate, keep, defer, reopen, complete a round | spans many rounds; each step reads, then writes later | a new reason is always shown, a deferral ends |
| Reflection: similarity decisions | verdicts on pairs | nominate, judge | wording changes under a verdict | judged pairs stay quiet until their wording changes |
| Reflection: other passes | none of their own | nominate, `apply_reflection` | one batch of many steps | each step applied once or said to be skipped |
| Timelines `pipelines/timeline` | events, relations, recurrence rules | order, recur | partial orders from fuzzy intervals | consistent orders, contradictions found |
| Metacontexts | bases | inherit | cycles | acyclic, inherited once |
| Retrieval `pipelines/query`, `mcp/tools.py` | none | search, fuse, fold, expand, widen, stamp | several reads of a graph that changes; lineage may branch or cycle | no answer is lost to the fold or a cut, nothing is returned that was never admissible |
| Transfer `pipelines/transfer.py` | bundles, one per graph and day | back up, prune, import | reads query by query beside writes; fails part way | a backup is whole, a good one is kept, an import is all or nothing |
| Review mode | decisions reviewed | nominate, apply | another graph's journal, through a borrow | reviewed once |
| Segmentation, ingest | segments, nodes | split, write a batch | string work | segments partition the text |
| Postgres `storage/postgres_adapter.py` | rows, one connection and one lock per process | the storage protocol | several processes; a retry whose first try may have landed | no committed write is lost or written over |
| SQLite, schema migration | rows, a version marker | the same protocol | restart between steps | the same answers as memory; idempotent steps |
| Instrumented storage, CLI, configuration, embeddings, logging, frontend | - | - | - | not modelled, see below |

The server runs all tool calls of a session as tasks of one event loop over one storage backend. Each
call takes a turn from the backend's guard (`_graph_turn`): a user's for ordinary tools, a mover's for
`use_graph` and review. The dashboard client answers the hub's RPCs on the same loop, as a mover.
Within its turn a call awaits the backend wherever the backend does I/O, and users' turns overlap.

## The modules

**GraphGuard** is `make_graph_guard`: its locals are the variables `lock` and `queue` (the turnstile),
`users`, `idle`; `pc` is where each task is. One action per stretch of code between two awaits:
`EnterFree`, `Enqueue`, `EnterQueued` (the lock's three ways in), `Resume` (the event's), `LeaveUsing`,
`LeaveMoving`, and the two cancellations. asyncio's lock and event are modelled as the guard uses
them; a waiter of the event does not look at it again when it resumes, so the safety of `Resume` is a
property of the guard. Re-entrancy is a task that stays "in".

**ActiveGraph** is what the guard's docstring promises, without a guard: an operation begins and ends
in the graph it began in; a graph moves in a turn nobody else shares.

**GuardedGraph** puts the guard to its use: turns of tool calls (which record the graph they began
in), a switch of the session's graph, and the borrow and giving back of SurrealDB's one connection.
`TurnOf` is the refinement mapping's only definition; `ImplementsActiveGraph` is a property of the run.

**SurrealConnection** is `_call` and all it leads to, over a real network. It takes turns as ActiveGraph
promises. `wire` and `alive` are the server's side of every connection opened; `db`, `dropped`,
`rebuilder`, `selected`, `database` are the adapter's fields; `pc`, `at`, `last` are one call's progress
through `_call` and `_reconnect`, and `stage` the sequence of calls a turn makes (a tool's statements; a
switch's `_use`, schema and pointing back; a borrow's `_use`, read and giving back). A statement in
flight on a lost socket has run or has not. `Sdks` tells the two SDKs apart.

**NodeLifecycle** is the retirement and return of claims. Each tool call is two or more actions: a plan
that reads the graph, and a commit that is one `_tx` method of the backend and does not look at the
plan's premises again. `call` holds what was planned between them. A merge is gate, embedding, capture,
commit, the walk that evicts deep payloads, and a write for each; a reversal is refusal check, second
read, commit. Edges are (source, destination, type) triples, which is what `_migrate_edges_inplace`
collapses them to. `before` is a history variable: the edges a merge was about to move. The
transactions are those of `storage/memory.py`. There the loop cannot suspend between plan and commit
except at an embedding; the Postgres and SurrealDB backends suspend at every read, which is what the
run with two calls shows.

**JudgeRoster** is a graph's judges: records, approved ids, confirmations per seat, and the claims by
which an agent becomes one. A step runs from one question to the user to the next; what a claim read
before a question it uses after it. Beside it the commands of the CLI (`Command`, `Confirm`,
`DeleteJudge`), which is another process on the same store. `given` and `answered` are history variables.

**SessionGate** is what every tool call passes: the wrong-graph gate (twice), the judge looked up
before the turn is asked for, the turn, the work, the response and its record, the timeout; and the
calls that move what the gate reads: `use_graph`, `delete_graph`, `claim_agent`, the dashboard's
borrow. Its turns are the instance `Turn` of ActiveGraph, over the same three variables, so
GuardedGraph's refinement is what entitles it to them.

**VizHub** is one session's dashboard client, the hub and the browsers. The client's queue and its
sockets, what each socket carries unread, the hub's one slot with its two rings, its drop timer, the
reads pending on it, the browsers' subscriptions and backlogs. Sockets are lost at either end at
different moments; the hub may go down with everything it holds. One assumption: the hub reads a
connection's registration before anything a later connection sends.

**GraphTransfer** is a backup (each section of the bundle read, the file opened and written, the counter
zeroed, older bundles pruned, each an action of its own) beside stores and changes of status, and an
import (check, switch, write, settings, verify, drop) as a process of its own beside the server at work
in a graph of the same name. A write may fail and a process may be killed at any step.

**ArchivalWorklist** is what `reflect` offers for archival and why: the journal `rows` is replayed by
`Standing`, as the code replays it, and each step of `apply_reflection` is a read and a
write with other tasks between. `raised` and `since` are history variables.

**PostgresServers** is seven operations of the adapter, statement by statement, in several processes:
the process's lock, the one more try on a fresh connection, the locks and versions that keep two
processes apart. The database is external: read committed, locks granted or waited for, a deadlock
broken by an abort, a lost connection's transaction rolled back, or committed with the reply lost. An
archival takes its nodes in any order. `landed`, `bumps` and `cleared` are history variables: whose
write is in the store, how many stores were counted, and how many of those the rounds completed
returned.

**Retrieval** is one search: both arms with each of their reads, the fusion of their rankings, the fold
of retired versions, the cuts, the expansion, the widening of a scoped search, and the stamp written
to each node returned, with one write of another call between any two of them. What the graph has been
through before the search is steps of its own (`WriteBefore`). A score adds what each ranking gives,
as a whole number of parts (`Unit` is a multiple of each k + rank), so ties are ties.

`MCNodeLifecycle`, `MCPostgres` and `MCRetrieval` give instances; the other configurations are on the
modules themselves. Definitions marked `Mutant:` are plausible errors in the definition that follows;
each property is broken by one, and none is used by a specification.

### How they compose

GraphGuard is shown, by TLC and by proof, to implement ActiveGraph inside GuardedGraph.
SurrealConnection and SessionGate take their turns from ActiveGraph: what they show, they show of a
system with the guard in it. JudgeRoster is one graph's side of `claim_agent`; SessionGate sees of it
the set of approved judges. VizHub's reads land in SessionGate as the borrow. GraphTransfer,
ArchivalWorklist, PostgresServers and Retrieval share no variable: each has beside it what the others
would do to its state, as an action (`Move`, `Supersede`, `Merge`, `WriteBeside`).

## The runs

| run | instance | states | shows |
|---|---|---|---|
| MCGuardedGraph | 3 users, 3 movers, 2 graphs, fair | 15,604 | the guard is sound, no operation sees the graph move, borrows are given back, nobody overtakes a waiting mover, every turn asked for is granted; implements ActiveGraph |
| SurrealSession | both SDKs, 2 users, a switch, a borrow, a graph too new, 2 faults, fair | 148,620 | one graph per operation, the wire is where the adapter believes, one rebuild a loss, every call ends |
| LifecycleSession | 3 facts, 1 call at a time, 4 calls | 72,535 | statuses, episodes, lineage, payloads, flags; a reversal restores |
| LifecycleTogether | 2 calls at a time, 3 calls | 123,451 | the depth of undo holds whatever interleaves |
| JudgeRoster | 1 waiting claim, 2 names, 2 keys, 2 seats, 4 steps | 575,582 | whom a token names was asked about in that seat and approved; every row's judge still resolves |
| SessionGate | 2 calls at a time, 4 in all, 2 graphs, 2 judges, 2 seats, 1 dashboard read or change of seat | 2,854,124 | a decision is in the graph its call named, credited to its token's judge or nobody; the active graph exists; a response is recorded where it ran |
| VizHub | 1 browser, 1 caller, 3 sockets, 2 events, 1 crash of the hub, fair | 461,291 | a browser misses nothing, no read waits on the gone, a reconnect keeps session and rings, the session is listed in the end |
| GraphTransfer | 2 nodes, 2 days, 2 backups, 1 change of status, 1 import, 1 fault | 2,186,271 | a quiet backup is whole and survives pruning; an import that succeeds is its bundle, one that fails leaves nothing |
| ArchivalWorklist | 2 callers, 2 calls, 2 moves, 2 rounds, cap 2 | 1,325,424 | a new reason outranks any verdict, a deferral ends within the cap, reopening withdraws |
| PostgresServers | 2 processes, 3 calls each any of 7 operations, 1 connection lost, 1 call cut, fair | 693,588 | episodes, counts and labels lose no committed write, a timeline is not overwritten, a re-cut spares what is cited, every call ends |
| Retrieval | 10 searches over every lineage of 3 nodes, 1 write | 776,071 | nothing is returned that was never admissible, the fold loses no answer, a declared hit survives, a scoped search is exhaustive |
| SearchRevives | the same | a counterexample | a search's stamp undoes a retirement (below) |

Several properties are conjunctions of named parts, one line each where they are defined:
`GuardIsSound` (`GraphTypeOK`, `TurnExclusion`, `CountIsUsersIn`, `TurnstileHeld`, `QueueIsQueued`,
`WakeupIsComing`), `ConnectionIsSound` (`TypeOK`, `OneRebuildPerLoss`), `StandingIsSound` (`TypeOK`,
`OneOpenEpisode`, `NoRouteBack`, `SourcesStayMerged`), `EdgesAreSound` (`LineageIsWhole`,
`NoDanglingEdge`, `MergedKeepNothing`), `UndoIsSound` (`CaptureIsCurrent`, `CyclesAreBounded`),
`RosterIsSound`, `BindingsAreApproved`, `SessionIsSound`, `HubIsSound`, `SessionOutlivesItsSocket`,
`TransferIsSound`, `WorklistIsSound`, `NothingIsLost`, `NothingIsOverwritten`, `AnswerIsSound`.

### Bounds

- Guard: the code has no parameter, and a task's behaviour does not depend on how many others there
  are beyond none, one and some. The proofs hold for any number.
- SurrealConnection: two faults, shared by losses, rebuilds that find the server away and cancellations,
  give a loss during the rebuild of another, a failed rebuild a later call repeats, a cancellation
  before or after a loss; two users the race for the lock. Only users are cancelled: see below.
- NodeLifecycle: four calls in a row reach merge, reverse, merge again, and retire, restore, retire,
  merge; three with two at a time reach a merge beside its reversal and any third call. Three facts
  with two ids for survivors give a merge of a survivor. `CycleLimit` and `UndoDepth` are 1, so the
  second cycle and the second merge meet the limit. `NamesRetired` is FALSE: callers of `update` and
  `supersede_by` name active nodes. `CyclesAreBounded` is claimed for one call at a time: merges gated
  together can pass the limit by one.
- JudgeRoster: one claim waits while up to three other claims, commands or decisions run; `Kept` 1 makes
  the second confirmation push the first out; the two seats may be exchanged.
- SessionGate: four calls with two in flight reach a write that meets a switch, a deletion of the graph it
  names and the graph's creation again.
- VizHub: three sockets give a reconnect and one more after it; a queue of 1, rings of 2 and 1 and two
  events meet every limit.
- GraphTransfer: two days and `Keep` 1 make the second backup prune the first or replace it.
- ArchivalWorklist: the cap is 2, so the second round after a deferral is the one it must end by.
- PostgresServers: three calls put two in one process and one beside them; two nodes archived in either
  order meet the database's deadlock. The two calls of one process and the two nodes may be exchanged:
  `MCInit` keeps one of each pair of initial states.
- Retrieval: three nodes are the fewest with a lineage of two steps, a fork or a cycle with a tail.
  `MaxHistory` 3 reaches every lineage over them that supersessions can make.

In every module but GuardedGraph and SurrealConnection a session may end, or a bound stop it, so those
runs do not look for deadlock; `CallsEnd`, `TurnIsGranted` and `SessionIsListed` say what must not hang.

### Fairness

GuardedGraph: a task at the head of a free turnstile runs, a woken one runs, a body ends, a borrow is given
back. The event loop runs ready tasks; `_run_with_timeout` ends bodies. A mover's body may borrow again
between, hence strong fairness of its end. SurrealConnection: a ready task runs and the network answers
or is found lost. VizHub: the client dials and sends, the socket of a hub that is down is lost, the hub's
handlers read; nothing restarts the hub, so `SessionIsListed` speaks of behaviours in which it is up from
some time on. PostgresServers: some call advances while one can. Losses, refusals, crashes,
cancellations and new calls are owed nowhere.

## The finding

`SearchRevives`: `_record_retrieval` stamps every node a search returns by writing the node back whole,
as the search read it. A call that retires the node between the search's read and the stamp is undone:
the claim is active again with its lineage edge in place. `_historical_twins` says reactivation stays
explicit, and `retrieved_signal` that a retrieval must not restate a judgment.

## Disagreements met while modelling

Seen while translating, each with the lines; the models take the code as it is, and the properties or
the instances are drawn so as to say something true beside them.

Node lifecycle (`mcp/tools.py`, `storage/memory.py`):
- a corrected claim that is named to `update` or `supersede_by` is retired again as historical, and is
  then restorable; a node retired twice keeps its first episode open (the runs set `NamesRetired` FALSE);
- with two calls together: a node can be superseded by one a reversal has just destroyed, a contradiction
  recorded between a reversal's two edge reads is deleted with the survivor, an eviction writes an
  ancestor back over its newer history, an edge written during a merge is in no payload.

SurrealDB connection (`storage/surrealdb_adapter.py`):
- a borrow whose giving back fails leaves `_selected` on the borrowed graph; a switch cancelled before
  its refusal stays on a graph it cannot read; a USE cancelled in flight has moved the wire with nothing
  recorded (so movers are not in `Cancellable`).

Judges and session (`mcp/server.py`, `mcp/tools.py`):
- the memo of the last claim carries a claim across a seat that is unknown (server.py:4657-4679);
- a claim that waited on the user writes the record it read back, undoing a rename made meanwhile;
- `claim_agent` takes no turn (server.py:457), so an approval may land in the graph the session is on
  when the user answers; `use_graph` clears a binding made meanwhile, and the claim's memo is keyed on
  the graph of the end, not of the start;
- `delete_graph` refuses the active graph of its own session only (tools.py:2504);
- two claims that wait on the user together can undo a consolidation between them: A claims k2 and
  waits, k1 is consolidated into k2, B claims k2 and waits, A is answered and writes k2 back without
  k1, k2 is consolidated into k1, B is answered and writes k2 back with k1. Each judge then lists the
  other as absorbed, and neither is found. `RowsStayAnswered` is checked with one claim waiting.

Dashboard (`visualization/`):
- a `graph_switched` dropped by the full queue leaves the hub's active graph stale until the next
  registration (hub_client.py:144, 187); a read pending on a slot a reconnect replaced waits for its
  timeout (hub.py:350).

Transfer (`pipelines/transfer.py`, `mcp/tools.py`):
- an export reads its sections one by one (337-357) where the module's head speaks of a snapshot (3-9);
  `QuietBackupIsWhole` is claimed for a backup nothing wrote during;
- a store landing between the export and `reset_backup_counter` is no longer counted (tools.py:9433);
- opening today's bundle truncates the last good one of the same day (595);
- the import's `except Exception` misses a cancellation, and its cleanup deletes by name (849-851).

Worklist (`pipelines/reflection/`):
- a second archival of the same node (archival.py:318-324); a resolution listed as accepted
  (review.py:345-346); two deferrals that interleave double the wait. The cap holds all the same.

Postgres (`storage/postgres_adapter.py`):
- "the transaction went with the socket, and Postgres rolled it back" (1231) is not so when what was lost
  is the reply to the commit: a verdict is then reported as failed though it landed. Two limits the
  code states itself are in the properties: a count whose reply was lost is made twice (1225-1229;
  `StoresCountOnce` allows one a loss), and a decomposition in flight cites passages a re-cut deleted
  (protocol.py:1150-1153; `RecutSparesTheCited` speaks of claims committed before).

Metacontexts and decisions:
- a reassignment deletes before it stores; `assign="unvouched"` is not refused (tools.py:1134-1138);
  two interleaved `set_metacontext_base` can close a cycle (tools.py:3284-3286, types.py:674); two
  interleaved `distinct` journal two retractions.

Retrieval:
- lineage that both cycles and forks loses the answers at both ends of two walks (`HistoryFolds` leaves
  it out); with two node kinds, `fuse_seeds` fetches back what the arms excluded
  (hybrid_retrieval.py:195-207, 310-322); a node read again at fusion is not gated on its status again,
  which is why `GatedWhenFound` says "at some moment of the search"; a claim in a search's scope folded
  into a successor outside it is dropped from the scoped answer (`ScopeIsSearchedThrough` says so).

## The proofs

Each proof module EXTENDS the component's module, states the inductive invariant its theorems rest on, and
has one lemma per action that the action keeps it. The invariants were model-checked as invariants of
the runs above before they were proved (that of `HistoryInv` with the rank as a history variable). No
property below is inductive alone. Every safety property of the passing runs is stated by a theorem.

**GraphProofs**, the guard: for any finite sets of users and movers and any graphs, the guard's six invariants
one by one, `GuardStaysSound` (`GuardIsSound`), `MoversPreferred`, `GraphIsSteady` (`SteadyWhileUsed`),
`BorrowsComeBack` (`BorrowsAreReturned`) and the refinement `GuardKeepsPromise`
(`ImplementsActiveGraph`). `Inv` is the conjunction of `TypeOK`, `TurnstileHeld`, `CountIsUsersIn`,
`WakeupIsComing` and `Lists(queue, Queued)`: `WakeupIsComing` needs `TurnstileHeld` (only the holder
waits) and the count, the count needs the queue (a task whose turn comes is not inside already), and
exclusion follows from all of them. Lemmas on `Append`, `Tail` and `RemoveAt` say what each does to
`Lists`. `GraphInv` adds that only a mover inside has borrowed, and from the session's graph, so that its
giving back restores it, and that a user's `seen` is the selection.

**GraphProofs**, transfer: for any nodes, days, bundles kept, changes and faults, `BackupsAreTyped`,
`QuietBackupsAreWhole` (`QuietBackupIsWhole`) and `PrunesSpareTheNewest` (`PruneSparesTheNewest`, an
action property). `BackupInv` says, section by section, that what an undisturbed backup has read is what
the graph holds (`QuietReadsAreTrue`, which counts rows up to the status under way), and that no bundle
is of a later day than the one a backup under way writes (`BackupIsNewest`), so that a prune that counts
from the newest cannot reach it. With one import at a time (`OneImporter`), `TransfersAreSound`
(`TransferIsSound`) and `RestoresAreTheBundle` (`RestoredIsTheBundle`): `CopyIsTheImports` tells the
bundle's rows in the copy from those the server's user stored there, which is what makes the count of
rows enough to verify by. The hypothesis is needed: the cleanup of a failed import deletes the graph by
name, another import's rows with it.

**SurrealConnectionProofs**: for any tasks, graphs, SDKs and number of faults.
- `ConnectionStaysSound` (`ConnectionIsSound`). `ConnInv` says why a loss is rebuilt once: what was
  replaced is closed (`OnlyTheLastLives`), a rebuild is of a closed connection, a call that waits for the
  lock captured a connection that is spent or replaced, and every connection opened was paid for by a
  loss or a cancelled rebuild (`LossesPay`).
- `GraphIsHeld` (`OneGraphPerOperation`) and `WireStaysSelected` (`WireIsSelected`). `GraphInv` adds
  that turns exclude, that a live connection is where the adapter believes it is, and that each
  operation has a graph which is that of all it ran, of what it has in flight on a connection however
  stale, and the one selected. Their hypothesis, `Cancellable \cap Movers = {}`, is the instance of the
  run: without it they are false, since a USE cancelled in flight moves the wire with nothing recorded.

**SessionProofs**, the gate: for any calls, graphs, judges and seats, `SessionStaysSound` (`SessionIsSound`),
`WritesLand` (`WritesLandWhereNamed`) and `ResponsesAreStamped` (`RecordedWhereItRan`). `GateInv` ties a
call's place to the turn it holds (`TurnsAreHeld`), so that the graph checked inside the turn is the one
written; `StorageFollowsSession` says that but for a dashboard read under way storage is on the
session's graph, and `CallsKeepTheirToken` that the judge looked up before the turn is the token's or
nobody's.

**SessionProofs**, a search: for any nodes, queries, limits and writes, `AnswersAreSound`
(`AnswerIsSound`), `DeclaredHitsSurvive` (`DeclaredHitSurvives`), `ScopesAreSearchedThrough`
(`ScopeIsSearchedThrough`) and `HistoryStaysFolded` (`HistoryFolds`). `SearchInv` says that what any step
has found was admitted by then (`FoundWasAdmitted`), that a protected hit which still stands is a seed
from the fusion to the cut (`DeclaredStands`), that an arm which came back short had found all there is,
all of it through fusion and fold (`ShortMeansAll`), and that a short answer is a short arm's
(`ShortOfAnswer`: otherwise the search has widened). Under them: sorting by an order loses and repeats
nothing (`SortedOnce`), and a cut keeps what is protected. The fold is about lineage of any shape. A walk
is a path that visits no node twice, so it ends within as many steps as there are seeds (`WalkEnds`),
either where nothing follows or by closing a cycle (`HostIs`); what a host hosts is itself, if the
lineage has no cycles (`HostStaysAcyclic`) or no forks (`HostStaysUnforked`, where the walk of a node on
a cycle goes once round it). With both it is false, as `HistoryFolds` says.

**VizHubProofs**: for any browsers, callers, capacities and number of sockets, `HubStaysSound`
(`HubIsSound`), `NothingIsMissed` (`BrowsersMissNothing`) and `SessionSurvives`
(`SessionOutlivesItsSocket`, an action property). `BacklogCovers` says, for each stage of a browser's
replay, which ring it has been sent and which is sent or still in its backlog; `OneTimer` that the one
drop timer armed is of the socket last lost.

**JudgeRosterProofs**: for any names, keys, seats and number of claims that wait together,
`RosterStaysSound` (`RosterIsSound`), `BindingsStayApproved` (`BindingsAreApproved`) and
`CommandsKeepAnswers`. `RosterInv` adds that what a waiting claim read of the confirmations was answered,
and that a claim waiting on its wording alone has a judge that is not retired and was asked about.
`CommandsKeepAnswers` is `RowsStayAnswered` for commands, confirmations, the picker and deletions, with
any number of claims waiting. `AnswersStay` is `RowsStayAnswered` in full, claims' writes included, where
one claim waits at a time (`OneClaim`); with two it is false (see the disagreements). `NestInv` is what it
needs: absorption nests, so that no judge answers for itself, and one that answers for an id answers for
all that id answers for; and what a waiting claim will write back is a part of what its judge answers
for by then. Of the judges that answer for a row's id, the one that answers for most is absorbed by
nobody, and so is live when any is.

**ArchivalWorklistProofs**: for any premises, leaves, settings and number of rounds and calls at once,
`WorklistStaysSound` (`WorklistIsSound`), `DeferralsRunOut` (`ComesBackWithinTheCap`) and
`NewReasonsOutrank` (`NewReasonOutranks`). `WorklistInv` says that what a journal row or a call under way
covers was raised before, and that of the rounds since a leaf's latest deferral as many are behind it as
were counted; `WaitIsCapped` that no deferral asks for more rounds than the cap, whatever wait the one
before it had.

**PostgresServersProofs**: for any processes, calls and nodes, and any number of lost connections and
cancelled calls, `NothingStaysLost` (`NothingIsLost`) and `WritesAreOnWhatWasRead`
(`NothingIsOverwritten`, an action property). `ServersInv` says of each operation, statement by statement,
that what it read still stands and which lock keeps it so (`Stands`: the row of a node, of the counter,
of a timeline or a document, the label table alone, the node table against writes); that locks held by
two transactions do not conflict (`LocksAreApart`); and that a call whose write landed has nothing left
to write but what the retry is known to repeat (`Landing`). The counts need `CountsAreDue`, which says
of a count that is under way what `StoresCountOnce` says of one that is over.

**NodeLifecycleProofs**: for any facts, edges and limits, `StandingStaysSound` (`StandingIsSound`),
`UndoStaysSound` (`UndoIsSound`), `PremisesStayFlagged` (`ReworkedPremisesAreFlagged`) and
`LineageStaysWhole` (`LineageIsWhole`, the first part of `EdgesAreSound`), `EdgesStaySound`
(`EdgesAreSound` whole) and `ReversalRestores` (`ReverseRestores`). Their hypotheses are the instance of
LifecycleSession: one call at a time (`OneAtATime`) and callers that name active nodes
(`~NamesRetired`); with two calls together each is false (see the disagreements). `LifecycleInv` says
that a node's episodes agree with its status (`Sound`, which counts the episodes of merges, open ones
included, so that a merge passes the gate with one to spare), that no two payloads share a source, and
that what a call planned is so when it writes (`Stands`). `EdgeInv` adds that a retired node follows its
one successor and the others none (`LineageOf`), that a payload holds what a merge moves and its sources
follow the survivor alone (`PayloadsFit`), and what each call is about to write (`Writes`): a reversal
drops the lineage into the survivor, and `Expected` is why no lineage but its sources' is there to drop.
It needs `Ingested`: what is ingested or linked is itself no lineage and no flag.

`HistoryInv` is about the order of merges. The edges a payload brings back end at nodes the store has,
and at none merged since, because a reversal is refused while the survivor has an edge its merge did not
put there. That this refusal is enough needs a rank: each survivor is later than what its payload speaks
of (`Ordered`). What the reversal of a survivor expects is in the graph or in a payload that would bring
it back; or else whichever of its ends may still return is `Pinned`, by an edge to a later node whose
reversal does not expect it (`Covered`). An update of a neighbour pins, since nothing reverses it, and
so does the eviction of a payload. Of the edges that pin an active node the one to the latest is in the
graph and stands in the way (`NoneLater`), so that an accepted reversal finds all it expects, and no
payload speaks of what it destroys (`NoneSpeaks`). `Grounded`: what is ingested ends at facts.

`UndoStaysBounded` (`UndoIsBounded`, in such a session, for any `merge_undo_depth`) and
`UndoStaysBoundedTogether` (any calls at once, naming any nodes, for a depth of one or two) rest on
`UndoInv`. A payload that is too deep is being cleared, or the merge that buried it has still to look
(`DeepIsDue`): so no other step may bury one. A merge cannot, since the id it drew is nobody else's
(`Reserved`). A payload that is cleared or reversed could, by taking away a node's nearer place behind a
survivor and leaving a farther one. In a session a node has one place (`LevelsStayApart`): one payload
at most would bring it back, and the payloads never run in a circle (`Founded`). With calls at once two
merges that gated together may retire one node, which then has two places; at a depth of two the nearer
goes only with all that lies behind, and beyond two nothing is claimed.

The assumptions are those named in the modules: sets of tasks, calls, nodes and ids that are apart
from each other and from the values that stand for none, finite where something is counted, and the
bounds natural numbers (`TasksAssumption`, `GraphsAssumption`, `ConnectionAssumption`,
`GateAssumption`, `HubAssumption`, `RosterAssumption`, `ServersAssumption`, `LifecycleAssumption`,
`PremisesAssumption`, `CapAssumption`, `BoundsAssumption`, `TransferAssumption`, `NodesAssumption`,
`LimitsAssumption`, `RanksAssumption`, `QueriesAssumption`). A theorem with a hypothesis states it.

Left to TLC:
- liveness (`TurnIsGranted`, `CallsEnd` of both connections, `SessionIsListed`), which is out of the
  prover's reach.

A depth of undo beyond two with calls at once is neither proved nor checked. What the other hypotheses
exclude is not merely unproved: with two imports of one name, movers cancelled in flight, two claims
waiting at once, or two calls at once on a node, the code breaks what the theorem says (see the
disagreements).

The library's induction theorems take an operator, which these provers cannot instantiate. Where a proof
needs induction (the walk of the fold, the levels of undo, a rank) it takes the least counterexample
instead, by `WFMin` over the naturals (`LeastNat`, `UpFrom`); that a recursive function exists is
`StepsExist`.

## Not modelled

Whole components:
- SQLite: one synchronous connection, no suspension within an operation; the repository's parity and
  differential tests hold it to memory.py.
- SurrealDB schema migration: steps written to be run again, the marker last; the question is about
  SurrealQL.
- Similarity decisions, review mode: rows that append, under a fixed key; the borrow of another graph
  is in GuardedGraph.
- Corroboration, BM25, timelines' orders and recurrence, segmentation: functions of what was read, with
  nothing that can be reordered.
- Storage protocol and wrappers, timestamps, embeddings, logging, configuration, the CLI's wording, the
  frontend: interfaces, presentation and I/O. What the protocol promises is modelled where it is kept.

In modelled components:
- SurrealQL and SQL; text, embeddings and scores (a merge's candidates are any active facts of one set
  of metacontexts; a ranking is an order).
- NodeLifecycle: row ids and duplicate rows of one triple; the periods on an edge; topic merges, which
  have no cycle gate; re-import of an archive; the decision journal, written after each commit;
  `SUPERSEDED`, which nothing writes any more. The reads of one plan are one read, except where the
  code reads the same thing twice (a reversal's edges) or writes back what it read (an eviction).
  SurrealDB reads a node's episodes before the transaction that writes them (`_stored_lifecycles`);
  memory.py inside it, and only the second is modelled.
- Guard: its context variables. A nested `using()` with a mover waiting between the two would hang, and
  a child task that outlives a move would keep its exemption. No caller does either.
- SessionGate: what a tool does in its body; descriptions and advisories.
- VizHub: other sessions, HTTP routes, payloads; GraphTransfer: a bundle's other sections, which are
  read the same way; ArchivalWorklist: reopening of pairs, labels and boundaries.
- PostgresServers: operations that are one read, and those written as one of the seven are; the schema.
- Retrieval: node kinds, provenance labels, retired edges; the two lineage edge types are one; a
  metacontext scope is a set of nodes, without inheritance along bases.

## Plan

1. Done: the twelve runs above, and for every safety property of those that pass a theorem.
2. Left to prove: the depth of undo beyond two with calls at once, or a counterexample to it; what of
   `StandingIsSound` and `EdgesAreSound` survives calls at once.

--------------------------- MODULE GraphTransfer ---------------------------
(***************************************************************************)
(* Graph bundles: a backup made by the running server, and an import made  *)
(* by the command line.  pipelines/transfer.py, tools.backup_graph, and    *)
(* the import command of cli.py.                                           *)
(*                                                                         *)
(* A backup is one call among others: it reads the graph query by query,   *)
(* and on a networked store every query is a point where another call's    *)
(* write can land.  It then writes one file under a name made of the graph *)
(* and the day, zeroes the counter of stores, and prunes older bundles.    *)
(* An import is a process of its own on the same store: it may meet the    *)
(* server at work in the graph it is creating.                             *)
(*                                                                         *)
(* A bundle is modelled by its node and edge sections and by the counter   *)
(* among its settings; the other sections are read the same way.           *)
(***************************************************************************)
EXTENDS Naturals, Sequences, FiniteSets, SequencesExt, TLC

CONSTANTS
    Nodes,        \* ids the server stores in the graph that is backed up
    UserNodes,    \* ids the server stores in a graph of the import's name
    Importers,    \* import processes
    Keep,         \* EPIMEMER_BACKUP_KEEP
    LastDay,      \* bound: days the clock reaches
    MaxBackups,   \* bound: backup calls
    MaxMoves,     \* bound: changes of a stored node's status
    MaxFaults     \* bound: failed writes and killed processes

ASSUME TransferAssumption ==
    /\ Keep \in Nat \ {0} /\ LastDay \in Nat \ {0}
    /\ MaxBackups \in Nat /\ MaxMoves \in Nat /\ MaxFaults \in Nat
    /\ IsFiniteSet(Nodes) /\ Nodes \cap UserNodes = {}

VARIABLES
    status,   \* the backed-up graph: each node's status, "none" when not stored
    edges,    \* its edges, as pairs of nodes
    counter,  \* stores_since_backup
    unbumped, \* stores that have landed and are not counted yet
    day,      \* the date a bundle written now is named for
    files,    \* the destination: what is under this graph's name for each day
    backup,   \* the backup call in progress
    imports,  \* the import processes
    copy,     \* the graph the imports name: "absent", or its rows and edges
    moves, backups, faults

graph == <<status, edges, unbumped, moves>>

transferVars == <<graph, counter, day, files, backup, backups, imports, copy, faults>>

(* The statuses the modelled calls give a node. *)
Statuses == {"active", "historical", "archived"}

(* Mutant: the retired are thought to be of no use to a restore. *)
StatusOrderLive == <<"active", "archived">>

(* export_graph asks for the nodes status by status, in this order. *)
StatusOrder == <<"active", "historical", "archived">>

Days == 1..LastDay

Rows == Nodes \X Statuses

Stored == {n \in Nodes : status[n] # "none"}

(* A bundle's rows, which are also what a restored graph holds. *)
EmptyBundle == [nodes |-> {}, edges |-> {}, counter |-> 0]

(* A file under a bundle's name, and a graph that may not exist. *)
File(state, bundle) == [state |-> state, bundle |-> bundle]

NoFile == File("absent", EmptyBundle)

NoCopy == [there |-> FALSE, rows |-> EmptyBundle]

Bundles == [nodes : SUBSET Rows, edges : SUBSET (Nodes \X Nodes), counter : Nat]

(* What one query of one status returns. *)
NodesOf(s) == {<<n, s>> : n \in {m \in Nodes : status[m] = s}}

IdsOf(rows) == {r[1] : r \in rows}

(* The section counts a manifest carries and an import checks. *)
Counts(b) == <<Cardinality(b.nodes), Cardinality(b.edges)>>

Idle == [step |-> "idle", next |-> 1, bundle |-> EmptyBundle, day |-> 1, quiet |-> TRUE]

Waiting == [pc |-> "start", bundle |-> EmptyBundle]

(* A process that is over has no bundle in hand. *)
Ended(pc) == [Waiting EXCEPT !.pc = pc]

TransferInit ==
    /\ status = [n \in Nodes |-> "none"]
    /\ edges = {}
    /\ counter = 0
    /\ unbumped = 0
    /\ day = 1
    /\ files = [d \in Days |-> NoFile]
    /\ backup = Idle
    /\ imports = [p \in Importers |-> Waiting]
    /\ copy = NoCopy
    /\ moves = 0
    /\ backups = 0
    /\ faults = 0

-----------------------------------------------------------------------------
(* The server's writes to the graph. *)

Reading == {"nodes", "edges", "settings", "open", "write", "reset"}

(* Whether any write landed while the bundle was being read. *)
Disturbed == [backup EXCEPT !.quiet = @ /\ backup.step \notin Reading]

(* write_batch_tx: a node and its edges, in one transaction. *)
Store(n) ==
    /\ status[n] = "none"
    /\ status' = [status EXCEPT ![n] = "active"]
    /\ edges' = edges \cup {<<n, m>> : m \in Stored}
    /\ unbumped' = unbumped + 1
    /\ backup' = Disturbed
    /\ UNCHANGED <<counter, day, files, imports, copy, moves, faults, backups>>

(* The tool's last step: the store is counted once it has landed. *)
BumpCounter ==
    /\ unbumped > 0
    /\ unbumped' = unbumped - 1
    /\ counter' = counter + 1
    /\ backup' = Disturbed
    /\ UNCHANGED <<status, edges, day, files, imports, copy, moves, faults, backups>>

(* set_node_status_tx and restore: an active node is set aside or retired, *)
(* and one that was comes back.                                            *)
Move(n, s) ==
    /\ moves < MaxMoves
    /\ \/ status[n] = "active" /\ s # "active"
       \/ status[n] \in {"historical", "archived"} /\ s = "active"
    /\ status' = [status EXCEPT ![n] = s]
    /\ moves' = moves + 1
    /\ backup' = Disturbed
    /\ UNCHANGED <<edges, counter, unbumped, day, files, imports, copy, faults, backups>>

NextDay ==
    /\ day < LastDay
    /\ day' = day + 1
    /\ UNCHANGED <<graph, counter, files, backup, imports, copy, faults, backups>>

-----------------------------------------------------------------------------
(* The backup call. *)

(* The name is fixed before the graph is read. *)
StartBackup ==
    /\ backup.step = "idle" /\ backups < MaxBackups
    /\ backups' = backups + 1
    /\ backup' = [Idle EXCEPT !.step = "nodes", !.day = day]
    /\ UNCHANGED <<graph, counter, day, files, imports, copy, faults>>

(* One query per status; the sections are read only after the last. *)
ReadNodes ==
    /\ backup.step = "nodes"
    /\ LET s == StatusOrder[backup.next]
       IN  backup' = [backup EXCEPT
                        !.bundle.nodes = @ \cup NodesOf(s),
                        !.next = @ + 1,
                        !.step = IF backup.next = Len(StatusOrder) THEN "edges" ELSE @]
    /\ UNCHANGED <<graph, counter, day, files, imports, copy, faults, backups>>

ReadEdges ==
    /\ backup.step = "edges"
    /\ backup' = [backup EXCEPT !.step = "settings", !.bundle.edges = edges]
    /\ UNCHANGED <<graph, counter, day, files, imports, copy, faults, backups>>

ReadSettings ==
    /\ backup.step = "settings"
    /\ backup' = [backup EXCEPT !.step = "open", !.bundle.counter = counter]
    /\ UNCHANGED <<graph, counter, day, files, imports, copy, faults, backups>>

(* Opening the file for writing cuts whatever was under the name.  Nothing *)
(* yields before the contents follow, but the write can fail between.      *)
OpenFile ==
    /\ backup.step = "open"
    /\ files' = [files EXCEPT ![backup.day] = File("cut", EmptyBundle)]
    /\ backup' = [backup EXCEPT !.step = "write"]
    /\ UNCHANGED <<graph, counter, day, imports, copy, faults, backups>>

WriteFile ==
    /\ backup.step = "write"
    /\ files' = [files EXCEPT ![backup.day] = File("whole", backup.bundle)]
    /\ backup' = [backup EXCEPT !.step = "reset", !.bundle = EmptyBundle]
    /\ UNCHANGED <<graph, counter, day, imports, copy, faults, backups>>

(* A destination that refuses, a disk that is full or a server that is     *)
(* killed ends the call where it stands.                                   *)
BackupFails ==
    /\ backup.step \in {"nodes", "edges", "settings", "open", "write"}
    /\ faults < MaxFaults
    /\ faults' = faults + 1
    /\ backup' = Idle
    /\ UNCHANGED <<graph, counter, day, files, imports, copy, backups>>

ResetCounter ==
    /\ backup.step = "reset"
    /\ counter' = 0
    /\ backup' = [backup EXCEPT !.step = "prune", !.quiet = TRUE]
    /\ UNCHANGED <<graph, day, files, imports, copy, faults, backups>>

(* Mutant: the newest are taken for the oldest. *)
StaleNewestFirst(present, keep) ==
    {d \in present : Cardinality({e \in present : e < d}) >= keep}

(* stale_bundles: all but the newest keep, by the date in the name. *)
Stale(present, keep) ==
    {d \in present : Cardinality({e \in present : e > d}) >= keep}

Present == {d \in Days : files[d].state # "absent"}

Prune ==
    /\ backup.step = "prune"
    /\ files' = [d \in Days |-> IF d \in Stale(Present, Keep) THEN NoFile ELSE files[d]]
    /\ backup' = Idle
    /\ UNCHANGED <<graph, counter, day, imports, copy, faults, backups>>

Backup ==
    \/ StartBackup \/ ReadNodes \/ ReadEdges \/ ReadSettings \/ OpenFile \/ WriteFile
    \/ BackupFails \/ ResetCounter \/ Prune

-----------------------------------------------------------------------------
(* The import command. *)

(* read_bundle: a file cut short is refused before anything is touched. *)
ReadBundle(p, d) ==
    /\ imports[p].pc = "start"
    /\ files[d].state # "absent"
    /\ imports' = [imports EXCEPT ![p] =
          IF files[d].state = "cut" THEN Ended("refused")
          ELSE [pc |-> "check", bundle |-> files[d].bundle]]
    /\ UNCHANGED <<graph, counter, day, files, backup, copy, faults, backups>>

(* A graph of that name that is already listed refuses the import. *)
CheckName(p) ==
    /\ imports[p].pc = "check"
    /\ imports' = [imports EXCEPT ![p] =
          IF copy.there THEN Ended("refused") ELSE [@ EXCEPT !.pc = "switch"]]
    /\ UNCHANGED <<graph, counter, day, files, backup, copy, faults, backups>>

(* switch_database: landing on a graph creates it. *)
SwitchToCopy(p) ==
    /\ imports[p].pc = "switch"
    /\ copy' = [copy EXCEPT !.there = TRUE]
    /\ imports' = [imports EXCEPT ![p].pc = "write"]
    /\ UNCHANGED <<graph, counter, day, files, backup, faults, backups>>

(* write_verbatim_tx inserts only: an id given twice, or already there, *)
(* fails the whole transaction.                                         *)
Insertable(b) ==
    /\ \A r1, r2 \in b.nodes : r1[1] = r2[1] => r1 = r2
    /\ IdsOf(b.nodes) \cap IdsOf(copy.rows.nodes) = {}

WriteVerbatim(p) ==
    /\ imports[p].pc = "write"
    /\ LET b == imports[p].bundle
       IN  IF Insertable(b)
           THEN /\ copy' = [copy EXCEPT !.there = TRUE,
                                        !.rows.nodes = @ \cup b.nodes,
                                        !.rows.edges = @ \cup b.edges]
                /\ imports' = [imports EXCEPT ![p].pc = "settings"]
           ELSE /\ imports' = [imports EXCEPT ![p].pc = "drop"]
                /\ UNCHANGED copy
    /\ UNCHANGED <<graph, counter, day, files, backup, faults, backups>>

RestoreSettings(p) ==
    /\ imports[p].pc = "settings"
    /\ copy' = [copy EXCEPT !.there = TRUE, !.rows.counter = imports[p].bundle.counter]
    /\ imports' = [imports EXCEPT ![p].pc = "verify"]
    /\ UNCHANGED <<graph, counter, day, files, backup, faults, backups>>

(* Mutant: the check that lost a comparison. *)
MatchesEdgesOnly(b) == Counts(copy.rows)[2] = Counts(b)[2]

(* The restored graph is exported again and its counts are compared. *)
Matches(b) == Counts(copy.rows) = Counts(b)

(* Mutant: a mismatch that is raised outside the cleanup. *)
VerdictKept(b) == IF Matches(b) THEN "done" ELSE "failed"

Verdict(b) == IF Matches(b) THEN "done" ELSE "drop"

Verify(p) ==
    /\ imports[p].pc = "verify"
    /\ imports' = [imports EXCEPT ![p].pc = Verdict(imports[p].bundle)]
    /\ UNCHANGED <<graph, counter, day, files, backup, copy, faults, backups>>

(* The embedding provider or the store fails before the report. *)
ImportFails(p) ==
    /\ imports[p].pc \in {"write", "settings", "verify"}
    /\ faults < MaxFaults
    /\ faults' = faults + 1
    /\ imports' = [imports EXCEPT ![p].pc = "drop"]
    /\ UNCHANGED <<graph, counter, day, files, backup, copy, backups>>

(* The cleanup deletes the graph by its name. *)
DropCopy(p) ==
    /\ imports[p].pc = "drop"
    /\ copy' = NoCopy
    /\ imports' = [imports EXCEPT ![p].pc = "failed"]
    /\ UNCHANGED <<graph, counter, day, files, backup, faults, backups>>

(* The process is killed: no handler runs. *)
Killed(p) ==
    /\ imports[p].pc \in {"switch", "write", "settings", "verify", "drop"}
    /\ faults < MaxFaults
    /\ faults' = faults + 1
    /\ imports' = [imports EXCEPT ![p] = Ended("killed")]
    /\ UNCHANGED <<graph, counter, day, files, backup, copy, backups>>

(* The server's user switches to a graph of that name and stores there. *)
WorkInCopy(x) ==
    /\ x \notin IdsOf(copy.rows.nodes)
    /\ copy' = [copy EXCEPT !.there = TRUE, !.rows.nodes = @ \cup {<<x, "active">>}]
    /\ UNCHANGED <<graph, counter, day, files, backup, imports, faults, backups>>

Import(p) ==
    \/ \E d \in Days : ReadBundle(p, d)
    \/ CheckName(p) \/ SwitchToCopy(p) \/ WriteVerbatim(p) \/ RestoreSettings(p)
    \/ Verify(p) \/ ImportFails(p) \/ DropCopy(p) \/ Killed(p)

TransferNext ==
    \/ \E n \in Nodes : Store(n)
    \/ \E n \in Nodes, s \in Statuses : Move(n, s)
    \/ BumpCounter
    \/ NextDay
    \/ Backup
    \/ \E p \in Importers : Import(p)
    \/ \E x \in UserNodes : WorkInCopy(x)

TransferSpec == TransferInit /\ [][TransferNext]_transferVars

-----------------------------------------------------------------------------
(* Nothing tells the nodes apart. *)
Symmetry == Permutations(Nodes)

(* The types of the state. *)
TransferTypeOK ==
    /\ status \in [Nodes -> Statuses \cup {"none"}]
    /\ edges \subseteq Nodes \X Nodes
    /\ counter \in Nat /\ unbumped \in Nat
    /\ day \in Days
    /\ \A d \in Days : files[d] \in [state : {"absent", "cut", "whole"}, bundle : Bundles]
    /\ backup.step \in {"idle", "nodes", "edges", "settings", "open", "write", "reset", "prune"}
    /\ backup.next \in 1..Len(StatusOrder) + 1
    /\ backup.bundle \in Bundles /\ backup.day \in Days /\ backup.quiet \in BOOLEAN
    /\ \A p \in Importers :
          /\ imports[p].pc \in {"start", "refused", "check", "switch", "write", "settings",
                                "verify", "drop", "done", "failed", "killed"}
          /\ imports[p].bundle \in Bundles

(***************************************************************************)
(* A backup during which nothing was written holds every node of the graph *)
(* under its status, every edge and the counter: the round trip's promise, *)
(* for a graph left alone while it is read.                                *)
(***************************************************************************)
QuietBackupIsWhole ==
    backup.step = "reset" /\ backup.quiet =>
        files[backup.day].bundle =
                            [nodes |-> {<<n, status[n]>> : n \in Stored},
                             edges |-> edges, counter |-> counter]

(***************************************************************************)
(* A backup that ends well leaves its own bundle in place, whatever the    *)
(* pruning removed, and never more than Keep bundles.                      *)
(***************************************************************************)
PruneSparesTheNewest ==
    [][backup.step = "prune" /\ backup'.step = "idle" =>
          /\ files'[backup.day].state = "whole"
          /\ Cardinality({d \in Days : files'[d].state # "absent"}) <= Keep]_transferVars

(***************************************************************************)
(* An import that reports success left, at that moment, exactly the rows   *)
(* of its bundle in the new graph: the count check is enough to notice the *)
(* server at work in a graph of that name.                                 *)
(***************************************************************************)
RestoredIsTheBundle ==
    [][\A p \in Importers : imports[p].pc # "done" /\ imports'[p].pc = "done" =>
          /\ copy'.rows.nodes = imports[p].bundle.nodes
          /\ copy'.rows.edges = imports[p].bundle.edges]_transferVars

(***************************************************************************)
(* An import that failed leaves nothing of its bundle behind, so a retry   *)
(* is never refused over its own half-written graph.                       *)
(***************************************************************************)
FailureLeavesNothing ==
    \A p \in Importers :
        imports[p].pc = "failed" => copy.rows.nodes \cap imports[p].bundle.nodes = {}

(***************************************************************************)
(* The shape of the state, and what a failed import leaves.                *)
(***************************************************************************)
TransferIsSound == TransferTypeOK /\ FailureLeavesNothing
=============================================================================

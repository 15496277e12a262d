------------------------------- MODULE Migrate -------------------------------
(***************************************************************************)
(* postgres.ApplyMigrations, which every server and worker with            *)
(* MIGRATE_ON_START runs when it starts, without any lock between them.    *)
(*                                                                         *)
(* A file is one simple-protocol query, so Postgres executes it as one     *)
(* transaction.  CREATE TABLE IF NOT EXISTS looks for the table and then   *)
(* inserts it into the catalogue, waiting for another transaction that is  *)
(* inserting the same name: if that one commits, the statement fails on    *)
(* the catalogue's unique index.  It is modelled by the two steps Look and *)
(* Created or Clashed.                                                     *)
(***************************************************************************)
EXTENDS Integers

CONSTANTS
    Process,        \* processes that start on the database
    WithFiles,      \* those that find the migrations directory
    Files           \* number of migration files, in the order of their names

ASSUME MigrateAssumption ==
    Files \in Nat \ {0} /\ WithFiles \subseteq Process /\ Process # {}

VARIABLES
    relations,      \* 0: schema_migrations exists; i: file i was executed
    marked,         \* rows of schema_migrations
    pc,             \* the next statement of each process
    file,           \* the file of its loop
    missing,        \* whether the relation was missing when it looked
    calm            \* history: no process has crashed

vars == <<relations, marked, pc, file, missing, calm>>

File == 1 .. Files

TypeOK ==
    /\ relations \subseteq 0 .. Files
    /\ marked \subseteq File
    /\ pc \in [Process -> {"ensure", "ensuring", "list", "check", "exec",
                           "executing", "mark", "up", "dead"}]
    /\ file \in [Process -> 0 .. Files]
    /\ missing \in [Process -> BOOLEAN]
    /\ calm \in BOOLEAN
    /\ \A p \in Process :
           pc[p] \in {"check", "exec", "executing", "mark"} => file[p] \in File

(* The database is new, or a release with the first k files has run on it. *)
Init ==
    /\ \/ relations = {} /\ marked = {}
       \/ \E k \in 0 .. Files : relations = 0 .. k /\ marked = 1 .. k
    /\ pc = [p \in Process |-> "ensure"]
    /\ file = [p \in Process |-> 0]
    /\ missing = [p \in Process |-> FALSE]
    /\ calm = TRUE

-------------------------------------------------------------------------------
Goto(p, l) == pc' = [pc EXCEPT ![p] = l]

(* The error ends in log.Fatalf. *)
Die(p) == Goto(p, "dead")

(* CREATE TABLE IF NOT EXISTS starts: is the relation there? *)
Look(p, r, l) ==
    /\ missing' = [missing EXCEPT ![p] = r \notin relations]
    /\ Goto(p, l)
    /\ UNCHANGED <<relations, marked, file, calm>>

(* It is there now, or was there before. *)
Created(p, r) ==
    /\ ~(missing[p] /\ r \in relations)
    /\ relations' = relations \cup {r}

(* Somebody else created it in between. *)
Clashed(p, r) ==
    /\ missing[p]
    /\ r \in relations
    /\ Die(p)
    /\ UNCHANGED <<relations, marked, file, missing, calm>>

(* A plain CREATE TABLE. *)
EnsureMigrationsTableBug(p) ==
    \/ pc[p] = "ensure" /\ 0 \notin relations /\ Look(p, 0, "ensuring")
    \/ /\ pc[p] = "ensure"
       /\ 0 \in relations
       /\ Die(p)
       /\ UNCHANGED <<relations, marked, file, missing, calm>>
    \/ /\ pc[p] = "ensuring"
       /\ \/ /\ Created(p, 0)
             /\ Goto(p, "list")
             /\ UNCHANGED <<marked, file, missing, calm>>
          \/ Clashed(p, 0)

EnsureMigrationsTable(p) ==
    \/ pc[p] = "ensure" /\ Look(p, 0, "ensuring")
    \/ /\ pc[p] = "ensuring"
       /\ \/ /\ Created(p, 0)
             /\ Goto(p, "list")
             /\ UNCHANGED <<marked, file, missing, calm>>
          \/ Clashed(p, 0)

(* Starts with the second file. *)
ListFilesBug(p) ==
    /\ pc[p] = "list"
    /\ IF p \in WithFiles /\ Files > 1
       THEN file' = [file EXCEPT ![p] = 2] /\ Goto(p, "check")
       ELSE UNCHANGED file /\ Goto(p, "up")
    /\ UNCHANGED <<relations, marked, missing, calm>>

(* Without the directory there is nothing to apply, and no error. *)
ListFiles(p) ==
    /\ pc[p] = "list"
    /\ IF p \in WithFiles
       THEN file' = [file EXCEPT ![p] = 1] /\ Goto(p, "check")
       ELSE UNCHANGED file /\ Goto(p, "up")
    /\ UNCHANGED <<relations, marked, missing, calm>>

(* Leaves the loop one file early. *)
NextFileBug(p) ==
    IF file[p] + 1 < Files
    THEN file' = [file EXCEPT ![p] = @ + 1] /\ Goto(p, "check")
    ELSE UNCHANGED file /\ Goto(p, "up")

(* Leaves the loop one file late. *)
NextFileLateBug(p) ==
    IF file[p] <= Files
    THEN file' = [file EXCEPT ![p] = @ + 1] /\ Goto(p, "check")
    ELSE UNCHANGED file /\ Goto(p, "up")

(* The end of the loop's body. *)
NextFile(p) ==
    IF file[p] < Files
    THEN file' = [file EXCEPT ![p] = @ + 1] /\ Goto(p, "check")
    ELSE UNCHANGED file /\ Goto(p, "up")

(* Marks the file before it is executed. *)
IsMigrationAppliedBug(p) ==
    /\ pc[p] = "check"
    /\ IF file[p] \in marked THEN NextFile(p)
       ELSE UNCHANGED file /\ Goto(p, "mark")
    /\ UNCHANGED <<relations, marked, missing, calm>>

IsMigrationApplied(p) ==
    /\ pc[p] = "check"
    /\ IF file[p] \in marked THEN NextFile(p)
       ELSE UNCHANGED file /\ Goto(p, "exec")
    /\ UNCHANGED <<relations, marked, missing, calm>>

ExecFile(p) ==
    \/ pc[p] = "exec" /\ Look(p, file[p], "executing")
    \/ /\ pc[p] = "executing"
       /\ \/ /\ Created(p, file[p])
             /\ Goto(p, "mark")
             /\ UNCHANGED <<marked, file, missing, calm>>
          \/ Clashed(p, file[p])

(* A plain INSERT: the second one fails on the primary key. *)
MarkMigrationApplied(p) ==
    /\ pc[p] = "mark"
    /\ IF file[p] \in marked
       THEN Die(p) /\ UNCHANGED <<marked, file>>
       ELSE marked' = marked \cup {file[p]} /\ NextFile(p)
    /\ UNCHANGED <<relations, missing, calm>>

Step(p) ==
    \/ EnsureMigrationsTable(p)
    \/ ListFiles(p)
    \/ IsMigrationApplied(p)
    \/ ExecFile(p)
    \/ MarkMigrationApplied(p)

(* A statement fails, the process is killed, or it ends later on. *)
Crash(p) ==
    /\ pc[p] # "dead"
    /\ Die(p)
    /\ calm' = FALSE
    /\ UNCHANGED <<relations, marked, file, missing>>

Restart(p) ==
    /\ pc[p] = "dead"
    /\ Goto(p, "ensure")
    /\ file' = [file EXCEPT ![p] = 0]
    /\ UNCHANGED <<relations, marked, missing, calm>>

Next == \E p \in Process : Step(p) \/ Crash(p) \/ Restart(p)

Spec == Init /\ [][Next]_vars

(* Postgres ends each statement.  Nobody need restart a process. *)
FairSpec == Spec /\ \A p \in Process : WF_vars(Step(p))

-------------------------------------------------------------------------------
(* Properties *)

(***************************************************************************)
(* A version in schema_migrations has been executed, whatever crashed      *)
(* between executing and marking: no restart skips a file that never ran.  *)
(***************************************************************************)
MarksAreTrue == marked \subseteq relations /\ (marked # {} => 0 \in relations)

(***************************************************************************)
(* The files are executed in the order of their names, even when several   *)
(* processes run through them at the same time: a later file never runs on *)
(* a schema without the earlier ones.                                      *)
(***************************************************************************)
AppliedInOrder == \A i \in relations : \A j \in 0 .. i : j \in relations

(***************************************************************************)
(* A process that has found its files serves, or runs its worker, only on  *)
(* a database with all of them executed and marked.                        *)
(***************************************************************************)
UpMeansMigrated ==
    \A p \in WithFiles : pc[p] = "up" => File \subseteq relations \cap marked

(***************************************************************************)
(* Processes that start together can end each other: two that find a file  *)
(* missing both execute it, and one of them dies of a duplicate name or    *)
(* key.  But if nothing else fails they never all die: whoever makes       *)
(* another fail gets on itself.                                            *)
(***************************************************************************)
NotEveryoneDies == calm => \E p \in Process : pc[p] # "dead"

(***************************************************************************)
(* And one of them comes up, without anybody being started again.          *)
(***************************************************************************)
SomeoneComesUp == []calm => <>(\E p \in Process : pc[p] = "up")
===============================================================================

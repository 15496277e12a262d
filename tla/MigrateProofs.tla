---------------------------- MODULE MigrateProofs ----------------------------
(***************************************************************************)
(* Proofs about Migrate for any number of processes and files: however the *)
(* processes interleave, clash and crash, marks are true, the schema grows *)
(* in the order of the files, nobody serves on an old one, and they do not *)
(* all die of each other.  That someone comes up is a liveness property    *)
(* and stays with TLC.                                                     *)
(***************************************************************************)
EXTENDS Migrate, TLAPS

(* A process in the loop has the files before its own behind it. *)
ProcessOK(p) ==
    /\ pc[p] \in {"list", "check", "exec", "executing", "mark", "up"}
           => 0 \in relations
    /\ pc[p] \in {"check", "exec", "executing", "mark"}
           => \A i \in File : i < file[p] => i \in relations /\ i \in marked
    /\ pc[p] = "mark" => file[p] \in relations
    /\ pc[p] = "up" /\ p \in WithFiles => File \subseteq relations \cap marked

IInv ==
    /\ TypeOK
    /\ MarksAreTrue
    /\ AppliedInOrder
    /\ \A p \in Process : ProcessOK(p)

(***************************************************************************)
(* The database is new or was left by a release that came up.              *)
(***************************************************************************)
LEMMA InitOK == Init => IInv
<1> SUFFICES ASSUME Init PROVE IInv
  OBVIOUS
<1>1. \A p \in Process : pc[p] = "ensure"
  BY DEF Init
<1>2. TypeOK
  BY MigrateAssumption DEF Init, TypeOK, File
<1>3. MarksAreTrue /\ AppliedInOrder
  BY MigrateAssumption DEF Init, MarksAreTrue, AppliedInOrder
<1>4. \A p \in Process : ProcessOK(p)
  BY <1>1 DEF ProcessOK
<1> QED BY <1>2, <1>3, <1>4 DEF IInv

(***************************************************************************)
(* Tables and marks are never taken away, so what a process has behind it  *)
(* stays there while others go on.                                         *)
(***************************************************************************)
LEMMA OthersKeep ==
    ASSUME IInv, NEW p \in Process, NEW q \in Process \ {p},
           pc'[q] = pc[q], file'[q] = file[q],
           relations \subseteq relations', marked \subseteq marked'
    PROVE  ProcessOK(q)'
<1>1. ProcessOK(q)
  BY DEF IInv
<1> QED BY <1>1 DEF ProcessOK

(***************************************************************************)
(* A statement that fails or finds things as they are changes no table.    *)
(***************************************************************************)
LEMMA MoveKeeps ==
    ASSUME IInv, NEW p \in Process, UNCHANGED <<relations, marked>>,
           NEW l, Goto(p, l), NEW f, file' = [file EXCEPT ![p] = f],
           TypeOK', ProcessOK(p)'
    PROVE  IInv'
<1>1. \A q \in Process \ {p} : pc'[q] = pc[q] /\ file'[q] = file[q]
  BY DEF IInv, TypeOK, Goto
<1>2. \A q \in Process \ {p} : ProcessOK(q)'
  BY <1>1, OthersKeep
<1> QED BY <1>2 DEF IInv, MarksAreTrue, AppliedInOrder

(***************************************************************************)
(* A process that dies or starts again has nothing to show.                *)
(***************************************************************************)
LEMMA RestartKeeps ==
    ASSUME IInv, NEW p \in Process, NEW l \in {"dead", "ensure"}, Goto(p, l),
           NEW f \in 0 .. Files, file' = [file EXCEPT ![p] = f],
           UNCHANGED <<relations, marked, missing>>, calm' \in BOOLEAN
    PROVE  IInv'
<1>1. pc'[p] = l
  BY DEF IInv, TypeOK, Goto
<1>2. TypeOK'
  BY <1>1 DEF IInv, TypeOK, Goto
<1>3. ProcessOK(p)'
  BY <1>1 DEF ProcessOK
<1> QED BY <1>2, <1>3, MoveKeeps

(***************************************************************************)
(* Death leaves the file where it was.                                     *)
(***************************************************************************)
LEMMA DieKeeps ==
    ASSUME IInv, NEW p \in Process, Die(p), calm' \in BOOLEAN,
           UNCHANGED <<relations, marked, file, missing>>
    PROVE  IInv'
<1>1. file' = [file EXCEPT ![p] = file[p]] /\ file[p] \in 0 .. Files
  BY DEF IInv, TypeOK
<1> QED BY <1>1, RestartKeeps DEF Die

(***************************************************************************)
(* CREATE TABLE IF NOT EXISTS looks before it creates.                     *)
(***************************************************************************)
LEMMA LookKeeps ==
    ASSUME IInv, NEW p \in Process, NEW r,
           \/ pc[p] = "ensure" /\ Look(p, r, "ensuring")
           \/ pc[p] = "exec" /\ Look(p, r, "executing")
    PROVE  IInv'
<1>1. PICK l \in {"ensuring", "executing"} :
         /\ Goto(p, l) /\ UNCHANGED <<relations, marked, file, calm>>
         /\ missing' = [missing EXCEPT ![p] = r \notin relations]
         /\ l = "executing" => pc[p] = "exec"
  BY DEF Look
<1>2. pc'[p] = l /\ file' = [file EXCEPT ![p] = file[p]]
  BY <1>1 DEF IInv, TypeOK, Goto
<1>3. TypeOK'
  BY <1>1, <1>2 DEF IInv, TypeOK, Goto
<1>4. ProcessOK(p)'
  BY <1>1, <1>2 DEF IInv, ProcessOK
<1> QED BY <1>1, <1>2, <1>3, <1>4, MoveKeeps

(***************************************************************************)
(* The table a process creates is the next one of the schema, or there.    *)
(***************************************************************************)
LEMMA CreateKeeps ==
    ASSUME IInv, NEW p \in Process, UNCHANGED <<marked, file, missing, calm>>,
           NEW r, relations' = relations \cup {r},
           \/ pc[p] = "ensuring" /\ r = 0 /\ Goto(p, "list")
           \/ pc[p] = "executing" /\ r = file[p] /\ Goto(p, "mark")
    PROVE  IInv'
<1>1. ProcessOK(p) /\ TypeOK
  BY DEF IInv
<1>2. \/ pc[p] = "ensuring" /\ r = 0 /\ pc'[p] = "list"
      \/ pc[p] = "executing" /\ r = file[p] /\ pc'[p] = "mark"
  BY <1>1 DEF TypeOK, Goto
<1>3. r \in 0 .. Files /\ \A j \in 0 .. Files : j < r => j \in relations
  BY <1>1, <1>2, MigrateAssumption DEF ProcessOK, TypeOK, File
<1>4. TypeOK'
  BY <1>1, <1>2, <1>3 DEF TypeOK, Goto
<1>5. AppliedInOrder'
  <2> SUFFICES ASSUME NEW i \in relations \cup {r}, NEW j \in 0 .. i
               PROVE  j \in relations \cup {r}
    BY DEF AppliedInOrder
  <2>1. relations \subseteq 0 .. Files
    BY <1>1 DEF TypeOK
  <2>2. CASE i \in relations
    BY <2>2 DEF IInv, AppliedInOrder
  <2>3. CASE i = r
    BY <1>3, <2>3, MigrateAssumption
  <2> QED BY <2>2, <2>3
<1>6. MarksAreTrue'
  BY DEF IInv, MarksAreTrue
<1>7. ProcessOK(p)'
  BY <1>1, <1>2 DEF ProcessOK
<1>8. \A q \in Process \ {p} : pc'[q] = pc[q] /\ file'[q] = file[q]
  BY <1>1 DEF TypeOK, Goto
<1>9. \A q \in Process \ {p} : ProcessOK(q)'
  BY <1>8, OthersKeep
<1> QED BY <1>4, <1>5, <1>6, <1>7, <1>9 DEF IInv

(***************************************************************************)
(* The loop goes on once its file is executed and marked.                  *)
(***************************************************************************)
LEMMA NextFileKeeps ==
    ASSUME IInv, NEW p \in Process, NextFile(p),
           pc[p] \in {"check", "mark"}, file[p] \in relations,
           marked' = marked \cup {file[p]},
           UNCHANGED <<relations, missing, calm>>
    PROVE  IInv'
<1>1. ProcessOK(p) /\ TypeOK /\ file[p] \in File
  BY DEF IInv, TypeOK
<1>2. 0 \in relations /\ \A i \in File : i <= file[p] => i \in relations /\ i \in marked'
  BY <1>1, MigrateAssumption DEF ProcessOK, File
<1>3. \/ file[p] < Files /\ pc'[p] = "check" /\ file'[p] = file[p] + 1
      \/ file[p] = Files /\ pc'[p] = "up" /\ file'[p] = file[p]
  BY <1>1, MigrateAssumption DEF NextFile, Goto, TypeOK, File
<1>4. \A q \in Process \ {p} : pc'[q] = pc[q] /\ file'[q] = file[q]
  BY <1>1 DEF NextFile, TypeOK, Goto
<1>5. TypeOK'
  <2>1. pc' \in [Process -> {"ensure", "ensuring", "list", "check", "exec",
                             "executing", "mark", "up", "dead"}]
    BY <1>1 DEF NextFile, TypeOK, Goto
  <2>2. file' \in [Process -> 0 .. Files]
    BY <1>1, MigrateAssumption DEF NextFile, TypeOK, File
  <2>3. \A q \in Process :
           pc'[q] \in {"check", "exec", "executing", "mark"} => file'[q] \in File
    BY <1>1, <1>3, <1>4, MigrateAssumption DEF TypeOK, File
  <2> QED BY <1>1, <2>1, <2>2, <2>3 DEF TypeOK
<1>6. ProcessOK(p)'
  <2>1. pc'[p] = "check" => \A i \in File : i < file'[p] => i <= file[p]
    BY <1>1, <1>3, MigrateAssumption DEF File
  <2>2. pc'[p] = "up" => \A i \in File : i <= file[p]
    BY <1>1, <1>3, MigrateAssumption DEF File
  <2> QED BY <1>2, <1>3, <2>1, <2>2 DEF ProcessOK
<1>7. MarksAreTrue'
  BY <1>2 DEF IInv, MarksAreTrue
<1>8. \A q \in Process \ {p} : ProcessOK(q)'
  BY <1>4, OthersKeep
<1> QED BY <1>5, <1>6, <1>7, <1>8 DEF IInv, AppliedInOrder

(***************************************************************************)
(* The statements of ApplyMigrations keep the invariant.                   *)
(***************************************************************************)
LEMMA StepKeeps ==
    ASSUME IInv, NEW p \in Process, Step(p)
    PROVE  IInv'
<1>1. calm \in BOOLEAN /\ TypeOK /\ ProcessOK(p)
  BY DEF IInv, TypeOK
<1>2. CASE EnsureMigrationsTable(p)
  BY <1>1, <1>2, LookKeeps, CreateKeeps, DieKeeps
     DEF EnsureMigrationsTable, Created, Clashed
<1>3. CASE ExecFile(p)
  BY <1>1, <1>3, LookKeeps, CreateKeeps, DieKeeps DEF ExecFile, Created, Clashed
<1>4. CASE ListFiles(p)
  <2>1. CASE p \in WithFiles
    <3>1. /\ Goto(p, "check") /\ file' = [file EXCEPT ![p] = 1]
          /\ pc'[p] = "check" /\ file'[p] = 1
          /\ pc[p] = "list" /\ UNCHANGED <<relations, marked, missing, calm>>
      BY <1>1, <1>4, <2>1 DEF ListFiles, Goto, TypeOK
    <3>2. TypeOK'
      BY <1>1, <3>1, MigrateAssumption DEF TypeOK, Goto, File
    <3>3. ProcessOK(p)'
      BY <1>1, <3>1, MigrateAssumption DEF ProcessOK, File
    <3> QED BY <3>1, <3>2, <3>3, MoveKeeps
  <2>2. CASE p \notin WithFiles
    <3>1. /\ Goto(p, "up") /\ file' = [file EXCEPT ![p] = file[p]]
          /\ pc'[p] = "up" /\ file' = file
          /\ pc[p] = "list" /\ UNCHANGED <<relations, marked, missing, calm>>
      BY <1>1, <1>4, <2>2 DEF ListFiles, Goto, TypeOK
    <3>2. TypeOK'
      BY <1>1, <3>1 DEF TypeOK, Goto
    <3>3. ProcessOK(p)'
      BY <1>1, <2>2, <3>1 DEF ProcessOK
    <3> QED BY <3>1, <3>2, <3>3, MoveKeeps
  <2> QED BY <2>1, <2>2
<1>5. CASE IsMigrationApplied(p)
  <2>1. CASE file[p] \in marked
    <3>1. file[p] \in relations /\ marked' = marked \cup {file[p]}
      BY <1>5, <2>1 DEF IInv, MarksAreTrue, IsMigrationApplied
    <3> QED BY <1>5, <2>1, <3>1, NextFileKeeps DEF IsMigrationApplied
  <2>2. CASE file[p] \notin marked
    <3>1. /\ Goto(p, "exec") /\ file' = [file EXCEPT ![p] = file[p]]
          /\ pc'[p] = "exec" /\ file' = file
          /\ pc[p] = "check" /\ UNCHANGED <<relations, marked, missing, calm>>
      BY <1>1, <1>5, <2>2 DEF IsMigrationApplied, Goto, TypeOK
    <3>2. TypeOK'
      BY <1>1, <3>1 DEF TypeOK, Goto
    <3>3. ProcessOK(p)'
      BY <1>1, <3>1 DEF ProcessOK
    <3> QED BY <3>1, <3>2, <3>3, MoveKeeps
  <2> QED BY <2>1, <2>2
<1>6. CASE MarkMigrationApplied(p)
  <2>1. CASE file[p] \in marked
    BY <1>1, <1>6, <2>1, DieKeeps DEF MarkMigrationApplied
  <2>2. CASE file[p] \notin marked
    <3>1. file[p] \in relations
      BY <1>1, <1>6 DEF ProcessOK, MarkMigrationApplied
    <3> QED BY <1>6, <2>2, <3>1, NextFileKeeps DEF MarkMigrationApplied
  <2> QED BY <2>1, <2>2
<1> QED BY <1>2, <1>3, <1>4, <1>5, <1>6 DEF Step

(***************************************************************************)
(* Every step keeps the invariant.                                         *)
(***************************************************************************)
LEMMA NextOK == IInv /\ [Next]_vars => IInv'
<1> SUFFICES ASSUME IInv, [Next]_vars PROVE IInv'
  OBVIOUS
<1>1. CASE UNCHANGED vars
  BY <1>1 DEF vars, IInv, TypeOK, MarksAreTrue, AppliedInOrder, ProcessOK
<1>2. ASSUME NEW p \in Process, Crash(p) PROVE IInv'
  BY <1>2, DieKeeps DEF Crash
<1>3. ASSUME NEW p \in Process, Restart(p) PROVE IInv'
  <2>1. 0 \in 0 .. Files /\ calm \in BOOLEAN
    BY MigrateAssumption DEF IInv, TypeOK
  <2> QED BY <1>3, <2>1, RestartKeeps DEF Restart
<1> QED BY <1>1, <1>2, <1>3, StepKeeps DEF Next

(***************************************************************************)
(* The migrations keep the invariant, whoever crashes and starts again.    *)
(***************************************************************************)
THEOREM MigrationInvariant == Spec => []IInv
BY InitOK, NextOK, PTL DEF Spec

(***************************************************************************)
(* Type correctness: no process leaves the list of files.                  *)
(***************************************************************************)
THEOREM MigrationTypeCorrect == Spec => []TypeOK
<1>1. IInv => TypeOK
  BY DEF IInv
<1> QED BY <1>1, MigrationInvariant, PTL

(***************************************************************************)
(* A row of schema_migrations stands for a file that was executed.         *)
(***************************************************************************)
THEOREM MigrationMarksTrue == Spec => []MarksAreTrue
<1>1. IInv => MarksAreTrue
  BY DEF IInv
<1> QED BY <1>1, MigrationInvariant, PTL

(***************************************************************************)
(* No file runs before the ones with smaller names have.                   *)
(***************************************************************************)
THEOREM MigrationsInOrder == Spec => []AppliedInOrder
<1>1. IInv => AppliedInOrder
  BY DEF IInv
<1> QED BY <1>1, MigrationInvariant, PTL

(***************************************************************************)
(* A process that found its files comes up on a complete schema only.      *)
(***************************************************************************)
THEOREM UpIsMigrated == Spec => []UpMeansMigrated
<1>1. IInv => UpMeansMigrated
  BY MigrateAssumption DEF IInv, ProcessOK, UpMeansMigrated
<1> QED BY <1>1, MigrationInvariant, PTL

-------------------------------------------------------------------------------
(* Not everyone dies *)

(***************************************************************************)
(* What p is about to do cannot fail as things stand: it has not looked    *)
(* yet, or what it found missing is still missing, and its file is not     *)
(* marked.                                                                 *)
(***************************************************************************)
Survives(p) ==
    \/ pc[p] \in {"ensure", "list", "check", "up"}
    \/ pc[p] = "ensuring" /\ ~(missing[p] /\ 0 \in relations)
    \/ pc[p] \in {"exec", "mark"} /\ file[p] \notin marked
    \/ /\ pc[p] = "executing" /\ file[p] \notin marked
       /\ ~(missing[p] /\ file[p] \in relations)

SurvivorInv == calm => \E p \in Process : Survives(p)

(***************************************************************************)
(* A process that can go on can still go on after its own step: what it    *)
(* creates or marks nobody else has.                                       *)
(***************************************************************************)
LEMMA OwnStepSurvives ==
    ASSUME IInv, NEW p \in Process, Step(p), Survives(p)
    PROVE  Survives(p)'
<1>1. TypeOK /\ MarksAreTrue
  BY DEF IInv
<1>2. CASE EnsureMigrationsTable(p)
  <2>1. CASE pc[p] = "ensure" /\ Look(p, 0, "ensuring")
    <3>1. /\ pc'[p] = "ensuring" /\ relations' = relations
          /\ missing'[p] => 0 \notin relations
      BY <1>1, <2>1 DEF Look, Goto, TypeOK
    <3> QED
      BY <3>1 DEF Survives
  <2>2. CASE pc[p] = "ensuring" /\ Created(p, 0) /\ Goto(p, "list")
    BY <1>1, <2>2 DEF Goto, Survives, TypeOK
  <2>3. ~(pc[p] = "ensuring" /\ Clashed(p, 0))
    BY DEF Clashed, Survives
  <2> QED
    BY <1>2, <2>1, <2>2, <2>3 DEF EnsureMigrationsTable
<1>3. CASE ListFiles(p)
  BY <1>1, <1>3 DEF ListFiles, Goto, Survives, TypeOK
<1>4. CASE IsMigrationApplied(p)
  BY <1>1, <1>4 DEF IsMigrationApplied, NextFile, Goto, Survives, TypeOK
<1>5. CASE ExecFile(p)
  <2>1. CASE pc[p] = "exec" /\ Look(p, file[p], "executing")
    <3>1. /\ pc'[p] = "executing" /\ UNCHANGED <<relations, marked, file>>
          /\ missing'[p] => file[p] \notin relations
      BY <1>1, <2>1 DEF Look, Goto, TypeOK
    <3> QED
      BY <2>1, <3>1 DEF Survives
  <2>2. CASE /\ pc[p] = "executing" /\ Created(p, file[p]) /\ Goto(p, "mark")
             /\ UNCHANGED <<marked, file, missing, calm>>
    BY <1>1, <2>2 DEF Goto, Survives, TypeOK
  <2>3. ~(pc[p] = "executing" /\ Clashed(p, file[p]))
    BY DEF Clashed, Survives
  <2> QED
    BY <1>5, <2>1, <2>2, <2>3 DEF ExecFile
<1>6. CASE MarkMigrationApplied(p)
  BY <1>1, <1>6 DEF MarkMigrationApplied, NextFile, Goto, Survives, TypeOK
<1> QED
  BY <1>2, <1>3, <1>4, <1>5, <1>6 DEF Step

(***************************************************************************)
(* A step of q that takes that from p, by creating what p found missing or *)
(* by marking p's file, leaves q able to go on.                            *)
(***************************************************************************)
LEMMA OneOfTwoSurvives ==
    ASSUME IInv, NEW p \in Process, NEW q \in Process \ {p}, Step(q), Survives(p)
    PROVE  Survives(p)' \/ Survives(q)'
<1>1. TypeOK /\ MarksAreTrue
  BY DEF IInv
<1>2. pc'[p] = pc[p] /\ file'[p] = file[p] /\ missing'[p] = missing[p]
  BY <1>1
  DEF Step, EnsureMigrationsTable, ListFiles, IsMigrationApplied, ExecFile,
      MarkMigrationApplied, NextFile, Look, Created, Clashed, Die, Goto, TypeOK
<1>3. CASE UNCHANGED <<relations, marked>>
  BY <1>2, <1>3 DEF Survives
<1>4. CASE EnsureMigrationsTable(q)
  <2>1. CASE pc'[q] = "list"
    BY <2>1 DEF Survives
  <2>2. CASE pc'[q] # "list"
    BY <1>1, <1>3, <1>4, <2>2
    DEF EnsureMigrationsTable, Look, Created, Clashed, Goto, TypeOK
  <2> QED
    BY <2>1, <2>2
<1>5. CASE ExecFile(q)
  <2>1. CASE file[q] \in relations
    BY <1>3, <1>5, <2>1 DEF ExecFile, Look, Created, Clashed
  <2>2. CASE file[q] \notin relations /\ Created(q, file[q]) /\ Goto(q, "mark")
              /\ UNCHANGED <<marked, file, missing, calm>>
    <3>1. pc'[q] = "mark" /\ file'[q] \notin marked'
      BY <1>1, <2>2 DEF Goto, TypeOK, MarksAreTrue
    <3> QED
      BY <3>1 DEF Survives
  <2> QED
    BY <1>3, <1>5, <2>1, <2>2 DEF ExecFile, Look, Clashed
<1>6. CASE MarkMigrationApplied(q)
  <2>1. CASE file[q] \in marked
    BY <1>3, <1>6, <2>1 DEF MarkMigrationApplied
  <2>2. CASE file[q] \notin marked
    BY <1>1, <1>6, <2>2 DEF MarkMigrationApplied, NextFile, Goto, Survives, TypeOK
  <2> QED
    BY <2>1, <2>2
<1>7. CASE ListFiles(q) \/ IsMigrationApplied(q)
  BY <1>3, <1>7 DEF ListFiles, IsMigrationApplied
<1> QED
  BY <1>4, <1>5, <1>6, <1>7 DEF Step

(***************************************************************************)
(* Somebody can always go on, unless a process crashed.                    *)
(***************************************************************************)
LEMMA SurvivorStep == IInv /\ SurvivorInv /\ [Next]_vars => SurvivorInv'
<1> SUFFICES ASSUME IInv, SurvivorInv, [Next]_vars, calm'
             PROVE  \E p \in Process : Survives(p)'
  BY DEF SurvivorInv
<1>1. CASE UNCHANGED vars
  BY <1>1 DEF vars, SurvivorInv, Survives
<1>2. ASSUME NEW q \in Process, Step(q)
      PROVE  \E p \in Process : Survives(p)'
  <2>1. calm
    BY <1>2
    DEF Step, EnsureMigrationsTable, ListFiles, IsMigrationApplied, ExecFile,
        MarkMigrationApplied, Look, Clashed
  <2>2. PICK p \in Process : Survives(p)
    BY <2>1 DEF SurvivorInv
  <2> QED
    BY <1>2, <2>2, OwnStepSurvives, OneOfTwoSurvives
<1>3. ASSUME NEW q \in Process, Restart(q)
      PROVE  Survives(q)'
  BY <1>3 DEF Restart, Goto, Survives, IInv, TypeOK
<1>4. ASSUME NEW q \in Process, Crash(q)
      PROVE  FALSE
  BY <1>4 DEF Crash
<1> QED
  BY <1>1, <1>2, <1>3, <1>4 DEF Next

(***************************************************************************)
(* However many processes start together, on whatever database, and        *)
(* however their statements interleave, they do not all die of each other. *)
(***************************************************************************)
THEOREM OneIsLeft == Spec => []NotEveryoneDies
<1>1. Init => SurvivorInv
  BY MigrateAssumption DEF Init, SurvivorInv, Survives
<1>2. SurvivorInv => NotEveryoneDies
  BY DEF SurvivorInv, NotEveryoneDies, Survives
<1> QED
  BY <1>1, <1>2, SurvivorStep, MigrationInvariant, PTL DEF Spec
===============================================================================

-------------------------- MODULE MigrationsProofs --------------------------
(***************************************************************************)
(* Proofs about Migrations, for any number of processes, files and         *)
(* statements.                                                             *)
(***************************************************************************)
EXTENDS Migrations, Induction, SequenceTheorems, TLAPS

\* There is a filename to start from.
LEMMA SomeFilename == AnyFile \in Filenames
<1>1. PICK s \in Slugs : TRUE
  BY NamesAssumption
<1>2. [num |-> 1, slug |-> s] \in Filenames
  BY NamesAssumption DEF Filenames, Numbers
<1>3. QED
  BY <1>2 DEF AnyFile

\* What a file holds is a list of statements.
LEMMA ContentsAreStatements ==
    FileContents \subseteq Seq(Statements) /\ Empty \in FileContents
BY ContentsAssumption, EmptySeq DEF FileContents, Empty

\* The statement a process is at is a statement.
LEMMA NextStatementType ==
    ASSUME TypeOK, NEW a \in Appliers, More(a)
    PROVE  NextStatement(a) \in Statements
<1>1. body[a] \in Seq(Statements) /\ ran[a] \in Seq(Statements)
  BY ContentsAreStatements DEF TypeOK
<1>2. Len(ran[a]) + 1 \in 1..Len(body[a])
  BY <1>1, LenProperties DEF More
<1>3. QED
  BY <1>1, <1>2, ElementOfSeq DEF NextStatement

\* Shapes and whole files are kept together: what Commit appends to the
\* history is a file's content because nothing is recorded half executed.
LEMMA TypeStep == TypeOK /\ WholeFile /\ [Next]_vars => TypeOK' /\ WholeFile'
<1> SUFFICES ASSUME TypeOK, WholeFile, [Next]_vars
             PROVE  TypeOK' /\ WholeFile'
  OBVIOUS
<1> USE DEF TypeOK, WholeFile, disk, db, plan, tx
<1>1. ASSUME NEW a \in Appliers, Start(a) PROVE TypeOK' /\ WholeFile'
  BY <1>1, SomeFilename, ContentsAreStatements DEF Start, Fresh, Stages
<1>2. ASSUME NEW a \in Appliers, ReadApplied(a) PROVE TypeOK' /\ WholeFile'
  BY <1>2 DEF ReadApplied, Stages
<1>3. ASSUME NEW a \in Appliers, ListFiles(a) PROVE TypeOK' /\ WholeFile'
  BY <1>3 DEF ListFiles, Listed, Pending, Stages
<1>4. ASSUME NEW a \in Appliers, OpenFile(a) PROVE TypeOK' /\ WholeFile'
  BY <1>4 DEF OpenFile, First, Stages, Empty
<1>5. ASSUME NEW a \in Appliers, FileGone(a) PROVE TypeOK' /\ WholeFile'
  BY <1>5 DEF FileGone, Fail, Release, Stages
<1>6. ASSUME NEW a \in Appliers, ExecNoop(a) PROVE TypeOK' /\ WholeFile'
  <2>1. NextStatement(a) \in Statements
    BY <1>6, NextStatementType DEF ExecNoop
  <2>2. Append(ran[a], NextStatement(a)) \in Seq(Statements)
    BY <2>1, AppendProperties
  <2>3. QED
    BY <1>6, <2>2 DEF ExecNoop, More, Stages
<1>7. ASSUME NEW a \in Appliers, ExecStatement(a) PROVE TypeOK' /\ WholeFile'
  <2>1. NextStatement(a) \in Statements
    BY <1>7, NextStatementType DEF ExecStatement
  <2>2. Append(ran[a], NextStatement(a)) \in Seq(Statements)
    BY <2>1, AppendProperties
  <2>3. Effect(NextStatement(a), View(a)) \in SUBSET Objects
    BY <2>1 DEF Effect, View, Statements
  <2>4. QED
    BY <1>7, <2>2, <2>3 DEF ExecStatement, More, Stages
<1>8. ASSUME NEW a \in Appliers, StatementFails(a) PROVE TypeOK' /\ WholeFile'
  BY <1>8 DEF StatementFails, Fail, Release, Stages
<1>9. ASSUME NEW a \in Appliers, AllExecuted(a) PROVE TypeOK' /\ WholeFile'
  BY <1>9 DEF AllExecuted, Stages
<1>10. ASSUME NEW a \in Appliers, RecordFile(a) PROVE TypeOK' /\ WholeFile'
  BY <1>10 DEF RecordFile, View, Stages
<1>11. ASSUME NEW a \in Appliers, AlreadyRecorded(a) PROVE TypeOK' /\ WholeFile'
  BY <1>11 DEF AlreadyRecorded, Fail, Release, Stages
<1>12. ASSUME NEW a \in Appliers, Commit(a) PROVE TypeOK' /\ WholeFile'
  <2>1. ran[a] \in FileContents
    BY <1>12 DEF Commit
  <2>2. history' \in Seq([file : Filenames, ran : FileContents])
    BY <1>12, <2>1, AppendProperties DEF Commit
  <2>3. QED
    BY <1>12, <2>2 DEF Commit, Stages
<1>13. ASSUME NEW a \in Appliers, CommitFails(a) PROVE TypeOK' /\ WholeFile'
  BY <1>13 DEF CommitFails, Fail, Release, Stages
<1>14. ASSUME NEW a \in Appliers, Busy(a) PROVE TypeOK' /\ WholeFile'
  BY <1>14 DEF Busy, Fail, Release, Stages
<1>15. ASSUME NEW a \in Appliers, Finish(a) PROVE TypeOK' /\ WholeFile'
  BY <1>15 DEF Finish, Stages
<1>16. ASSUME NEW a \in Appliers, Kill(a) PROVE TypeOK' /\ WholeFile'
  BY <1>16, SomeFilename, ContentsAreStatements DEF Kill, Fresh, Spend, Release, Stages
<1>17. ASSUME NEW g \in Generators, ChooseName(g) PROVE TypeOK' /\ WholeFile'
  BY <1>17 DEF ChooseName, Filenames
<1>18. ASSUME NEW g \in Generators, CreateFile(g) PROVE TypeOK' /\ WholeFile'
  BY <1>18 DEF CreateFile, FileContents
<1>19. ASSUME NEW g \in Generators, FillFile(g) PROVE TypeOK' /\ WholeFile'
  BY <1>19, SomeFilename, ContentsAreStatements DEF FillFile, FileContents
<1>20. ASSUME NEW g \in Generators, KillGenerator(g) PROVE TypeOK' /\ WholeFile'
  BY <1>20, SomeFilename, ContentsAreStatements DEF KillGenerator, Spend
<1>21. ASSUME NEW f \in Filenames, RemoveFile(f) PROVE TypeOK' /\ WholeFile'
  BY <1>21 DEF RemoveFile, Spend
<1>22. ASSUME NEW f \in Filenames, NEW c \in Contents, EditFile(f, c)
       PROVE  TypeOK' /\ WholeFile'
  BY <1>22 DEF EditFile, FileContents, Spend
<1>23. ASSUME NEW f \in Filenames, NEW c \in Contents, MergeFile(f, c)
       PROVE  TypeOK' /\ WholeFile'
  BY <1>23 DEF MergeFile, FileContents, Spend
<1>24. CASE UNCHANGED vars
  BY <1>24 DEF vars
<1>25. QED
  BY <1>1, <1>2, <1>3, <1>4, <1>5, <1>6, <1>7, <1>8, <1>9, <1>10, <1>11, <1>12,
     <1>13, <1>14, <1>15, <1>16, <1>17, <1>18, <1>19, <1>20, <1>21, <1>22,
     <1>23, <1>24 DEF Next, Step

\* The first state has the right shape.
LEMMA InitType == Init => TypeOK /\ WholeFile
<1> SUFFICES ASSUME Init PROVE TypeOK /\ WholeFile
  OBVIOUS
<1>1. history \in Seq([file : Filenames, ran : FileContents])
  BY DEF Init
<1>2. QED
  BY <1>1, InitDirAssumption, SomeFilename, ContentsAreStatements
     DEF Init, TypeOK, WholeFile, Stages

\* Every variable keeps its shape (Migrations!TypeOK).
THEOREM Typing == Spec => []TypeOK
<1>1. TypeOK /\ WholeFile /\ [Next]_vars => (TypeOK /\ WholeFile)'
  BY TypeStep
<1>2. QED
  BY <1>1, InitType, PTL DEF Spec

-----------------------------------------------------------------------------
\* Only a process that may write takes the lock, and a commit needs it: a step
\* of one process leaves a committing one its lock and its file unrecorded.
LEMMA LockedStep == TypeOK /\ Locked /\ [Next]_vars => Locked'
<1> SUFFICES ASSUME TypeOK, Locked, [Next]_vars, NEW p \in Appliers,
                    pc'[p] = "commit"
             PROVE  writer' = p /\ file'[p] \notin recorded'
  BY DEF Locked
<1> USE NoOneAssumption DEF TypeOK, Locked, disk, db, plan, tx
<1>1. CASE \E a \in Appliers : Start(a) \/ ReadApplied(a) \/ ListFiles(a)
  BY <1>1 DEF Start, Fresh, ReadApplied, ListFiles
<1>2. CASE \E a \in Appliers : OpenFile(a) \/ FileGone(a) \/ Finish(a)
  BY <1>2 DEF OpenFile, FileGone, Finish, Fail, Release
<1>3. CASE \E a \in Appliers : ExecNoop(a) \/ ExecStatement(a)
  BY <1>3 DEF ExecNoop, ExecStatement, More, HasLock
<1>4. CASE \E a \in Appliers : StatementFails(a) \/ AllExecuted(a)
  BY <1>4 DEF StatementFails, AllExecuted, More, Fail, Release
<1>5. CASE \E a \in Appliers : RecordFile(a)
  BY <1>5 DEF RecordFile, HasLock
<1>6. CASE \E a \in Appliers : AlreadyRecorded(a) \/ CommitFails(a) \/ Busy(a)
  BY <1>6 DEF AlreadyRecorded, CommitFails, Busy, More, Fail, Release
<1>7. CASE \E a \in Appliers : Commit(a)
  BY <1>7 DEF Commit
<1>8. CASE \E a \in Appliers : Kill(a)
  BY <1>8 DEF Kill, Fresh, Release
<1>9. CASE \E g \in Generators :
              ChooseName(g) \/ CreateFile(g) \/ FillFile(g) \/ KillGenerator(g)
  BY <1>9 DEF ChooseName, CreateFile, FillFile, KillGenerator
<1>10. CASE \E f \in Filenames :
              \/ RemoveFile(f)
              \/ \E c \in Contents : EditFile(f, c) \/ MergeFile(f, c)
  BY <1>10 DEF RemoveFile, EditFile, MergeFile
<1>11. CASE UNCHANGED vars
  BY <1>11 DEF vars
<1>12. QED
  BY <1>1, <1>2, <1>3, <1>4, <1>5, <1>6, <1>7, <1>8, <1>9, <1>10, <1>11
     DEF Next, Step

\* A process's to-do list shrinks by what it has recorded, and the table only
\* grows under it.
LEMMA ProgressStep == TypeOK /\ Progress /\ [Next]_vars => Progress'
<1> SUFFICES ASSUME TypeOK, Progress, [Next]_vars PROVE Progress'
  OBVIOUS
<1> USE DEF TypeOK, Progress, disk, db, plan, tx
<1>1. CASE \E a \in Appliers : Start(a) \/ ReadApplied(a)
  <2>1. PICK a \in Appliers : Start(a) \/ ReadApplied(a)
    BY <1>1
  <2>2. CASE Start(a)
    BY <2>2 DEF Start, Fresh
  <2>3. CASE ReadApplied(a)
    BY <2>3 DEF ReadApplied
  <2>4. QED
    BY <2>1, <2>2, <2>3
<1>2. CASE \E a \in Appliers : ListFiles(a)
  BY <1>2 DEF ListFiles, Pending, Listed
<1>3. CASE \E a \in Appliers : OpenFile(a)
  BY <1>3 DEF OpenFile
<1>4. CASE \E a \in Appliers : FileGone(a) \/ Finish(a)
  BY <1>4 DEF FileGone, Finish, Fail
<1>5. CASE \E a \in Appliers : ExecNoop(a) \/ ExecStatement(a)
  BY <1>5 DEF ExecNoop, ExecStatement, More
<1>6. CASE \E a \in Appliers : StatementFails(a) \/ AllExecuted(a)
  BY <1>6 DEF StatementFails, AllExecuted, More, Fail
<1>7. CASE \E a \in Appliers : RecordFile(a)
  BY <1>7 DEF RecordFile
<1>8. CASE \E a \in Appliers : AlreadyRecorded(a) \/ CommitFails(a) \/ Busy(a)
  BY <1>8 DEF AlreadyRecorded, CommitFails, Busy, More, Fail
<1>9. CASE \E a \in Appliers : Commit(a)
  BY <1>9 DEF Commit
<1>10. CASE \E a \in Appliers : Kill(a)
  BY <1>10 DEF Kill, Fresh
<1>11. CASE \E g \in Generators :
              ChooseName(g) \/ CreateFile(g) \/ FillFile(g) \/ KillGenerator(g)
  BY <1>11 DEF ChooseName, CreateFile, FillFile, KillGenerator
<1>12. CASE \E f \in Filenames :
              \/ RemoveFile(f)
              \/ \E c \in Contents : EditFile(f, c) \/ MergeFile(f, c)
  BY <1>12 DEF RemoveFile, EditFile, MergeFile
<1>13. CASE UNCHANGED vars
  BY <1>13 DEF vars
<1>14. QED
  BY <1>1, <1>2, <1>3, <1>4, <1>5, <1>6, <1>7, <1>8, <1>9, <1>10, <1>11,
     <1>12, <1>13 DEF Next, Step

\* A step either takes the effect of one file, whole and for the first time,
\* or touches neither the table nor the committed transactions.
LEMMA StepIsLedger ==
    TypeOK /\ WholeFile /\ Locked /\ [Next]_vars
        => [Ledger!Next]_(Ledger!vars)
<1> SUFFICES ASSUME TypeOK, WholeFile, Locked, [Next]_vars
             PROVE  \/ Ledger!Next
                    \/ UNCHANGED <<history, recorded>>
  BY DEF Ledger!vars
<1>1. ASSUME NEW a \in Appliers, Commit(a) PROVE Ledger!Next
  <2>1. ran[a] = body[a] /\ file[a] \notin recorded
    BY <1>1 DEF Commit, WholeFile, Locked
  <2>2. file[a] \in Filenames /\ ran[a] \in FileContents
    BY <2>1 DEF TypeOK
  <2>3. Ledger!TakeEffect(file[a], ran[a])
    BY <1>1, <2>1 DEF Commit, Ledger!TakeEffect
  <2>4. QED
    BY <2>2, <2>3 DEF Ledger!Next
<1>2. ASSUME NEW a \in Appliers, Start(a) \/ Step(a) \/ Kill(a), ~Commit(a)
      PROVE  UNCHANGED <<history, recorded>>
  BY <1>2 DEF Step, Start, ReadApplied, ListFiles, OpenFile, FileGone, ExecNoop,
     ExecStatement, StatementFails, AllExecuted, RecordFile, AlreadyRecorded,
     CommitFails, Busy, Finish, Kill, Fail, db
<1>3. CASE \E g \in Generators :
              ChooseName(g) \/ CreateFile(g) \/ FillFile(g) \/ KillGenerator(g)
  BY <1>3 DEF ChooseName, CreateFile, FillFile, KillGenerator, db
<1>4. CASE \E f \in Filenames :
              \/ RemoveFile(f)
              \/ \E c \in Contents : EditFile(f, c) \/ MergeFile(f, c)
  BY <1>4 DEF RemoveFile, EditFile, MergeFile, db
<1>5. CASE UNCHANGED vars
  BY <1>5 DEF vars, db
<1>6. QED
  BY <1>1, <1>2, <1>3, <1>4, <1>5 DEF Next

\* Whatever follows the ledger keeps its rows and its effects in agreement.
LEMMA LedgerStep ==
    ASSUME TypeOK, AtMostOnce, RecordedIsEffective,
           [Ledger!Next]_(Ledger!vars)
    PROVE  AtMostOnce' /\ RecordedIsEffective'
<1>1. CASE UNCHANGED <<history, recorded>>
  BY <1>1 DEF AtMostOnce, RecordedIsEffective
<1>2. ASSUME NEW f \in Filenames, NEW c \in FileContents,
             Ledger!TakeEffect(f, c)
      PROVE  AtMostOnce' /\ RecordedIsEffective'
  <2> DEFINE e == [file |-> f, ran |-> c]
             n == Len(history)
  <2>1. /\ history' = Append(history, e)
        /\ recorded' = recorded \cup {f}
        /\ f \notin recorded
    BY <1>2 DEF Ledger!TakeEffect
  <2>2. /\ n \in Nat
        /\ Len(history') = n + 1
        /\ history'[n + 1].file = f
        /\ \A i \in 1..n : history'[i] = history[i]
    BY <2>1, AppendProperties, LenProperties DEF TypeOK
  <2> HIDE DEF n, e
  <2>3. AtMostOnce'
    BY <2>1, <2>2 DEF AtMostOnce, RecordedIsEffective, n
  <2>4. RecordedIsEffective'
    BY <2>1, <2>2 DEF RecordedIsEffective, n
  <2>5. QED
    BY <2>3, <2>4
<1>3. QED
  BY <1>1, <1>2 DEF Ledger!Next, Ledger!vars

-----------------------------------------------------------------------------
\* What a process in apply_with relies on holds in every reachable state.
THEOREM Inductive == Spec => []IInv
<1>1. Init => IInv
  <2> SUFFICES ASSUME Init PROVE IInv
    OBVIOUS
  <2>1. TypeOK /\ WholeFile
    BY InitType
  <2>2. Locked /\ Progress
    BY DEF Init, Locked, Progress
  <2>3. AtMostOnce /\ RecordedIsEffective
    BY DEF Init, AtMostOnce, RecordedIsEffective
  <2>4. QED
    BY <2>1, <2>2, <2>3 DEF IInv
<1>2. IInv /\ [Next]_vars => IInv'
  BY TypeStep, LockedStep, ProgressStep, StepIsLedger, LedgerStep DEF IInv
<1>3. QED
  BY <1>1, <1>2, PTL DEF Spec

\* A file takes effect at most once, whoever applies it (Migrations!AtMostOnce).
THEOREM Once == Spec => []AtMostOnce
BY Inductive, PTL DEF IInv

\* The tracking table names exactly the committed files
\* (Migrations!RecordedIsEffective).
THEOREM Recorded == Spec => []RecordedIsEffective
BY Inductive, PTL DEF IInv

\* Ok means that nothing listed is pending (Migrations!OkMeansComplete).
THEOREM Complete == Spec => []OkMeansComplete
<1>1. IInv => OkMeansComplete
  BY DEF IInv, Progress, OkMeansComplete, Pending
<1>2. QED
  BY <1>1, Inductive, PTL

\* No file of a run commits before those listed before it (Migrations!InOrder).
THEOREM Ordered == Spec => InOrder
<1> DEFINE A == \A a \in Appliers :
                    (pc[a] = "commit" /\ recorded' # recorded
                                         /\ pc'[a] = "loop")
                        => \A f \in listed[a] :
                            Rank[f] < Rank[file[a]] => f \in recorded
<1>1. IInv => A
  <2> SUFFICES ASSUME IInv, NEW a \in Appliers, pc[a] = "commit",
                      NEW f \in listed[a], Rank[f] < Rank[file[a]]
               PROVE  f \in recorded
    OBVIOUS
  <2>1. First(file[a], todo[a]) /\ listed[a] \ todo[a] \subseteq recorded
    BY DEF IInv, Progress
  <2>2. /\ f \in Filenames /\ file[a] \in Filenames
        /\ Rank[f] \in Nat /\ Rank[file[a]] \in Nat
    BY RankAssumption DEF IInv, TypeOK
  <2>3. f \notin todo[a]
    BY <2>1, <2>2 DEF First
  <2>4. QED
    BY <2>1, <2>3
<1>2. QED
  BY <1>1, Inductive, PTL DEF InOrder

\* apply_with, with everything that runs beside it, implements the ledger
\* (Migrations!LedgerSpec).
THEOREM Implements == Spec => LedgerSpec
<1>1. Init => Ledger!Init
  BY DEF Init, Ledger!Init
<1>2. IInv /\ [Next]_vars => [Ledger!Next]_(Ledger!vars)
  BY StepIsLedger DEF IInv
<1>3. QED
  BY <1>1, <1>2, Inductive, PTL DEF Spec, LedgerSpec, Ledger!Spec

-----------------------------------------------------------------------------
\* What statements and transactions make of a database.

Databases == SUBSET Objects

\* The step of Ran as a function, and what it is after k statements.
Statement(did) ==
    [p \in Nat \X Databases |->
        IF p[1] < Len(did) THEN Effect(did[p[1] + 1], p[2]) ELSE p[2]]

\* A list of statements yields a database, and it does so step by step.
LEMMA RanFollows ==
    ASSUME NEW did \in Seq(Statements), NEW before \in Databases
    PROVE  \E g :
               /\ \A k \in 0..Len(did) : g[k] \in Databases
               /\ Follows(g, Len(did), before, Statement(did))
               /\ Ran(did, before) = g[Len(did)]
<1> DEFINE N == Len(did)
           F == Statement(did)
<1>1. N \in Nat
  BY LenProperties
<1>2. F \in [Nat \X Databases -> Databases]
  <2>1. ASSUME NEW k \in Nat, NEW o \in Databases, k < N
        PROVE  Effect(did[k + 1], o) \in Databases
    <3>1. did[k + 1] \in Statements
      BY <1>1, <2>1, ElementOfSeq
    <3>2. QED
      BY <3>1 DEF Effect, Statements, Databases
  <2>2. QED
    BY <2>1 DEF Statement
<1>3. PICK g \in [0..N -> Databases] : Follows(g, N, before, F)
  BY <1>1, <1>2, Recursion
<1> DEFINE Body(h) == [k \in 0..N |-> IF k = 0 THEN before ELSE Effect(did[k], h[k - 1])]
<1>4. g = Body(g)
  <2>1. ASSUME NEW k \in 0..N PROVE g[k] = Body(g)[k]
    <3>1. CASE k = 0
      BY <3>1, <1>3 DEF Follows
    <3>2. CASE k # 0
      <4>1. k - 1 \in 0..N /\ k - 1 < N /\ k - 1 + 1 = k /\ k - 1 \in Nat
        BY <1>1, <3>2
      <4>2. g[k - 1] \in Databases
        BY <4>1
      <4>3. g[k - 1 + 1] = F[<<k - 1, g[k - 1]>>]
        BY <1>3, <4>1 DEF Follows
      <4>4. F[<<k - 1, g[k - 1]>>] = Effect(did[k], g[k - 1])
        BY <4>1, <4>2 DEF Statement
      <4>5. QED
        BY <3>2, <4>1, <4>3, <4>4
    <3>3. QED
      BY <3>1, <3>2
  <2>2. QED
    BY <2>1
<1> DEFINE after == CHOOSE h : h = Body(h)
<1>5. after = Body(after)
  BY <1>4
<1>6. (\A k \in 0..N : after[k] \in Databases) /\ Follows(after, N, before, F)
  <2> HIDE DEF after
  <2>1. after[0] = before
    BY <1>1, <1>5
  <2>2. ASSUME NEW k \in 0..N, k < N, after[k] \in Databases
        PROVE  after[k + 1] = F[<<k, after[k]>>]
    <3>1. /\ k \in Nat /\ k + 1 \in 0..N /\ k + 1 # 0 /\ k + 1 - 1 = k
          /\ <<k, after[k]>> \in Nat \X Databases
      BY <1>1, <2>2
    <3>2. after[k + 1] = Effect(did[k + 1], after[k])
      BY <1>5, <3>1
    <3>3. F[<<k, after[k]>>] = Effect(did[k + 1], after[k])
      BY <2>2, <3>1 DEF Statement
    <3>4. QED
      BY <3>2, <3>3
  <2> HIDE DEF F, N
  <2>3. QED
    BY <1>1, <1>2, <2>1, <2>2, Unfolding
<1>7. Ran(did, before) = after[N]
  BY Zenon DEF Ran
<1>8. QED
  BY <1>6, <1>7

LEMMA RanOfNone == \A o \in Databases : Ran(<<>>, o) = o
<1> SUFFICES ASSUME NEW o \in Databases PROVE Ran(<<>>, o) = o
  OBVIOUS
<1>1. PICK g : Follows(g, Len(<<>>), o, Statement(<<>>)) /\ Ran(<<>>, o) = g[Len(<<>>)]
  BY RanFollows, EmptySeq
<1>2. QED
  BY <1>1 DEF Follows

LEMMA RanType ==
    ASSUME NEW did \in Seq(Statements), NEW o \in Databases
    PROVE  Ran(did, o) \in Databases
<1>1. Len(did) \in Nat
  BY LenProperties
<1>2. QED
  BY <1>1, RanFollows

\* One more statement has its effect after the others.
LEMMA RanOneMore ==
    ASSUME NEW did \in Seq(Statements), NEW s \in Statements, NEW o \in Databases
    PROVE  Ran(Append(did, s), o) = Effect(s, Ran(did, o))
<1> DEFINE N == Len(did)
           more == Append(did, s)
<1>1. N \in Nat /\ more \in Seq(Statements) /\ Len(more) = N + 1
      /\ more[N + 1] = s /\ \A k \in 1..N : more[k] = did[k]
  BY AppendProperties, LenProperties
<1>2. PICK g :
          Follows(g, N, o, Statement(did)) /\ Ran(did, o) = g[N]
  BY RanFollows
<1>3. PICK h :
          /\ \A k \in 0..(N + 1) : h[k] \in Databases
          /\ Follows(h, N + 1, o, Statement(more)) /\ Ran(more, o) = h[N + 1]
  BY <1>1, RanFollows
<1> HIDE DEF more, N
<1>4. ASSUME NEW k \in 0..N, k < N, NEW x \in Databases
      PROVE  Statement(more)[<<k, x>>] = Statement(did)[<<k, x>>]
  BY <1>1, <1>4 DEF Statement, N
<1>5. Follows(h, N, o, Statement(did))
  <2>1. \A k \in 0..N : k < N => h[k] \in Databases /\ h[k + 1] = Statement(more)[<<k, h[k]>>]
    BY <1>1, <1>3 DEF Follows
  <2>2. h[0] = o
    BY <1>3 DEF Follows
  <2>3. QED
    BY <1>4, <2>1, <2>2 DEF Follows
<1>6. h[N] = g[N]
  BY <1>1, <1>2, <1>5, FollowsOnce
<1>7. h[N + 1] = Statement(more)[<<N, h[N]>>] /\ h[N] \in Databases
  BY <1>1, <1>3 DEF Follows
<1>8. Statement(more)[<<N, h[N]>>] = Effect(s, h[N])
  BY <1>1, <1>7 DEF Statement
<1>9. QED
  BY <1>2, <1>3, <1>6, <1>7, <1>8 DEF more

Transactions == [file : Filenames, ran : FileContents]

Transaction(done) ==
    [p \in Nat \X Databases |->
        IF p[1] < Len(done) THEN Ran(done[p[1] + 1].ran, p[2]) ELSE p[2]]

\* A list of transactions yields a database, step by step.
LEMMA ReplayFollows ==
    ASSUME NEW done \in Seq(Transactions)
    PROVE  \E g :
               /\ \A k \in 0..Len(done) : g[k] \in Databases
               /\ Follows(g, Len(done), {}, Transaction(done))
               /\ Replay(done) = g[Len(done)]
<1> DEFINE N == Len(done)
           F == Transaction(done)
<1>1. N \in Nat /\ {} \in Databases
  BY LenProperties DEF Databases
<1>2. F \in [Nat \X Databases -> Databases]
  <2>1. ASSUME NEW k \in Nat, NEW o \in Databases, k < N
        PROVE  Ran(done[k + 1].ran, o) \in Databases
    <3>1. done[k + 1] \in Transactions
      BY <1>1, <2>1, ElementOfSeq
    <3>2. done[k + 1].ran \in Seq(Statements)
      BY <3>1, ContentsAreStatements DEF Transactions
    <3>3. QED
      BY <3>2, RanType
  <2>2. QED
    BY <2>1 DEF Transaction
<1>3. PICK g \in [0..N -> Databases] : Follows(g, N, {}, F)
  BY <1>1, <1>2, Recursion
<1> DEFINE Body(h) == [k \in 0..N |-> IF k = 0 THEN {} ELSE Ran(done[k].ran, h[k - 1])]
<1>4. g = Body(g)
  <2>1. ASSUME NEW k \in 0..N PROVE g[k] = Body(g)[k]
    <3>1. CASE k = 0
      BY <3>1, <1>3 DEF Follows
    <3>2. CASE k # 0
      <4>1. k - 1 \in 0..N /\ k - 1 < N /\ k - 1 + 1 = k /\ k - 1 \in Nat
        BY <1>1, <3>2
      <4>2. g[k - 1] \in Databases
        BY <4>1
      <4>3. g[k - 1 + 1] = F[<<k - 1, g[k - 1]>>]
        BY <1>3, <4>1 DEF Follows
      <4>4. F[<<k - 1, g[k - 1]>>] = Ran(done[k].ran, g[k - 1])
        BY <4>1, <4>2 DEF Transaction
      <4>5. QED
        BY <3>2, <4>1, <4>3, <4>4
    <3>3. QED
      BY <3>1, <3>2
  <2>2. QED
    BY <2>1
<1> DEFINE after == CHOOSE h : h = Body(h)
<1>5. after = Body(after)
  BY <1>4
<1>6. (\A k \in 0..N : after[k] \in Databases) /\ Follows(after, N, {}, F)
  <2> HIDE DEF after
  <2>1. after[0] = {}
    BY <1>1, <1>5
  <2>2. ASSUME NEW k \in 0..N, k < N, after[k] \in Databases
        PROVE  after[k + 1] = F[<<k, after[k]>>]
    <3>1. /\ k \in Nat /\ k + 1 \in 0..N /\ k + 1 # 0 /\ k + 1 - 1 = k
          /\ <<k, after[k]>> \in Nat \X Databases
      BY <1>1, <2>2
    <3>2. after[k + 1] = Ran(done[k + 1].ran, after[k])
      <4>1. \A j \in 0..N : after[j] = Body(after)[j]
        BY <1>5
      <4>2. \A j \in 0..N : j # 0 => Body(after)[j] = Ran(done[j].ran, after[j - 1])
        OBVIOUS
      <4>3. QED
        BY <3>1, <4>1, <4>2
    <3>3. F[<<k, after[k]>>] = Ran(done[k + 1].ran, after[k])
      BY <2>2, <3>1 DEF Transaction
    <3>4. QED
      BY <3>1, <3>2, <3>3
  <2> HIDE DEF F, N
  <2>3. QED
    BY <1>1, <1>2, <2>1, <2>2, Unfolding
<1>7. Replay(done) = after[N]
  BY Zenon DEF Replay
<1>8. QED
  BY <1>6, <1>7

LEMMA ReplayOfNone == Replay(<<>>) = {}
<1>1. PICK g : Follows(g, Len(<<>>), {}, Transaction(<<>>)) /\ Replay(<<>>) = g[Len(<<>>)]
  BY ReplayFollows, EmptySeq
<1>2. QED
  BY <1>1 DEF Follows

LEMMA ReplayType ==
    ASSUME NEW done \in Seq(Transactions)
    PROVE  Replay(done) \in Databases
<1>1. Len(done) \in Nat
  BY LenProperties
<1>2. QED
  BY <1>1, ReplayFollows

\* One more transaction runs after the others.
LEMMA ReplayOneMore ==
    ASSUME NEW done \in Seq(Transactions), NEW e \in Transactions
    PROVE  Replay(Append(done, e)) = Ran(e.ran, Replay(done))
<1> DEFINE N == Len(done)
           more == Append(done, e)
<1>1. N \in Nat /\ more \in Seq(Transactions) /\ Len(more) = N + 1
      /\ more[N + 1] = e /\ \A k \in 1..N : more[k] = done[k]
  BY AppendProperties, LenProperties
<1>2. PICK g : Follows(g, N, {}, Transaction(done)) /\ Replay(done) = g[N]
  BY ReplayFollows
<1>3. PICK h :
          /\ \A k \in 0..(N + 1) : h[k] \in Databases
          /\ Follows(h, N + 1, {}, Transaction(more)) /\ Replay(more) = h[N + 1]
  BY <1>1, ReplayFollows
<1> HIDE DEF more, N
<1>4. ASSUME NEW k \in 0..N, k < N, NEW x \in Databases
      PROVE  Transaction(more)[<<k, x>>] = Transaction(done)[<<k, x>>]
  BY <1>1, <1>4 DEF Transaction, N
<1>5. Follows(h, N, {}, Transaction(done))
  <2>1. \A k \in 0..N : k < N => h[k] \in Databases /\ h[k + 1] = Transaction(more)[<<k, h[k]>>]
    BY <1>1, <1>3 DEF Follows
  <2>2. h[0] = {}
    BY <1>3 DEF Follows
  <2>3. QED
    BY <1>4, <2>1, <2>2 DEF Follows
<1>6. h[N] = g[N]
  BY <1>1, <1>2, <1>5, FollowsOnce
<1>7. h[N + 1] = Transaction(more)[<<N, h[N]>>] /\ h[N] \in Databases
  BY <1>1, <1>3 DEF Follows
<1>8. Transaction(more)[<<N, h[N]>>] = Ran(e.ran, h[N])
  BY <1>1, <1>7 DEF Transaction
<1>9. QED
  BY <1>2, <1>3, <1>6, <1>7, <1>8 DEF more

-----------------------------------------------------------------------------
\* The statement a process is at, if it is no SQL, changes nothing.
LEMMA NoopHasNoEffect ==
    ASSUME TypeOK, NEW a \in Appliers, More(a), NextStatement(a).op = "noop",
           NEW o \in Databases
    PROVE  Effect(NextStatement(a), o) = o
<1>1. body[a] \in FileContents /\ Len(ran[a]) \in Nat /\ body[a] \in Seq(Statements)
  BY ContentsAreStatements, LenProperties DEF TypeOK
<1>2. Len(ran[a]) + 1 \in DOMAIN body[a]
  BY <1>1, LenProperties DEF More
<1>3. body[a] \in Contents
  BY <1>1, <1>2 DEF FileContents, Empty
<1>4. NextStatement(a).adds = {} /\ NextStatement(a).drops = {}
  BY <1>2, <1>3, NoopAssumption DEF NextStatement
<1>5. QED
  BY <1>4 DEF Effect, Databases

\* A step of another process leaves a to what it sees.
LEMMA IsolatedStep == TypeOK /\ Locked /\ WholeFile /\ Isolated /\ [Next]_vars => Isolated'
<1> SUFFICES ASSUME TypeOK, Locked, WholeFile, Isolated, [Next]_vars
             PROVE  Isolated'
  OBVIOUS
<1>0. /\ objects \in Databases
      /\ \A a \in Appliers : ran[a] \in Seq(Statements) /\ view[a] \in Databases
  BY DEF TypeOK, Databases
<1> USE NoOneAssumption DEF disk, db, plan, tx
<1>1. ASSUME NEW a \in Appliers, Start(a) \/ Kill(a) PROVE Isolated'
  <2>1. /\ history' = history /\ objects' = objects
        /\ writer' # a
        /\ pc'[a] \in {"started", "idle"}
        /\ \A p \in Appliers \ {a} :
              /\ pc'[p] = pc[p] /\ ran'[p] = ran[p] /\ view'[p] = view[p]
              /\ (writer' = p) = (writer = p)
    <3>1. CASE Start(a)
      BY <3>1 DEF Start, Fresh, Isolated, TypeOK
    <3>2. CASE Kill(a)
      BY <3>2 DEF Kill, Fresh, TypeOK, Release
    <3>3. QED
      BY <1>1, <3>1, <3>2
  <2>2. QED
    BY <2>1 DEF Isolated, DatabaseIsHistory
<1>2. ASSUME NEW a \in Appliers, ReadApplied(a) \/ ListFiles(a) \/ AllExecuted(a) \/ Finish(a)
      PROVE  Isolated'
  BY <1>2, ZenonT(40) DEF ReadApplied, ListFiles, AllExecuted, Finish, Isolated, DatabaseIsHistory, TypeOK
<1>3. ASSUME NEW a \in Appliers, OpenFile(a) PROVE Isolated'
  BY <1>3, RanOfNone DEF OpenFile, Isolated, DatabaseIsHistory, TypeOK, Empty, Databases
<1>4. ASSUME NEW a \in Appliers, Fail(a) PROVE Isolated'
  BY <1>4 DEF Fail, Release, Isolated, DatabaseIsHistory, TypeOK
<1>5. ASSUME NEW a \in Appliers, ExecNoop(a) PROVE Isolated'
  <2> DEFINE s == NextStatement(a)
  <2>1. s \in Statements
    BY <1>5, NextStatementType DEF ExecNoop
  <2>2. \A o \in Databases : Ran(Append(ran[a], s), o) = Ran(ran[a], o)
    BY <1>0, <1>5, <2>1, RanOneMore, RanType, NoopHasNoEffect DEF ExecNoop
  <2> HIDE DEF s
  <2>3. QED
    BY <1>0, <1>5, <2>2 DEF ExecNoop, Isolated, DatabaseIsHistory, TypeOK, Databases, s
<1>6. ASSUME NEW a \in Appliers, ExecStatement(a) PROVE Isolated'
  <2> DEFINE s == NextStatement(a)
  <2>1. s \in Statements
    BY <1>6, NextStatementType DEF ExecStatement
  <2>2. Ran(Append(ran[a], s), objects) = Effect(s, Ran(ran[a], objects))
    BY <1>0, <2>1, RanOneMore
  <2>3. View(a) = Ran(ran[a], objects)
    BY <1>0, <1>6 DEF ExecStatement, More, Isolated, View, Databases
  <2> HIDE DEF s
  <2>4. QED
    BY <1>0, <1>6, <2>2, <2>3
       DEF ExecStatement, More, HasLock, Isolated, DatabaseIsHistory, TypeOK, Databases, s
<1>7. ASSUME NEW a \in Appliers, RecordFile(a) PROVE Isolated'
  BY <1>0, <1>7 DEF RecordFile, HasLock, View, Isolated, DatabaseIsHistory, TypeOK, Databases
<1>8. ASSUME NEW a \in Appliers, Commit(a) PROVE Isolated'
  <2> DEFINE e == [file |-> file[a], ran |-> ran[a]]
  <2>1. writer = a /\ view[a] = Ran(ran[a], objects) /\ objects = Replay(history)
    BY <1>8 DEF Commit, Locked, Isolated, DatabaseIsHistory
  <2>2. e \in Transactions /\ history \in Seq(Transactions)
    BY <1>8 DEF Commit, WholeFile, TypeOK, Transactions
  <2>3. Replay(Append(history, e)) = Ran(ran[a], Replay(history))
    BY <2>2, ReplayOneMore
  <2>4. DatabaseIsHistory'
    BY <1>8, <2>1, <2>3 DEF Commit, DatabaseIsHistory
  <2>5. QED
    BY <1>8, <2>1, <2>4 DEF Commit, Isolated, TypeOK
<1>9. CASE \E g \in Generators :
              ChooseName(g) \/ CreateFile(g) \/ FillFile(g) \/ KillGenerator(g)
  BY <1>9 DEF ChooseName, CreateFile, FillFile, KillGenerator, Isolated, DatabaseIsHistory
<1>10. CASE \E f \in Filenames :
              \/ RemoveFile(f)
              \/ \E c \in Contents : EditFile(f, c) \/ MergeFile(f, c)
  BY <1>10 DEF RemoveFile, EditFile, MergeFile, Isolated, DatabaseIsHistory
<1>11. CASE UNCHANGED vars
  BY <1>11 DEF vars, Isolated, DatabaseIsHistory
<1>12. ASSUME NEW a \in Appliers,
              \/ FileGone(a) \/ StatementFails(a) \/ AlreadyRecorded(a)
              \/ CommitFails(a) \/ Busy(a)
       PROVE  Fail(a)
  BY <1>12 DEF FileGone, StatementFails, AlreadyRecorded, CommitFails, Busy
<1>13. QED
  BY <1>1, <1>2, <1>3, <1>4, <1>5, <1>6, <1>7, <1>8, <1>9, <1>10, <1>11, <1>12
     DEF Next, Step

\* The database is what the committed files made of it
\* (Migrations!DatabaseIsHistory).
THEOREM Replays == Spec => []DatabaseIsHistory
<1>1. Init => Isolated
  BY ReplayOfNone, NoOneAssumption DEF Init, Isolated, DatabaseIsHistory
<1>2. IInv /\ Isolated /\ [Next]_vars => Isolated'
  BY IsolatedStep DEF IInv
<1>3. Isolated => DatabaseIsHistory
  BY DEF Isolated
<1>4. QED
  BY <1>1, <1>2, <1>3, Inductive, PTL DEF Spec

-----------------------------------------------------------------------------
\* One author: one process generates, nobody edits, adds or removes by hand.
OneAuthor ==
    /\ \A g, h \in Generators : g = h
    /\ MaxEdits = 0 /\ MaxMerges = 0 /\ MaxRemoves = 0

\* Names sort by their numbers, as they do up to 9999, and the files that are
\* there from the start have numbers of their own.
NumbersSort ==
    /\ \A f, g \in Filenames : f.num < g.num => Rank[f] < Rank[g]
    /\ \A f, g \in Listed(InitDir) : f.num = g.num => f = g

LEMMA FilenameNumber == \A f \in Filenames : f.num \in Nat
BY NamesAssumption DEF Filenames, Numbers

\* The next number is above all there are.
LEMMA NextIsAbove ==
    ASSUME NEW files \in SUBSET Filenames, NextNumber(files) \in Numbers, NEW f \in files
    PROVE  f.num < NextNumber(files)
<1> DEFINE P(n) == /\ \E x \in files : n = x.num + 1
                   /\ \A x \in files : x.num < n
           R == 1..(MaxNumber + 1)
           T == {y \in Nat : \A x \in files : x.num <= y}
<1>1. \A x \in files : x.num \in Nat /\ x.num <= MaxNumber
  BY NamesAssumption DEF Filenames, Numbers
<1>2. T # {}
  BY <1>1, NamesAssumption
<1>3. PICK m \in T : \A y \in T : m <= y
  BY <1>2, LeastMember
<1>4. \E x \in files : x.num = m
  <2> SUFFICES ASSUME \A x \in files : x.num # m PROVE FALSE
    OBVIOUS
  <2>1. m \in Nat /\ f.num < m
    BY <1>1, <1>3
  <2>2. m - 1 \in T
    BY <1>1, <1>3, <2>1
  <2>3. QED
    BY <1>3, <2>1, <2>2
<1>5. P(m + 1) /\ m + 1 \in R
  <2>1. m \in Nat /\ m <= MaxNumber
    BY <1>1, <1>3, <1>4
  <2>2. \A x \in files : x.num < m + 1
    BY <1>1, <1>3, <2>1
  <2>3. QED
    BY <1>4, <2>1, <2>2, NamesAssumption
<1>6. NextNumber(files) = CHOOSE n \in R : P(n)
  BY DEF NextNumber
<1> HIDE DEF P, R
<1>7. P(NextNumber(files))
  BY <1>5, <1>6
<1>8. QED
  BY <1>7 DEF P

\* Steps that leave the files and what is recorded alone.
LEMMA NumberedKept ==
    ASSUME Numbered, UNCHANGED <<recorded, history>>, Listed(dir)' = Listed(dir),
           \A g \in Generators : gpc'[g] = gpc[g] /\ gfile'[g] = gfile[g],
           \A a \in Appliers : /\ todo'[a] \subseteq listed'[a]
                               /\ listed'[a] \in {listed[a], {}, Listed(dir)}
    PROVE  Numbered'
BY DEF Numbered, NumbersUnique, HistoryAscends

\* A file takes effect when all before it have.
LEMMA CommitNumbered ==
    ASSUME NumbersSort, IInv, Numbered, NEW a \in Appliers, Commit(a)
    PROVE  Numbered'
<1> DEFINE f == file[a]
           e == [file |-> f, ran |-> ran[a]]
           n == Len(history)
<1>1. /\ First(f, todo[a]) /\ listed[a] \ todo[a] \subseteq recorded /\ f \notin recorded
      /\ f \in Filenames /\ recorded = {history[i].file : i \in 1..Len(history)}
  BY DEF IInv, Progress, Locked, TypeOK, RecordedIsEffective, Commit
<1>2. /\ todo[a] \subseteq listed[a] /\ listed[a] \subseteq Listed(dir)
      /\ \A x \in Listed(dir), y \in listed[a] : x.num < y.num => x \in listed[a]
      /\ recorded \subseteq Listed(dir)
      /\ \A x \in Listed(dir), y \in recorded : x.num < y.num => x \in recorded
      /\ NumbersUnique
  BY DEF Numbered
<1>3. f \in Listed(dir) /\ Listed(dir) \subseteq Filenames /\ Listed(dir)' = Listed(dir)
  BY <1>1, <1>2 DEF First, Listed, Commit, disk
<1>4. \A x \in Listed(dir) : x.num \in Nat /\ Rank[x] \in Nat
  BY <1>3, FilenameNumber, RankAssumption
<1>5. ASSUME NEW x \in Listed(dir), x.num < f.num PROVE x \in recorded
  <2>1. x \in listed[a]
    BY <1>1, <1>2, <1>5 DEF First
  <2>2. Rank[x] < Rank[f]
    BY <1>3, <1>5 DEF NumbersSort
  <2>3. x \notin todo[a]
    BY <1>1, <1>3, <1>4, <2>2 DEF First
  <2>4. QED
    BY <1>1, <2>1, <2>3
<1>6. ASSUME NEW x \in recorded PROVE x.num < f.num
  <2>1. x \in Listed(dir) /\ x # f
    BY <1>1, <1>2
  <2>2. ~(f.num < x.num)
    BY <1>1, <1>2, <1>3
  <2>3. x.num # f.num
    BY <1>2, <1>3, <2>1 DEF NumbersUnique
  <2>4. QED
    BY <1>3, <1>4, <2>1, <2>2, <2>3
<1>7. /\ n \in Nat /\ Len(history') = n + 1 /\ history'[n + 1] = e
      /\ \A i \in 1..n : history'[i] = history[i]
  BY AppendProperties, LenProperties DEF IInv, TypeOK, Commit
<1>8. HistoryAscends'
  <2> SUFFICES ASSUME NEW i \in 1..Len(history'), NEW j \in 1..Len(history'), i < j
               PROVE  history'[i].file.num < history'[j].file.num
    BY DEF HistoryAscends
  <2>1. CASE j = n + 1
    BY <1>1, <1>6, <1>7, <2>1
  <2>2. CASE j # n + 1
    BY <1>7, <2>2 DEF Numbered, HistoryAscends
  <2>3. QED
    BY <2>1, <2>2
<1>9. recorded' = recorded \cup {f} /\ todo'[a] \subseteq todo[a]
      /\ \A p \in Appliers \ {a} : todo'[p] = todo[p]
  BY DEF Commit, IInv, TypeOK
<1>10. UNCHANGED <<dir, gpc, gfile, listed>>
  BY DEF Commit, disk
<1> HIDE DEF f
<1>11. QED
  BY <1>2, <1>3, <1>5, <1>8, <1>9, <1>10 DEF Numbered, NumbersUnique

LEMMA NumberedStep ==
    ASSUME OneAuthor, NumbersSort, IInv, Numbered, [Next]_vars
    PROVE  Numbered'
<1> USE DEF disk, db, plan, tx
<1>0. TypeOK
  BY DEF IInv
<1>1. ASSUME NEW a \in Appliers, Start(a) \/ Kill(a) PROVE Numbered'
  <2>1. UNCHANGED <<dir, gpc, gfile, recorded, history>> /\ Fresh(a)
    BY <1>1 DEF Start, Kill
  <2>2. QED
    BY <1>0, <2>1, NumberedKept DEF Fresh, TypeOK, Numbered, Listed
<1>2. ASSUME NEW a \in Appliers, Step(a), ~Commit(a), ~ListFiles(a) PROVE Numbered'
  <2>1. UNCHANGED <<dir, gpc, gfile, recorded, history, todo, listed>>
    BY <1>2 DEF Step, ReadApplied, OpenFile, FileGone, ExecNoop, ExecStatement,
       StatementFails, AllExecuted, RecordFile, AlreadyRecorded, CommitFails, Busy,
       Finish, Fail
  <2>2. QED
    BY <2>1, NumberedKept DEF Numbered, Listed
<1>3. ASSUME NEW a \in Appliers, ListFiles(a) PROVE Numbered'
  <2>1. UNCHANGED <<dir, gpc, gfile, recorded, history>>
    BY <1>3 DEF ListFiles
  <2>2. QED
    BY <1>0, <1>3, <2>1, NumberedKept DEF ListFiles, Pending, TypeOK, Numbered, Listed
<1>4. ASSUME NEW a \in Appliers, Commit(a) PROVE Numbered'
  BY <1>4, CommitNumbered
<1>5. ASSUME NEW g \in Generators, ChooseName(g) PROVE Numbered'
  <2> DEFINE files == Listed(dir)
  <2>1. files \in SUBSET Filenames /\ NextNumber(files) \in Numbers
    BY <1>5 DEF ChooseName, Listed
  <2>2. \A f \in files : f.num < NextNumber(files)
    BY <2>1, NextIsAbove
  <2>3. gpc'[g] = "named" /\ gfile'[g].num = NextNumber(files)
    BY <1>0, <1>5 DEF ChooseName, TypeOK
  <2>4. \A h \in Generators : h = g
    BY DEF OneAuthor
  <2>5. UNCHANGED <<dir, recorded, history, todo, listed>>
    BY <1>5 DEF ChooseName
  <2> HIDE DEF files
  <2>6. QED
    BY <2>2, <2>3, <2>4, <2>5 DEF Numbered, NumbersUnique, HistoryAscends, files, Listed
<1>6. ASSUME NEW g \in Generators, CreateFile(g) PROVE Numbered'
  <2>1. \A h \in Generators : h = g
    BY DEF OneAuthor
  <2>2. UNCHANGED <<gfile, recorded, history, todo, listed>> /\ gpc'[g] = "created"
    BY <1>0, <1>6 DEF CreateFile, TypeOK
  <2>3. Listed(dir)' = Listed(dir) \cup {gfile[g]} /\ gfile[g] \in Filenames
    BY <1>0, <1>6, AbsentAssumption DEF CreateFile, TypeOK, Listed, FileContents
  <2>4. \A f \in Listed(dir) : f.num < gfile[g].num /\ f.num \in Nat
    BY <1>6, FilenameNumber DEF CreateFile, Numbered, Listed
  <2>5. gfile[g].num \in Nat
    BY <2>3, FilenameNumber
  <2>6. NumbersUnique'
    BY <2>3, <2>4, <2>5 DEF Numbered, NumbersUnique
  <2>7. ASSUME NEW S \in SUBSET Listed(dir),
               \A x \in Listed(dir), y \in S : x.num < y.num => x \in S
        PROVE  \A x \in Listed(dir)', y \in S : x.num < y.num => x \in S
    BY <2>3, <2>4, <2>5, <2>7
  <2>8. QED
    BY <2>1, <2>2, <2>3, <2>6, <2>7 DEF Numbered, HistoryAscends
<1>7. ASSUME NEW g \in Generators, FillFile(g) PROVE Numbered'
  <2>1. \A h \in Generators : h = g
    BY DEF OneAuthor
  <2>2. UNCHANGED <<gfile, recorded, history, todo, listed>> /\ gpc'[g] = "idle"
    BY <1>0, <1>7 DEF FillFile, TypeOK
  <2>3. Listed(dir)' = Listed(dir)
    BY <1>0, <1>7, AbsentAssumption DEF FillFile, TypeOK, Listed, FileContents, Numbered
  <2>4. QED
    BY <2>1, <2>2, <2>3 DEF Numbered, NumbersUnique, HistoryAscends
<1>8. ASSUME NEW g \in Generators, KillGenerator(g) PROVE Numbered'
  <2>1. UNCHANGED <<dir, gfile, recorded, history, todo, listed>>
    BY <1>8 DEF KillGenerator
  <2>2. \A h \in Generators : gpc'[h] \in {gpc[h], "idle"}
    BY <1>0, <1>8 DEF KillGenerator, TypeOK
  <2>3. QED
    BY <2>1, <2>2 DEF Numbered, NumbersUnique, HistoryAscends, Listed
<1>9. ASSUME NEW what \in {"edits", "merges", "removes"}, Spend(what, 0) PROVE FALSE
  BY <1>0, <1>9 DEF Spend, TypeOK
<1>10. CASE \E f \in Filenames :
              \/ RemoveFile(f)
              \/ \E c \in Contents : EditFile(f, c) \/ MergeFile(f, c)
  BY <1>9, <1>10 DEF RemoveFile, EditFile, MergeFile, OneAuthor
<1>11. CASE UNCHANGED vars
  BY <1>11 DEF vars, Numbered, NumbersUnique, HistoryAscends, Listed
<1>12. QED
  BY <1>1, <1>2, <1>3, <1>4, <1>5, <1>6, <1>7, <1>8, <1>10, <1>11 DEF Next

\* With one author, numbers stay unique and files take effect in their order
\* (Migrations!NumbersAscend).
THEOREM Ascends ==
    ASSUME OneAuthor, NumbersSort
    PROVE  Spec => []NumbersAscend
<1>1. Init => Numbered
  BY DEF Init, Numbered, NumbersUnique, HistoryAscends, Listed, NumbersSort
<1>2. IInv /\ Numbered /\ [Next]_vars => Numbered'
  BY NumberedStep
<1>3. Numbered => NumbersAscend
  BY DEF Numbered, NumbersAscend
<1>4. QED
  BY <1>1, <1>2, <1>3, Inductive, PTL DEF Spec
=============================================================================

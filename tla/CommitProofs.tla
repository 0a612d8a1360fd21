---------------------------- MODULE CommitProofs ----------------------------
(***************************************************************************)
(* Proofs about CommitChanges, for any number of models, fields,           *)
(* executors, people, failures and kills.  What the properties say of a    *)
(* plan holds as long as no two executors work on the same files (Apart);  *)
(* run commit_twice shows what happens if they do.                         *)
(***************************************************************************)
EXTENDS CommitChanges, FiniteSetTheorems, TLAPS

Writes(e, i, p) ==
    \/ p = Plans[e][i].model
    \/ p \in Migrations /\ p.field = Plans[e][i].field

\* The files that the plan of e writes.
Own(e, p) == \E i \in DOMAIN Plans[e] : Writes(e, i, p)

Apart == \A e, d \in Executors, p \in Paths : Own(e, p) /\ Own(d, p) => e = d

\* What every change of a list is.
Proper(e, c) ==
    /\ Own(e, c.path)
    /\ c.path \in Models => c.old \in SUBSET Edits /\ c.old \subseteq c.new
    /\ c.path \notin Models => c.old = Absent
    /\ \A i \in DOMAIN Plans[e] :
        Writes(e, i, c.path) => c.old = Absent \/ Plans[e][i].field \notin c.old

\* Each step of the plan is in one update and one new migration.
Complete(e, list) ==
    \A i \in DOMAIN Plans[e] :
        /\ \E k \in DOMAIN list :
            list[k].path = Plans[e][i].model /\ Plans[e][i].field \in list[k].new
        /\ \E k \in DOMAIN list :
            /\ list[k].path \in Migrations /\ list[k].path.field = Plans[e][i].field
            /\ Plans[e][i].field \in list[k].new

Committing == {"check", "write", "rename", "rollback"}

Listed(e) ==
    /\ \A k \in DOMAIN changes[e] : Proper(e, changes[e][k])
    /\ \A j, k \in DOMAIN changes[e] : changes[e][j].path = changes[e][k].path => j = k
    /\ pc[e] \in Committing => Complete(e, changes[e])
    /\ at[e] # 0
    /\ undo[e] <= Len(changes[e])
    /\ pc[e] # "rollback" => undo[e] = 0

Shape == TypeOK /\ \A e \in Executors : Listed(e)

-----------------------------------------------------------------------------
\* The list of a plan.

LEMMA PlanType ==
    ASSUME NEW e \in Executors
    PROVE  /\ Plans[e] \in Seq(Steps)
           /\ DOMAIN Plans[e] = 1..Len(Plans[e]) /\ Len(Plans[e]) \in Nat
           /\ \A i \in DOMAIN Plans[e] :
                Plans[e][i].model \in Models /\ Plans[e][i].field \in Fields
<1>1. Plans[e] \in Seq(Steps)
  BY PlansAssumption
<1>2. /\ DOMAIN Plans[e] = 1..Len(Plans[e]) /\ Len(Plans[e]) \in Nat
      /\ \A i \in DOMAIN Plans[e] : Plans[e][i] \in Steps
  BY <1>1
<1>3. QED
  BY <1>1, <1>2 DEF Steps

LEMMA AllChanges ==
    ASSUME TypeOK, NEW e \in Executors, NEW n \in 1..MaxNumber,
           n + Len(Plans[e]) - 1 <= MaxNumber, Patchable(Plans[e], view[e])
    PROVE  LET all == FileChanges(Plans[e], view[e], n)
           IN /\ all \subseteq Changes
              /\ Cardinality(all) \in Nat
              /\ \A c \in all : Proper(e, c)
              /\ \A b, c \in all : b.path = c.path => b = c
              /\ \A i \in DOMAIN Plans[e] :
                    /\ \E c \in all : c.path = Plans[e][i].model /\ Plans[e][i].field \in c.new
                    /\ \E c \in all : /\ c.path \in Migrations
                                      /\ c.path.field = Plans[e][i].field
                                      /\ Plans[e][i].field \in c.new
<1> DEFINE S == Plans[e]
           v == view[e]
           U(i) == UpdateOf(S, v, S[i].model)
           C(i) == CreateOf(S, n, i)
           updates == {U(i) : i \in DOMAIN S}
           creates == {C(i) : i \in DOMAIN S}
<1>1. /\ DOMAIN S = 1..Len(S) /\ Len(S) \in Nat
      /\ \A i \in DOMAIN S : S[i].model \in Models /\ S[i].field \in Fields
  BY PlanType
<1>2. /\ v \in [Models -> Contents \ {Absent}] /\ MaxNumber \in Nat
      /\ \A i \in DOMAIN S : v[S[i].model] \in SUBSET Edits /\ S[i].field \notin v[S[i].model]
  <2>1. v \in [Models -> Contents \ {Absent}]
    BY DEF TypeOK
  <2>2. \A i \in DOMAIN S : v[S[i].model] # Torn /\ S[i].field \notin v[S[i].model]
    BY DEF Patchable, FieldExists
  <2>3. QED
    BY <1>1, <2>1, <2>2, BoundsAssumption DEF Contents
<1>3. \A i \in DOMAIN S :
        /\ U(i).path = S[i].model /\ U(i).old = v[S[i].model]
        /\ U(i).old \subseteq U(i).new /\ U(i).new \subseteq Edits
        /\ S[i].field \in U(i).new
        /\ U(i) \in Changes
  <2> SUFFICES ASSUME NEW i \in DOMAIN S
               PROVE  /\ U(i).path = S[i].model /\ U(i).old = v[S[i].model]
                      /\ U(i).old \subseteq U(i).new /\ U(i).new \subseteq Edits
                      /\ S[i].field \in U(i).new
                      /\ U(i) \in Changes
    OBVIOUS
  <2> DEFINE F == {S[k].field : k \in {j \in DOMAIN S : S[j].model = S[i].model}}
  <2>1. U(i) = [path |-> S[i].model, old |-> v[S[i].model], new |-> v[S[i].model] \cup F]
    BY DEF UpdateOf
  <2>2. F \subseteq Fields /\ S[i].field \in F
    BY <1>1
  <2>3. v[S[i].model] \subseteq Edits /\ F \subseteq Edits
    BY <1>2, <2>2 DEF Edits
  <2> HIDE DEF F, U
  <2>4. QED
    BY <1>1, <2>1, <2>2, <2>3 DEF Changes, Contents, Paths
<1>4. \A i \in DOMAIN S :
        /\ C(i).path = [num |-> n + i - 1, field |-> S[i].field]
        /\ C(i).old = Absent /\ C(i).new = {S[i].field}
        /\ C(i).path \in Migrations /\ C(i).path.field = S[i].field
        /\ C(i).path \notin Models
        /\ C(i) \in Changes
  <2> SUFFICES ASSUME NEW i \in DOMAIN S
               PROVE  /\ C(i).path = [num |-> n + i - 1, field |-> S[i].field]
                      /\ C(i).old = Absent /\ C(i).new = {S[i].field}
                      /\ C(i).path \in Migrations /\ C(i).path.field = S[i].field
                      /\ C(i).path \notin Models
                      /\ C(i) \in Changes
    OBVIOUS
  <2>1. n + i - 1 \in 1..MaxNumber
    BY <1>1, <1>2
  <2>2. [num |-> n + i - 1, field |-> S[i].field] \in Migrations
    BY <1>1, <2>1 DEF Migrations
  <2>3. {S[i].field} \subseteq Edits
    BY <1>1 DEF Edits
  <2>4. QED
    BY <2>2, <2>3, PathsAssumption DEF CreateOf, Changes, Contents, Paths
<1>5. FileChanges(S, v, n) = updates \cup creates
  BY DEF FileChanges
<1> HIDE DEF U, C
<1>6. updates \cup creates \subseteq Changes
  BY <1>3, <1>4
<1>7. Cardinality(updates \cup creates) \in Nat
  <2>1. IsFiniteSet(DOMAIN S)
    BY <1>1, FS_Interval
  <2>2. [i \in DOMAIN S |-> U(i)] \in Surjection(DOMAIN S, updates)
    BY DEF Surjection
  <2>3. [i \in DOMAIN S |-> C(i)] \in Surjection(DOMAIN S, creates)
    BY DEF Surjection
  <2>4. IsFiniteSet(updates) /\ IsFiniteSet(creates)
    BY <2>1, <2>2, <2>3, FS_Surjection
  <2>5. QED
    BY <2>4, FS_Union, FS_CardinalityType
<1>8. \A c \in updates \cup creates : Proper(e, c)
  <2>1. \A i \in DOMAIN S : Proper(e, U(i))
    BY <1>1, <1>2, <1>3, PathsAssumption DEF Proper, Own, Writes
  <2>2. \A i \in DOMAIN S : Proper(e, C(i))
    BY <1>4 DEF Proper, Own, Writes
  <2>3. QED
    BY <2>1, <2>2
<1>9. \A b, c \in updates \cup creates : b.path = c.path => b = c
  <2>1. \A i, j \in DOMAIN S : U(i).path = U(j).path => U(i) = U(j)
    BY <1>3 DEF U
  <2>2. \A i, j \in DOMAIN S : U(i).path # C(j).path
    BY <1>1, <1>3, <1>4
  <2>3. \A i, j \in DOMAIN S : C(i).path = C(j).path => C(i) = C(j)
    <3>1. ASSUME NEW i \in DOMAIN S, NEW j \in DOMAIN S, C(i).path = C(j).path
          PROVE  i = j
      <4>1. /\ C(i).path = [num |-> n + i - 1, field |-> S[i].field]
            /\ C(j).path = [num |-> n + j - 1, field |-> S[j].field]
        BY <1>4
      <4>2. n + i - 1 = n + j - 1
        <5>1. [num |-> n + i - 1, field |-> S[i].field]
                = [num |-> n + j - 1, field |-> S[j].field]
          BY <3>1, <4>1, Zenon
        <5>2. [num |-> n + i - 1, field |-> S[i].field].num
                = [num |-> n + j - 1, field |-> S[j].field].num
          BY <5>1, Zenon
        <5>3. QED
          BY <5>2
      <4>3. i \in Nat /\ j \in Nat /\ n \in Nat
        BY <1>1
      <4>4. QED
        BY <4>2, <4>3
    <3>2. QED
      BY <3>1
  <2>4. QED
    BY <2>1, <2>2, <2>3
<1>10. \A i \in DOMAIN S :
         /\ \E c \in updates \cup creates : c.path = S[i].model /\ S[i].field \in c.new
         /\ \E c \in updates \cup creates : /\ c.path \in Migrations
                                            /\ c.path.field = S[i].field
                                            /\ S[i].field \in c.new
  <2>1. ASSUME NEW i \in DOMAIN S
        PROVE  U(i) \in updates /\ C(i) \in creates
    OBVIOUS
  <2> HIDE DEF updates, creates
  <2>2. QED
    BY <1>3, <1>4, <2>1
<1> DEFINE all == updates \cup creates
<1>11. /\ all \subseteq Changes
       /\ Cardinality(all) \in Nat
       /\ \A c \in all : Proper(e, c)
       /\ \A b, c \in all : b.path = c.path => b = c
       /\ \A i \in DOMAIN S :
             /\ \E c \in all : c.path = S[i].model /\ S[i].field \in c.new
             /\ \E c \in all : /\ c.path \in Migrations
                               /\ c.path.field = S[i].field
                               /\ S[i].field \in c.new
  BY <1>6, <1>7, <1>8, <1>9, <1>10
<1>12. FileChanges(Plans[e], view[e], n) = all
  BY <1>5
<1> HIDE DEF updates, creates, all
<1> QED
  BY <1>11, <1>12

-----------------------------------------------------------------------------
\* Types, and what the lists of changes are.

\* The changes of e that are looked at exist.
LEMMA ChangeType ==
    ASSUME Shape, NEW e \in Executors, NEW k \in DOMAIN changes[e]
    PROVE  /\ DOMAIN changes[e] = 1..Len(changes[e]) /\ Len(changes[e]) \in Nat
           /\ k \in Nat \ {0} /\ k <= Len(changes[e])
           /\ changes[e][k] \in Changes
           /\ changes[e][k].path \in Paths
           /\ changes[e][k].old \in Contents
           /\ changes[e][k].new \in SUBSET Edits
           /\ changes[e][k].new \in Contents \ {Absent}
           /\ changes[e][k].path \in Models => changes[e][k].old # Absent
<1>1. changes[e] \in Seq(Changes)
  BY DEF Shape, TypeOK
<1>2. /\ DOMAIN changes[e] = 1..Len(changes[e]) /\ Len(changes[e]) \in Nat
      /\ k \in Nat \ {0} /\ k <= Len(changes[e]) /\ changes[e][k] \in Changes
  BY <1>1
<1>3. Proper(e, changes[e][k])
  BY DEF Shape, Listed
<1>4. /\ changes[e][k].path \in Paths
      /\ changes[e][k].old \in Contents
      /\ changes[e][k].new \in SUBSET Edits
  BY <1>2 DEF Changes
<1>5. changes[e][k].path \in Models => changes[e][k].old # Absent
  BY <1>3, ContentsAssumption DEF Proper
<1>6. QED
  BY <1>2, <1>4, <1>5, ContentsAssumption DEF Contents

LEMMA AtChange ==
    ASSUME Shape, NEW e \in Executors
    PROVE  /\ MoreChanges(e) => at[e] \in DOMAIN changes[e]
           /\ undo[e] > 0 => undo[e] \in DOMAIN changes[e]
           /\ at[e] \in Nat \ {0} /\ undo[e] \in Nat
           /\ Len(changes[e]) \in Nat /\ DOMAIN changes[e] = 1..Len(changes[e])
<1>1. changes[e] \in Seq(Changes) /\ at[e] \in Nat /\ undo[e] \in Nat
  BY DEF Shape, TypeOK
<1>2. at[e] # 0 /\ undo[e] <= Len(changes[e])
  BY DEF Shape, Listed
<1>3. QED
  BY <1>1, <1>2 DEF MoreChanges

LEMMA ReturnKeeps ==
    ASSUME Shape, NEW e \in Executors, NEW to \in Idle, Return(e, to),
           disk' \in [Paths -> Contents], \A m \in Models : disk'[m] # Absent,
           tmp' \in [Paths -> Contents], lost' \subseteq Paths, killed' \subseteq Executors,
           faults' \in Nat, UNCHANGED <<edited, late>>
    PROVE  Shape'
<1>1. TypeOK'
  <2>1. <<>> \in Seq(Changes) /\ Blank \in [Models -> Contents \ {Absent}]
    BY ContentsAssumption DEF Blank, Contents
  <2>2. QED
    BY <2>1 DEF Shape, TypeOK, Return
<1>2. ASSUME NEW d \in Executors
      PROVE  Listed(d)'
  <2>1. CASE d = e
    <3>1. changes'[e] = <<>> /\ at'[e] = 1 /\ undo'[e] = 0 /\ pc'[e] \notin Committing
      BY DEF Return, Shape, TypeOK, Committing, Idle
    <3>2. QED
      BY <2>1, <3>1 DEF Listed
  <2>2. CASE d # e
    <3>1. /\ changes'[d] = changes[d] /\ at'[d] = at[d] /\ undo'[d] = undo[d]
          /\ pc'[d] = pc[d]
      BY <2>2 DEF Return, Shape, TypeOK
    <3>2. QED
      BY <3>1 DEF Shape, Listed, Proper, Complete
  <2>3. QED
    BY <2>1, <2>2
<1>3. QED
  BY <1>1, <1>2 DEF Shape

\* What is not in the list of changes changes nothing about it.
LEMMA ListedKeeps ==
    ASSUME Shape, changes' = changes, undo' = undo, at' \in [Executors -> Nat],
           \A d \in Executors : /\ at'[d] # 0
                                /\ pc'[d] \in Committing => pc[d] \in Committing
                                /\ pc[d] = "rollback" => pc'[d] = "rollback"
    PROVE  \A d \in Executors : Listed(d)'
  BY DEF Shape, Listed, Proper, Complete

LEMMA CleanedType ==
    ASSUME Shape, NEW e \in Executors, NEW I
    PROVE  Cleaned(e, I) \in [Paths -> Contents]
  BY DEF Cleaned, Shape, TypeOK, Contents

LEMMA ReadingShape ==
    ASSUME Shape, NEW e \in Executors,
           Begin(e) \/ (\E m \in Models : ReadModel(e, m)) \/ PlanExecution(e) \/ Refuse(e)
    PROVE  Shape'
<1> USE DEF ghosts
<1>1. CASE Begin(e)
  <2>1. TypeOK'
    BY <1>1 DEF Begin, Shape, TypeOK, Idle
  <2>2. \A d \in Executors : Listed(d)'
    BY <1>1, ListedKeeps DEF Begin, Shape, TypeOK, Listed, Committing, Idle
  <2>3. QED
    BY <2>1, <2>2 DEF Shape
<1>2. ASSUME NEW m \in Models, ReadModel(e, m)
      PROVE  Shape'
  <2>1. disk[m] \in Contents \ {Absent}
    BY DEF Shape, TypeOK, Paths
  <2>2. TypeOK'
    <3>1. view' \in [Executors -> [Models -> Contents \ {Absent}]]
      BY <1>2, <2>1 DEF ReadModel, Shape, TypeOK
    <3>2. QED
      BY <1>2, <3>1 DEF ReadModel, Shape, TypeOK
  <2>3. \A d \in Executors : Listed(d)'
    BY <1>2, ListedKeeps DEF ReadModel, Shape, TypeOK, Listed, Committing
  <2>4. QED
    BY <2>2, <2>3 DEF Shape
<1>3. CASE PlanExecution(e)
  <2>1. PICK next \in 1..MaxNumber :
          /\ next + Len(Plans[e]) - 1 <= MaxNumber
          /\ \E list \in Bijection(1..Cardinality(FileChanges(Plans[e], view[e], next)),
                                   FileChanges(Plans[e], view[e], next)) :
                changes' = [changes EXCEPT ![e] = list]
    BY <1>3 DEF PlanExecution
  <2> DEFINE all == FileChanges(Plans[e], view[e], next)
             N == Cardinality(all)
  <2>2. PICK list \in Bijection(1..N, all) : changes' = [changes EXCEPT ![e] = list]
    BY <2>1
  <2>3. /\ all \subseteq Changes
        /\ N \in Nat
        /\ \A c \in all : Proper(e, c)
        /\ \A b, c \in all : b.path = c.path => b = c
        /\ \A i \in DOMAIN Plans[e] :
              /\ \E c \in all : c.path = Plans[e][i].model /\ Plans[e][i].field \in c.new
              /\ \E c \in all : /\ c.path \in Migrations
                                /\ c.path.field = Plans[e][i].field
                                /\ Plans[e][i].field \in c.new
    BY <1>3, <2>1, AllChanges DEF PlanExecution, Shape
  <2> HIDE DEF all, N
  <2>4. /\ list \in [1..N -> all]
        /\ \A j, k \in 1..N : list[j] = list[k] => j = k
        /\ \A c \in all : \E k \in 1..N : list[k] = c
    BY <2>2 DEF Bijection, Injection, Surjection, IsInjective
  <2>5. list \in Seq(Changes) /\ DOMAIN list = 1..N /\ Len(list) = N
    BY <2>3, <2>4
  <2>6. TypeOK'
    <3>1. changes' \in [Executors -> Seq(Changes)]
      BY <2>2, <2>5 DEF Shape, TypeOK
    <3>2. QED
      BY <1>3, <3>1 DEF PlanExecution, Shape, TypeOK
  <2>7. Complete(e, list)
    BY <2>3, <2>4, <2>5 DEF Complete
  <2>8. Listed(e)'
    <3>1. changes'[e] = list /\ at'[e] = 1 /\ undo'[e] = undo[e]
      BY <1>3, <2>2 DEF PlanExecution, Shape, TypeOK
    <3>2. undo[e] = 0
      BY <1>3 DEF PlanExecution, Shape, Listed
    <3>3. QED
      BY <2>3, <2>4, <2>5, <2>7, <3>1, <3>2 DEF Listed, Proper
  <2>9. ASSUME NEW d \in Executors, d # e
        PROVE  Listed(d)'
    <3>1. /\ changes'[d] = changes[d] /\ at'[d] = at[d] /\ undo'[d] = undo[d]
          /\ pc'[d] = pc[d]
      BY <1>3, <2>2, <2>9 DEF PlanExecution, Shape, TypeOK
    <3>2. QED
      BY <3>1 DEF Shape, Listed, Proper, Complete
  <2>10. QED
    BY <2>6, <2>8, <2>9 DEF Shape
<1>4. CASE Refuse(e)
  BY <1>4, ReturnKeeps DEF Refuse, Shape, TypeOK, Idle
<1>5. QED
  BY <1>1, <1>2, <1>3, <1>4

LEMMA CommittingShape ==
    ASSUME Shape, NEW e \in Executors,
           \/ NextPass(e, "check", "write") \/ NextPass(e, "write", "rename")
           \/ Check(e) \/ FileConflict(e) \/ WriteTmp(e) \/ WriteTmpFails(e)
           \/ Rename(e) \/ RenameFails(e) \/ Finish(e)
    PROVE  Shape'
<1> USE DEF ghosts, local
<1> DEFINE c == changes[e][at[e]]
<1>0. /\ at[e] \in Nat \ {0} /\ undo[e] \in Nat
      /\ MoreChanges(e) => /\ at[e] <= Len(changes[e]) /\ Len(changes[e]) \in Nat
                           /\ c.path \in Paths /\ c.new \in Contents \ {Absent}
  BY AtChange, ChangeType
<1>1. ASSUME NEW from \in {"check", "write"}, NEW to \in {"write", "rename"},
             NextPass(e, from, to)
      PROVE  Shape'
  <2>1. TypeOK'
    BY <1>1 DEF NextPass, Shape, TypeOK
  <2>2. \A d \in Executors : Listed(d)'
    BY <1>1, ListedKeeps DEF NextPass, Shape, TypeOK, Listed, Committing
  <2>3. QED
    BY <2>1, <2>2 DEF Shape
<1>2. CASE Check(e)
  <2>1. TypeOK'
    BY <1>0, <1>2 DEF Check, Shape, TypeOK
  <2>2. \A d \in Executors : Listed(d)'
    BY <1>0, <1>2, <2>1, ListedKeeps DEF Check, Shape, TypeOK, Listed, Committing
  <2>3. QED
    BY <2>1, <2>2 DEF Shape
<1>3. CASE WriteTmp(e)
  <2>1. TypeOK'
    BY <1>0, <1>3 DEF WriteTmp, Change, Shape, TypeOK
  <2>2. \A d \in Executors : Listed(d)'
    BY <1>0, <1>3, <2>1, ListedKeeps DEF WriteTmp, Shape, TypeOK, Listed, Committing
  <2>3. QED
    BY <2>1, <2>2 DEF Shape
<1>4. CASE Rename(e)
  <2>1. tmp[c.path] \in Contents \ {Absent}
    BY <1>0, <1>4 DEF Rename, Change, Shape, TypeOK
  <2>2. TypeOK'
    <3>1. tmp' \in [Paths -> Contents] /\ disk' \in [Paths -> Contents]
      BY <1>0, <1>4, <2>1 DEF Rename, Change, Shape, TypeOK, Contents
    <3>2. \A m \in Models : disk'[m] # Absent
      BY <1>0, <1>4, <2>1 DEF Rename, Change, Shape, TypeOK, Paths
    <3>3. QED
      BY <1>0, <1>4, <3>1, <3>2 DEF Rename, Shape, TypeOK
  <2>3. \A d \in Executors : Listed(d)'
    BY <1>0, <1>4, <2>2, ListedKeeps DEF Rename, Shape, TypeOK, Listed, Committing
  <2>4. QED
    BY <2>2, <2>3 DEF Shape
<1>5. CASE RenameFails(e)
  <2>1. TypeOK'
    BY <1>0, <1>5, BoundsAssumption DEF RenameFails, Fault, Shape, TypeOK
  <2>2. ASSUME NEW d \in Executors
        PROVE  Listed(d)'
    <3>1. undo'[d] <= Len(changes'[d])
      BY <1>0, <1>5 DEF RenameFails, Shape, TypeOK, Listed
    <3>2. /\ changes'[d] = changes[d] /\ at'[d] = at[d]
          /\ pc'[d] \in Committing => pc[d] \in Committing
          /\ pc'[d] # "rollback" => pc[d] # "rollback" /\ undo'[d] = undo[d]
      BY <1>5 DEF RenameFails, Shape, TypeOK, Committing
    <3>3. QED
      BY <3>1, <3>2 DEF Shape, Listed, Proper, Complete
  <2>3. QED
    BY <2>1, <2>2 DEF Shape
<1>6. CASE FileConflict(e)
  BY <1>6, ReturnKeeps DEF FileConflict, Shape, TypeOK, Idle
<1>7. CASE WriteTmpFails(e)
  <2>1. tmp' \in [Paths -> Contents]
    BY <1>0, <1>7, CleanedType DEF WriteTmpFails, Change, Contents
  <2>2. faults' \in Nat /\ Return(e, "failed") /\ UNCHANGED <<disk, edited, late, lost, killed>>
    BY <1>7 DEF WriteTmpFails, Fault, Shape, TypeOK
  <2>3. QED
    BY <2>1, <2>2, ReturnKeeps DEF Shape, TypeOK, Idle
<1>8. CASE Finish(e)
  BY <1>8, ReturnKeeps DEF Finish, Shape, TypeOK, Idle
<1>9. QED
  BY <1>1, <1>2, <1>3, <1>4, <1>5, <1>6, <1>7, <1>8

LEMMA CutType ==
    ASSUME Shape, NEW e \in Executors, NEW k \in DOMAIN changes[e], Cut(changes[e][k])
    PROVE  disk' \in [Paths -> Contents] /\ \A m \in Models : disk'[m] # Absent
<1>1. changes[e][k].path \in Paths
  BY ChangeType
<1>2. disk \in [Paths -> Contents] /\ Torn \in Contents /\ Torn # Absent
      /\ \A m \in Models : disk[m] # Absent
  BY ContentsAssumption DEF Shape, TypeOK, Contents
<1>3. CASE disk' = disk
  BY <1>2, <1>3
<1>4. CASE disk' = [disk EXCEPT ![changes[e][k].path] = Torn]
  BY <1>1, <1>2, <1>4 DEF Paths
<1>5. QED
  BY <1>3, <1>4 DEF Cut

LEMMA UndoingShape ==
    ASSUME Shape, NEW e \in Executors,
           Rollback(e) \/ RollbackFails(e) \/ RolledBack(e) \/ Kill(e)
    PROVE  Shape'
<1> USE DEF ghosts, local
<1> DEFINE c == changes[e][undo[e]]
<1>0. /\ undo[e] \in Nat /\ undo[e] <= Len(changes[e])
      /\ undo[e] > 0 => /\ undo[e] \in DOMAIN changes[e]
                        /\ c.path \in Paths /\ c.old \in Contents
                        /\ c.path \in Models => c.old # Absent
  BY AtChange, ChangeType DEF Shape, Listed
<1>1. ASSUME pc[e] = "rollback", undo[e] > 0, pc' = pc, changes' = changes, at' = at,
             undo' = [undo EXCEPT ![e] = @ - 1]
      PROVE  undo' \in [Executors -> Nat] /\ \A d \in Executors : Listed(d)'
  <2>1. undo' \in [Executors -> Nat]
    BY <1>0, <1>1 DEF Shape, TypeOK
  <2>2. ASSUME NEW d \in Executors
        PROVE  Listed(d)'
    <3>1. undo'[d] <= Len(changes'[d]) /\ (pc'[d] # "rollback" => undo'[d] = 0)
      <4>1. CASE d = e
        <5>1. Len(changes[e]) \in Nat
          BY AtChange
        <5>2. QED
          BY <1>0, <1>1, <4>1, <5>1 DEF Shape, TypeOK
      <4>2. CASE d # e
        BY <1>1, <4>2 DEF Shape, TypeOK, Listed
      <4>3. QED
        BY <4>1, <4>2
    <3>2. QED
      BY <1>1, <3>1 DEF Shape, Listed, Proper, Complete
  <2>3. QED
    BY <2>1, <2>2
<1>2. CASE Rollback(e)
  <2>1. disk' \in [Paths -> Contents] /\ \A m \in Models : disk'[m] # Absent
    BY <1>0, <1>2 DEF Rollback, Shape, TypeOK, Paths
  <2>2. undo' \in [Executors -> Nat] /\ \A d \in Executors : Listed(d)'
    BY <1>1, <1>2 DEF Rollback
  <2>3. QED
    BY <1>2, <2>1, <2>2 DEF Rollback, Shape, TypeOK
<1>3. CASE RollbackFails(e)
  <2>1. disk' \in [Paths -> Contents] /\ \A m \in Models : disk'[m] # Absent
    BY <1>0, <1>3, CutType DEF RollbackFails
  <2>2. undo' \in [Executors -> Nat] /\ \A d \in Executors : Listed(d)'
    BY <1>1, <1>3 DEF RollbackFails
  <2>3. lost' \subseteq Paths /\ faults' \in Nat
    BY <1>0, <1>3 DEF RollbackFails, Fault, Shape, TypeOK
  <2>4. QED
    BY <1>3, <2>1, <2>2, <2>3 DEF RollbackFails, Shape, TypeOK
<1>4. CASE RolledBack(e)
  <2>1. tmp' \in [Paths -> Contents]
    BY <1>4, CleanedType DEF RolledBack
  <2>2. QED
    BY <1>4, <2>1, ReturnKeeps DEF RolledBack, Shape, TypeOK, Idle
<1>5. CASE Kill(e)
  <2>1. /\ faults' \in Nat /\ killed' \subseteq Executors /\ Return(e, "idle")
        /\ UNCHANGED <<edited, late>>
    BY <1>5 DEF Kill, Fault, Shape, TypeOK
  <2>2. tmp' \in [Paths -> Contents]
    BY <1>5, AtChange, ChangeType DEF Kill, Change, Shape, TypeOK, Contents
  <2>3. lost' \subseteq Paths
    BY <1>0, <1>5 DEF Kill, Shape, TypeOK
  <2>4. disk' \in [Paths -> Contents] /\ \A m \in Models : disk'[m] # Absent
    BY <1>0, <1>5, CutType DEF Kill, Shape, TypeOK
  <2>5. QED
    BY <2>1, <2>2, <2>3, <2>4, ReturnKeeps DEF Idle
<1>6. QED
  BY <1>2, <1>3, <1>4, <1>5

LEMMA EditShape ==
    ASSUME Shape, NEW h \in Humans, NEW p \in Paths, Edit(h, p)
    PROVE  Shape'
<1> USE DEF local
<1>1. disk' \in [Paths -> Contents] /\ \A m \in Models : disk'[m] # Absent
  <2>1. disk[p] \in Contents /\ {h} \in SUBSET Edits
    BY DEF Shape, TypeOK, Edits
  <2>2. PICK new \in SUBSET Edits : disk' = [disk EXCEPT ![p] = new]
    <3>1. CASE disk[p] \in {Absent, Torn}
      BY <2>1, <3>1 DEF Edit, Shape, TypeOK
    <3>2. CASE disk[p] \notin {Absent, Torn}
      <4>1. disk[p] \cup {h} \in SUBSET Edits
        BY <2>1, <3>2 DEF Contents
      <4>2. QED
        BY <3>2, <4>1 DEF Edit, Shape, TypeOK
    <3>3. QED
      BY <3>1, <3>2
  <2>3. new \in Contents \ {Absent}
    BY ContentsAssumption DEF Contents
  <2>4. QED
    BY <2>2, <2>3 DEF Shape, TypeOK, Paths
<1>2. TypeOK'
  BY <1>1 DEF Edit, Shape, TypeOK
<1>3. \A d \in Executors : Listed(d)'
  BY ListedKeeps DEF Edit, Shape, TypeOK, Listed
<1>4. QED
  BY <1>2, <1>3 DEF Shape

LEMMA ShapeStep == Shape /\ [Next]_vars => Shape'
<1> SUFFICES ASSUME Shape, [Next]_vars
             PROVE  Shape'
  OBVIOUS
<1>1. CASE UNCHANGED vars
  BY <1>1 DEF vars, local, ghosts, Shape, TypeOK, Listed, Proper, Complete
<1>2. ASSUME NEW e \in Executors, Begin(e) \/ Step(e) \/ Kill(e)
      PROVE  Shape'
  BY <1>2, ReadingShape, CommittingShape, UndoingShape DEF Step
<1>3. ASSUME NEW h \in Humans, NEW p \in Paths, Edit(h, p)
      PROVE  Shape'
  BY <1>3, EditShape
<1>4. QED
  BY <1>1, <1>2, <1>3 DEF Next

LEMMA ShapeInit == Init => Shape
<1> SUFFICES ASSUME Init
             PROVE  Shape
  OBVIOUS
<1>1. {} \in Contents \ {Absent} /\ Absent \in Contents
  BY ContentsAssumption DEF Contents
<1>2. Blank \in [Models -> Contents \ {Absent}] /\ <<>> \in Seq(Changes)
  BY <1>1 DEF Blank
<1>3. TypeOK
  BY <1>1, <1>2, BoundsAssumption DEF Init, TypeOK, Paths, Idle
<1>4. \A e \in Executors : Listed(e)
  BY DEF Init, Listed, Committing
<1>5. QED
  BY <1>3, <1>4 DEF Shape

THEOREM Typing == Spec => []TypeOK
<1>1. Shape => TypeOK
  BY DEF Shape
<1>2. QED
  BY <1>1, ShapeInit, ShapeStep, PTL DEF Spec

-----------------------------------------------------------------------------
\* A step of e touches the files of its own plan, and nothing of the others.

Acts(e) == Begin(e) \/ Step(e) \/ Kill(e)

Locals(e) == <<pc[e], unread[e], view[e], changes[e], at[e], undo[e]>>

LEMMA ReturnIsOwn ==
    ASSUME Shape, NEW e \in Executors, NEW to, Return(e, to), NEW d \in Executors, d # e
    PROVE  Locals(d)' = Locals(d)
  BY DEF Return, Shape, TypeOK, Locals

LEMMA OwnSteps ==
    ASSUME Shape, NEW e \in Executors, Acts(e)
    PROVE  /\ \A p \in Paths : ~Own(e, p) => disk'[p] = disk[p] /\ tmp'[p] = tmp[p]
           /\ lost \subseteq lost' /\ \A p \in lost' \ lost : Own(e, p)
           /\ \A d \in Executors : d # e => Locals(d)' = Locals(d)
           /\ edited' = edited /\ late' = late
           /\ killed \subseteq killed' /\ killed' \subseteq killed \cup {e}
<1> USE DEF ghosts, local
<1>1. \A k \in DOMAIN changes[e] : Own(e, changes[e][k].path)
  BY DEF Shape, Listed, Proper
<1>2. /\ MoreChanges(e) => at[e] \in DOMAIN changes[e]
      /\ undo[e] > 0 => undo[e] \in DOMAIN changes[e]
      /\ DOMAIN changes[e] = 1..Len(changes[e]) /\ Len(changes[e]) \in Nat
      /\ at[e] \in Nat \ {0}
  BY AtChange
<1>3. \A p \in Paths : ~Own(e, p) => disk'[p] = disk[p]
  <2> SUFFICES ASSUME NEW p \in Paths, ~Own(e, p)
               PROVE  disk'[p] = disk[p]
    OBVIOUS
  <2>1. ASSUME NEW k \in DOMAIN changes[e], Cut(changes[e][k])
        PROVE  disk'[p] = disk[p]
    BY <1>1, <2>1 DEF Cut, Shape, TypeOK
  <2>2. CASE Rename(e)
    BY <1>1, <1>2, <2>2 DEF Rename, Change, Shape, TypeOK
  <2>3. CASE Rollback(e)
    BY <1>1, <1>2, <2>3 DEF Rollback, Shape, TypeOK
  <2>4. CASE RollbackFails(e)
    BY <1>2, <2>1, <2>4 DEF RollbackFails
  <2>5. CASE Kill(e)
    BY <1>2, <2>1, <2>5 DEF Kill
  <2>6. CASE Begin(e) \/ (\E m \in Models : ReadModel(e, m)) \/ PlanExecution(e) \/ Refuse(e)
    BY <2>6 DEF Begin, ReadModel, PlanExecution, Refuse
  <2>7. CASE \/ NextPass(e, "check", "write") \/ NextPass(e, "write", "rename")
             \/ Check(e) \/ FileConflict(e) \/ WriteTmp(e) \/ WriteTmpFails(e)
             \/ RenameFails(e) \/ Finish(e) \/ RolledBack(e)
    BY <2>7 DEF NextPass, Check, FileConflict, WriteTmp, WriteTmpFails, RenameFails,
                Finish, RolledBack
  <2>8. QED
    BY <2>2, <2>3, <2>4, <2>5, <2>6, <2>7 DEF Acts, Step
<1>4. \A p \in Paths : ~Own(e, p) => tmp'[p] = tmp[p]
  <2> SUFFICES ASSUME NEW p \in Paths, ~Own(e, p)
               PROVE  tmp'[p] = tmp[p]
    OBVIOUS
  <2>1. ASSUME NEW I, I \subseteq DOMAIN changes[e]
        PROVE  Cleaned(e, I)[p] = tmp[p]
    BY <1>1, <2>1 DEF Cleaned
  <2>2. CASE Rename(e)
    BY <1>1, <1>2, <2>2 DEF Rename, Change, Shape, TypeOK
  <2>3. CASE WriteTmp(e)
    BY <1>1, <1>2, <2>3 DEF WriteTmp, Change, Shape, TypeOK
  <2>4. CASE WriteTmpFails(e)
    <3>1. 1..(at[e] - 1) \subseteq DOMAIN changes[e]
      BY <1>2, <2>4 DEF WriteTmpFails
    <3>2. PICK left : tmp' = [Cleaned(e, 1..(at[e] - 1)) EXCEPT ![Change(e).path] = left]
      BY <2>4 DEF WriteTmpFails
    <3>3. Change(e).path # p
      BY <1>1, <1>2, <2>4 DEF WriteTmpFails, Change
    <3>4. p \in DOMAIN Cleaned(e, 1..(at[e] - 1))
      BY DEF Cleaned
    <3>5. QED
      BY <2>1, <3>1, <3>2, <3>3, <3>4
  <2>5. CASE RolledBack(e)
    <3>1. at[e]..Len(changes[e]) \subseteq DOMAIN changes[e]
      BY <1>2
    <3>2. QED
      BY <2>1, <2>5, <3>1 DEF RolledBack
  <2>6. CASE Kill(e)
    BY <1>1, <1>2, <2>6 DEF Kill, Change, Shape, TypeOK
  <2>7. CASE Begin(e) \/ (\E m \in Models : ReadModel(e, m)) \/ PlanExecution(e) \/ Refuse(e)
    BY <2>7 DEF Begin, ReadModel, PlanExecution, Refuse
  <2>8. CASE \/ NextPass(e, "check", "write") \/ NextPass(e, "write", "rename")
             \/ Check(e) \/ FileConflict(e) \/ RenameFails(e) \/ Finish(e)
             \/ Rollback(e) \/ RollbackFails(e)
    BY <2>8 DEF NextPass, Check, FileConflict, RenameFails, Finish, Rollback, RollbackFails
  <2>9. QED
    BY <2>2, <2>3, <2>4, <2>5, <2>6, <2>7, <2>8 DEF Acts, Step
<1>5. /\ lost \subseteq lost' /\ \A p \in lost' \ lost : Own(e, p)
      /\ edited' = edited /\ late' = late
      /\ killed \subseteq killed' /\ killed' \subseteq killed \cup {e}
  <2>1. CASE Kill(e)
    BY <1>1, <1>2, <2>1 DEF Kill
  <2>2. CASE RollbackFails(e)
    BY <1>1, <1>2, <2>2 DEF RollbackFails
  <2>3. CASE Begin(e) \/ (\E m \in Models : ReadModel(e, m)) \/ PlanExecution(e) \/ Refuse(e)
    BY <2>3 DEF Begin, ReadModel, PlanExecution, Refuse
  <2>4. CASE \/ NextPass(e, "check", "write") \/ NextPass(e, "write", "rename")
             \/ Check(e) \/ FileConflict(e) \/ WriteTmp(e) \/ WriteTmpFails(e)
             \/ Rename(e) \/ RenameFails(e) \/ Finish(e) \/ Rollback(e) \/ RolledBack(e)
    BY <2>4 DEF NextPass, Check, FileConflict, WriteTmp, WriteTmpFails, Rename, RenameFails,
                Finish, Rollback, RolledBack
  <2>5. QED
    BY <2>1, <2>2, <2>3, <2>4 DEF Acts, Step
<1>6. ASSUME NEW d \in Executors, d # e
      PROVE  Locals(d)' = Locals(d)
  <2>1. CASE \/ Begin(e) \/ (\E m \in Models : ReadModel(e, m)) \/ PlanExecution(e)
             \/ NextPass(e, "check", "write") \/ NextPass(e, "write", "rename")
             \/ Check(e) \/ WriteTmp(e) \/ Rename(e) \/ RenameFails(e)
             \/ Rollback(e) \/ RollbackFails(e)
    BY <1>6, <2>1 DEF Begin, ReadModel, PlanExecution, NextPass, Check, WriteTmp, Rename,
                      RenameFails, Rollback, RollbackFails, Shape, TypeOK, Locals
  <2>2. CASE \/ Refuse(e) \/ FileConflict(e) \/ WriteTmpFails(e) \/ Finish(e)
             \/ RolledBack(e) \/ Kill(e)
    BY <1>6, <2>2, ReturnIsOwn DEF Refuse, FileConflict, WriteTmpFails, Finish, RolledBack, Kill
  <2>3. QED
    BY <2>1, <2>2 DEF Acts, Step
<1>7. QED
  BY <1>3, <1>4, <1>5, <1>6

-----------------------------------------------------------------------------
\* The siblings are what their executor wrote, from pass 2 to the renames.

Written(e) ==
    \A k \in DOMAIN changes[e] :
        (pc[e] = "write" /\ k < at[e]) \/ (pc[e] = "rename" /\ at[e] <= k)
            => tmp[changes[e][k].path] = changes[e][k].new

LEMMA WrittenByOwner ==
    ASSUME Shape, NEW e \in Executors, Acts(e), Written(e)
    PROVE  Written(e)'
<1> USE DEF ghosts, local
<1>1. /\ MoreChanges(e) => at[e] \in DOMAIN changes[e]
      /\ DOMAIN changes[e] = 1..Len(changes[e]) /\ Len(changes[e]) \in Nat
      /\ at[e] \in Nat \ {0}
  BY AtChange
<1>2. /\ \A k \in DOMAIN changes[e] : changes[e][k].path \in Paths
      /\ \A j, k \in DOMAIN changes[e] : changes[e][j].path = changes[e][k].path => j = k
  BY ChangeType DEF Shape, Listed
<1>3. CASE WriteTmp(e)
  <2> SUFFICES ASSUME NEW k \in DOMAIN changes[e], k < at[e] + 1
               PROVE  tmp'[changes[e][k].path] = changes[e][k].new
    BY <1>3 DEF WriteTmp, Written, Shape, TypeOK
  <2>1. CASE k = at[e]
    BY <1>2, <1>3, <2>1 DEF WriteTmp, Change, Shape, TypeOK
  <2>2. CASE k < at[e]
    BY <1>1, <1>2, <1>3, <2>2 DEF WriteTmp, Change, Written, Shape, TypeOK
  <2>3. QED
    BY <1>1, <2>1, <2>2
<1>4. CASE Rename(e)
  <2> SUFFICES ASSUME NEW k \in DOMAIN changes[e], at[e] + 1 <= k
               PROVE  tmp'[changes[e][k].path] = changes[e][k].new
    BY <1>4 DEF Rename, Written, Shape, TypeOK
  <2>1. at[e] <= k /\ k # at[e]
    BY <1>1
  <2>2. changes[e][k].path # changes[e][at[e]].path
    BY <1>1, <1>2, <1>4, <2>1 DEF Rename
  <2>3. QED
    BY <1>2, <1>4, <2>1, <2>2 DEF Rename, Change, Written, Shape, TypeOK
<1>5. CASE NextPass(e, "write", "rename")
  <2>1. \A k \in DOMAIN changes[e] : k < at[e]
    BY <1>1, <1>5 DEF NextPass, MoreChanges
  <2>2. \A k \in DOMAIN changes[e] : tmp[changes[e][k].path] = changes[e][k].new
    BY <1>5, <2>1 DEF NextPass, Written
  <2>3. QED
    BY <1>5, <2>2 DEF NextPass, Written
<1>6. CASE NextPass(e, "check", "write")
  BY <1>1, <1>6 DEF NextPass, Written, Shape, TypeOK
<1>7. CASE \/ Begin(e) \/ PlanExecution(e) \/ Check(e) \/ RenameFails(e)
           \/ (\E m \in Models : ReadModel(e, m)) \/ Rollback(e) \/ RollbackFails(e)
  <2>1. pc'[e] \notin {"write", "rename"}
    BY <1>7 DEF Begin, ReadModel, PlanExecution, Check, RenameFails, Rollback,
                RollbackFails, Shape, TypeOK
  <2>2. QED
    BY <2>1 DEF Written
<1>8. CASE \/ Refuse(e) \/ FileConflict(e) \/ WriteTmpFails(e) \/ Finish(e)
           \/ RolledBack(e) \/ Kill(e)
  <2>1. pc'[e] \in Idle
    BY <1>8 DEF Refuse, FileConflict, WriteTmpFails, Finish, RolledBack, Kill, Return,
                Shape, TypeOK, Idle
  <2>2. QED
    BY <2>1 DEF Written, Idle
<1>9. QED
  BY <1>3, <1>4, <1>5, <1>6, <1>7, <1>8 DEF Acts, Step

LEMMA WrittenStep ==
    ASSUME Shape, Apart, \A e \in Executors : Written(e), [Next]_vars, NEW d \in Executors
    PROVE  Written(d)'
<1>1. ASSUME pc'[d] = pc[d], changes'[d] = changes[d], at'[d] = at[d],
             \A p \in Paths : Own(d, p) => tmp'[p] = tmp[p]
      PROVE  Written(d)'
  <2>1. \A k \in DOMAIN changes[d] : changes[d][k].path \in Paths /\ Own(d, changes[d][k].path)
    BY ChangeType DEF Shape, Listed, Proper
  <2>2. QED
    BY <1>1, <2>1 DEF Written
<1>2. CASE UNCHANGED vars
  BY <1>1, <1>2 DEF vars, local
<1>3. ASSUME NEW e \in Executors, Acts(e)
      PROVE  Written(d)'
  <2>1. CASE d = e
    BY <1>3, <2>1, WrittenByOwner
  <2>2. CASE d # e
    <3>1. \A p \in Paths : Own(d, p) => ~Own(e, p)
      BY <2>2 DEF Apart
    <3>2. Locals(d)' = Locals(d) /\ \A p \in Paths : Own(d, p) => tmp'[p] = tmp[p]
      BY <1>3, <2>2, <3>1, OwnSteps
    <3>3. QED
      BY <1>1, <3>2 DEF Locals
  <2>3. QED
    BY <2>1, <2>2
<1>4. ASSUME NEW h \in Humans, NEW p \in Paths, Edit(h, p)
      PROVE  Written(d)'
  BY <1>1, <1>4 DEF Edit, local
<1>5. QED
  BY <1>2, <1>3, <1>4 DEF Next, Acts

\* A step that takes e past a rename has renamed a sibling into place.
LEMMA OnlyRenames ==
    ASSUME Shape, [Next]_vars, NEW e \in Executors,
           pc[e] = "rename", at'[e] = at[e] + 1
    PROVE  Rename(e)
<1> USE DEF ghosts, local
<1>1. at[e] \in Nat \ {0} /\ at'[e] # at[e] /\ at'[e] # 1
  BY AtChange
<1>2. ~(UNCHANGED vars)
  BY <1>1 DEF vars
<1>3. ASSUME NEW h \in Humans, NEW p \in Paths, Edit(h, p)
      PROVE  FALSE
  BY <1>1, <1>3 DEF Edit
<1>4. ASSUME NEW d \in Executors, Acts(d)
      PROVE  d = e
  BY <1>1, <1>4, OwnSteps DEF Locals
<1>5. ASSUME Acts(e)
      PROVE  Rename(e)
  <2>1. ~(RenameFails(e) \/ Finish(e) \/ Kill(e))
    BY <1>1 DEF RenameFails, Finish, Kill, Return, Shape, TypeOK
  <2>2. \/ Rename(e) \/ RenameFails(e) \/ Finish(e) \/ Kill(e)
    BY <1>5 DEF Acts, Step, Begin, ReadModel, PlanExecution, Refuse, Check, FileConflict,
                WriteTmp, WriteTmpFails, Rollback, RollbackFails, RolledBack, NextPass, Idle
  <2>3. QED
    BY <2>1, <2>2
<1>6. QED
  BY <1>2, <1>3, <1>4, <1>5 DEF Next, Acts

\* Whatever siblings killed runs have left and however many runs go on at the
\* same time, a rename installs what its own executor computed from the files
\* it checked, as long as no plan of another executor names the file.
THEOREM RenamesItsOwn ==
    ASSUME Apart
    PROVE  Spec => InstallsOwn
<1> DEFINE I == Shape /\ \A e \in Executors : Written(e)
           Installs == \A e \in Executors :
                          pc[e] = "rename" /\ at'[e] = at[e] + 1
                              => disk'[Change(e).path] = Change(e).new
<1>1. Init => I
  BY ShapeInit DEF Init, Written
<1>2. I /\ [Next]_vars => I'
  BY Apart, ShapeStep, WrittenStep
<1>3. I /\ [Next]_vars => Installs
  <2> SUFFICES ASSUME I, [Next]_vars, NEW e \in Executors,
                      pc[e] = "rename", at'[e] = at[e] + 1
               PROVE  disk'[Change(e).path] = Change(e).new
    OBVIOUS
  <2>1. Rename(e)
    BY OnlyRenames
  <2>2. at[e] \in DOMAIN changes[e] /\ changes[e][at[e]].path \in Paths
    BY <2>1, AtChange, ChangeType DEF Rename
  <2>3. at[e] <= at[e]
    BY AtChange
  <2>4. tmp[Change(e).path] = Change(e).new
    BY <2>2, <2>3 DEF Written, Change
  <2>5. QED
    BY <2>1, <2>2, <2>4 DEF Rename, Change, Shape, TypeOK
<1>4. QED
  BY <1>1, <1>2, <1>3, PTL DEF Spec, InstallsOwn

-----------------------------------------------------------------------------
\* What pass 1 has checked still holds the edits that were there.

Passed(e, k) ==
    /\ k \in DOMAIN changes[e]
    /\ (pc[e] = "check" /\ k < at[e]) \/ pc[e] \in {"write", "rename", "rollback"}

Early(h, p) == edited[h] = p /\ h \notin late /\ p \notin lost

Kept(e) ==
    \A k : Passed(e, k) =>
        \A h \in Humans : Early(h, changes[e][k].path) =>
            changes[e][k].old \notin {Absent, Torn} /\ h \in changes[e][k].old

\* Only the check of a change passes it.
LEMMA PassedBefore ==
    ASSUME Shape, NEW e \in Executors, Acts(e), NEW k, Passed(e, k)'
    PROVE  /\ changes'[e] = changes[e]
           /\ Passed(e, k) \/ (Check(e) /\ k = at[e])
<1> USE DEF ghosts, local
<1>1. /\ DOMAIN changes[e] = 1..Len(changes[e]) /\ Len(changes[e]) \in Nat
      /\ at[e] \in Nat \ {0}
  BY AtChange
<1>2. CASE Check(e)
  BY <1>1, <1>2 DEF Check, Passed, Shape, TypeOK
<1>3. CASE NextPass(e, "check", "write") \/ NextPass(e, "write", "rename")
  BY <1>1, <1>3 DEF NextPass, MoreChanges, Passed, Shape, TypeOK
<1>4. CASE WriteTmp(e) \/ Rename(e) \/ RenameFails(e) \/ Rollback(e) \/ RollbackFails(e)
  BY <1>4 DEF WriteTmp, Rename, RenameFails, Rollback, RollbackFails, Passed, Shape, TypeOK
<1>5. CASE Begin(e) \/ (\E m \in Models : ReadModel(e, m))
  <2>1. pc'[e] = "read"
    BY <1>5 DEF Begin, ReadModel, Shape, TypeOK
  <2>2. QED
    BY <2>1 DEF Passed
<1>6. CASE PlanExecution(e)
  <2>1. pc'[e] = "check" /\ at'[e] = 1
    BY <1>6 DEF PlanExecution, Shape, TypeOK
  <2>2. changes'[e] \in Seq(Changes)
    BY <1>6, ReadingShape DEF Shape, TypeOK
  <2>3. ~(k < 1) \/ k \notin DOMAIN changes'[e]
    BY <2>2
  <2>4. QED
    BY <2>1, <2>3 DEF Passed
<1>7. CASE \/ Refuse(e) \/ FileConflict(e) \/ WriteTmpFails(e) \/ Finish(e)
           \/ RolledBack(e) \/ Kill(e)
  <2>1. pc'[e] \in Idle
    BY <1>7 DEF Refuse, FileConflict, WriteTmpFails, Finish, RolledBack, Kill, Return,
                Shape, TypeOK, Idle
  <2>2. QED
    BY <2>1 DEF Passed, Idle
<1>8. QED
  BY <1>2, <1>3, <1>4, <1>5, <1>6, <1>7 DEF Acts, Step

LEMMA KeptStep ==
    ASSUME Shape, EarlyEditsSurvive, \A e \in Executors : Kept(e), [Next]_vars,
           NEW d \in Executors
    PROVE  Kept(d)'
<1>1. ASSUME NEW e \in Executors, Acts(e)
      PROVE  Kept(d)'
  <2> SUFFICES ASSUME NEW k, Passed(d, k)', NEW h \in Humans,
                      Early(h, changes[d][k].path)'
               PROVE  changes'[d][k].old \notin {Absent, Torn} /\ h \in changes'[d][k].old
    BY DEF Kept
  <2>1. changes'[d] = changes[d] /\ (Passed(d, k) \/ (Check(d) /\ k = at[d]))
    <3>1. CASE d = e
      BY <1>1, <3>1, PassedBefore
    <3>2. CASE d # e
      <4>1. Locals(d)' = Locals(d)
        BY <1>1, <3>2, OwnSteps
      <4>2. QED
        BY <4>1 DEF Locals, Passed
    <3>3. QED
      BY <3>1, <3>2
  <2>2. Early(h, changes[d][k].path)
    BY <1>1, <2>1, OwnSteps DEF Early
  <2>3. CASE Passed(d, k)
    BY <2>1, <2>2, <2>3 DEF Kept
  <2>4. CASE Check(d) /\ k = at[d]
    <3>1. changes[d][k].path \in Paths
      BY <2>4, AtChange, ChangeType DEF Check
    <3>2. disk[changes[d][k].path] = changes[d][k].old
      BY <2>4 DEF Check, Change
    <3>3. Holds(changes[d][k].path, h)
      BY <2>2, <3>1, NowhereAssumption DEF Early, EarlyEditsSurvive
    <3>4. QED
      BY <2>1, <3>2, <3>3 DEF Holds
  <2>5. QED
    BY <2>1, <2>3, <2>4
<1>2. ASSUME NEW g \in Humans, NEW p \in Paths, Edit(g, p)
      PROVE  Kept(d)'
  <2> SUFFICES ASSUME NEW k, Passed(d, k)', NEW h \in Humans,
                      Early(h, changes[d][k].path)'
               PROVE  changes'[d][k].old \notin {Absent, Torn} /\ h \in changes'[d][k].old
    BY DEF Kept
  <2>1. changes' = changes /\ Passed(d, k)
    BY <1>2 DEF Edit, local, Passed
  <2>2. Early(h, changes[d][k].path)
    <3>1. CASE h = g
      <4>1. changes[d][k].path = p
        BY <1>2, <2>1, <3>1 DEF Edit, Early, Shape, TypeOK
      <4>2. changes[d] \in Seq(Changes)
        BY DEF Shape, TypeOK
      <4>3. k \in 1..Len(changes[d])
        BY <2>1, <4>2 DEF Passed
      <4>4. Checked(d, p)
        BY <2>1, <4>1, <4>3 DEF Passed, Checked
      <4>5. g \in late'
        BY <1>2, <4>4 DEF Edit
      <4>6. QED
        BY <3>1, <4>5 DEF Early
    <3>2. CASE h # g
      BY <1>2, <2>1, <3>2 DEF Edit, Early, Shape, TypeOK
    <3>3. QED
      BY <3>1, <3>2
  <2>3. QED
    BY <2>1, <2>2 DEF Kept
<1>3. CASE UNCHANGED vars
  BY <1>3 DEF vars, local, ghosts, Kept, Passed, Early
<1>4. QED
  BY <1>1, <1>2, <1>3 DEF Next, Acts

LEMMA SurviveStep ==
    ASSUME Shape, EarlyEditsSurvive,
           \A e \in Executors : Written(e) /\ Kept(e), [Next]_vars
    PROVE  EarlyEditsSurvive'
<1> USE DEF ghosts, local
<1>1. ASSUME NEW e \in Executors, Acts(e)
      PROVE  EarlyEditsSurvive'
  <2> SUFFICES ASSUME NEW h \in Humans, edited'[h] \notin lost' \cup {Nowhere}, h \notin late'
               PROVE  Holds(edited[h], h)'
    BY <1>1, OwnSteps DEF EarlyEditsSurvive
  <2> DEFINE p == edited[h]
  <2>1. /\ edited'[h] = p /\ p \in Paths /\ p \notin lost' /\ Early(h, p)
        /\ Holds(p, h)
    BY <1>1, OwnSteps DEF EarlyEditsSurvive, Early, Shape, TypeOK
  <2>2. CASE disk'[p] = disk[p]
    BY <2>1, <2>2 DEF Holds
  <2>3. CASE Rename(e)
    <3>1. at[e] \in DOMAIN changes[e] /\ Passed(e, at[e]) /\ at[e] <= at[e]
      BY <2>3, AtChange DEF Rename, Passed
    <3>2. /\ changes[e][at[e]].path \in Paths
          /\ changes[e][at[e]].new \in SUBSET Edits
          /\ Proper(e, changes[e][at[e]])
      BY <3>1, ChangeType DEF Shape, Listed
    <3>3. tmp[Change(e).path] = Change(e).new
      BY <2>3, <3>1 DEF Rename, Written, Change
    <3>4. CASE Change(e).path = p
      <4>1. Change(e).old \notin {Absent, Torn} /\ h \in Change(e).old
        BY <2>1, <3>1, <3>4 DEF Kept, Change
      <4>2. h \in Change(e).new
        BY <3>2, <4>1 DEF Proper, Change
      <4>3. disk'[p] = Change(e).new
        BY <2>3, <3>2, <3>3, <3>4 DEF Rename, Change, Shape, TypeOK
      <4>4. QED
        BY <2>1, <3>2, <4>2, <4>3, ContentsAssumption DEF Holds, Change
    <3>5. CASE Change(e).path # p
      BY <2>1, <2>2, <2>3, <3>5 DEF Rename, Shape, TypeOK
    <3>6. QED
      BY <3>4, <3>5
  <2>4. CASE Rollback(e)
    <3>1. undo[e] \in DOMAIN changes[e] /\ Passed(e, undo[e])
      BY <2>4, AtChange DEF Rollback, Passed
    <3>2. CASE changes[e][undo[e]].path = p
      <4>1. changes[e][undo[e]].old \notin {Absent, Torn} /\ h \in changes[e][undo[e]].old
        BY <2>1, <3>1, <3>2 DEF Kept
      <4>2. disk'[p] = changes[e][undo[e]].old
        BY <2>1, <2>4, <3>2 DEF Rollback, Shape, TypeOK
      <4>3. QED
        BY <2>1, <4>1, <4>2 DEF Holds
    <3>3. CASE changes[e][undo[e]].path # p
      BY <2>1, <2>2, <2>4, <3>3 DEF Rollback, Shape, TypeOK
    <3>4. QED
      BY <3>2, <3>3
  <2>5. CASE RollbackFails(e)
    BY <2>1, <2>2, <2>5 DEF RollbackFails, Cut, Shape, TypeOK
  <2>6. CASE Kill(e)
    BY <2>1, <2>2, <2>6 DEF Kill, Cut, Shape, TypeOK
  <2>7. CASE \/ Begin(e) \/ (\E m \in Models : ReadModel(e, m)) \/ PlanExecution(e)
             \/ Refuse(e) \/ Check(e) \/ FileConflict(e) \/ WriteTmp(e)
             \/ WriteTmpFails(e) \/ RenameFails(e) \/ RolledBack(e) \/ Finish(e)
             \/ NextPass(e, "check", "write") \/ NextPass(e, "write", "rename")
    BY <2>2, <2>7 DEF Begin, ReadModel, PlanExecution, Refuse, Check, FileConflict, WriteTmp,
                      WriteTmpFails, RenameFails, RolledBack, Finish, NextPass
  <2>8. QED
    BY <1>1, <2>3, <2>4, <2>5, <2>6, <2>7 DEF Acts, Step
<1>2. ASSUME NEW g \in Humans, NEW p \in Paths, Edit(g, p)
      PROVE  EarlyEditsSurvive'
  <2> SUFFICES ASSUME NEW h \in Humans, edited'[h] \notin lost' \cup {Nowhere}, h \notin late'
               PROVE  disk'[edited'[h]] \notin {Absent, Torn} /\ h \in disk'[edited'[h]]
    BY DEF EarlyEditsSurvive, Holds
  <2>1. disk[p] \in Contents /\ g \in Edits /\ disk'[p] \in Contents /\ g \in disk'[p]
        /\ disk'[p] \notin {Absent, Torn}
        /\ (disk[p] \notin {Absent, Torn} => disk[p] \subseteq disk'[p])
    <3>1. disk[p] \in Contents /\ g \in Edits
      BY DEF Shape, TypeOK, Edits
    <3>2. CASE disk[p] \in {Absent, Torn}
      <4>1. disk'[p] = {g} /\ {g} \in SUBSET Edits
        BY <1>2, <3>1, <3>2 DEF Edit, Shape, TypeOK
      <4>2. QED
        BY <3>1, <3>2, <4>1, ContentsAssumption DEF Contents
    <3>3. CASE disk[p] \notin {Absent, Torn}
      <4>1. disk'[p] = disk[p] \cup {g}
        BY <1>2, <3>3 DEF Edit, Shape, TypeOK
      <4>2. disk[p] \cup {g} \in SUBSET Edits
        BY <3>1, <3>3 DEF Contents
      <4>3. QED
        BY <3>1, <4>1, <4>2, ContentsAssumption DEF Contents
    <3>4. QED
      BY <3>2, <3>3
  <2>2. CASE h = g
    BY <1>2, <2>1, <2>2 DEF Edit, Holds, Shape, TypeOK
  <2>3. CASE h # g
    <3>1. edited'[h] = edited[h] /\ h \notin late /\ lost' = lost
      BY <1>2, <2>3 DEF Edit, Shape, TypeOK
    <3>2. Holds(edited[h], h) /\ edited[h] \in Paths
      BY <3>1 DEF EarlyEditsSurvive, Shape, TypeOK
    <3>3. CASE edited[h] = p
      BY <2>1, <3>1, <3>2, <3>3 DEF Holds
    <3>4. CASE edited[h] # p
      BY <1>2, <3>1, <3>2, <3>4 DEF Edit, Holds, Shape, TypeOK
    <3>5. QED
      BY <3>3, <3>4
  <2>4. QED
    BY <2>2, <2>3
<1>3. CASE UNCHANGED vars
  BY <1>3 DEF vars, EarlyEditsSurvive, Holds
<1>4. QED
  BY <1>1, <1>2, <1>3 DEF Next, Acts

\* "Never silently overwrite": for plans on different files, however many
\* executors, people, I/O errors and kills there are, an edit that is saved
\* before commit_changes checks its file stays in it.
THEOREM EarlyEdits ==
    ASSUME Apart
    PROVE  Spec => []EarlyEditsSurvive
<1> DEFINE I == /\ Shape
                /\ \A e \in Executors : Written(e) /\ Kept(e)
                /\ EarlyEditsSurvive
<1>1. Init => I
  <2> SUFFICES ASSUME Init
               PROVE  I
    OBVIOUS
  <2>1. \A e \in Executors : Written(e) /\ Kept(e)
    BY DEF Init, Written, Kept, Passed
  <2>2. EarlyEditsSurvive
    BY DEF Init, EarlyEditsSurvive
  <2>3. QED
    BY <2>1, <2>2, ShapeInit
<1>2. I /\ [Next]_vars => I'
  <2> SUFFICES ASSUME I, [Next]_vars
               PROVE  I'
    OBVIOUS
  <2>1. Shape'
    BY ShapeStep
  <2>2. \A e \in Executors : Written(e)' /\ Kept(e)'
    BY Apart, WrittenStep, KeptStep
  <2>3. EarlyEditsSurvive'
    BY SurviveStep
  <2>4. QED
    BY <2>1, <2>2, <2>3
<1>3. I => EarlyEditsSurvive
  OBVIOUS
<1>4. QED
  BY <1>1, <1>2, <1>3, PTL DEF Spec

-----------------------------------------------------------------------------
\* How far a commit has come, told by the files themselves.

\* The changes of e that are in place.
Done(e) ==
    IF pc[e] = "rename" THEN at[e] - 1 ELSE IF pc[e] = "rollback" THEN undo[e] ELSE 0

\* The first n changes are in place.
Installed(e, n) ==
    \A k \in DOMAIN changes[e] :
        k <= n => \A f \in changes[e][k].new \cap Fields : Holds(changes[e][k].path, f)

\* Nothing of the plan is, outside the first n changes.
ClearAfter(e, n) ==
    \A i \in DOMAIN Plans[e], p \in Paths :
        Writes(e, i, p) /\ (\A k \in DOMAIN changes[e] : k <= n => changes[e][k].path # p)
            => ~Holds(p, Plans[e][i].field)

\* What is in a model that e has read, it has seen.
Seen(e) ==
    \A i \in DOMAIN Plans[e] :
        Plans[e][i].model \notin unread[e] /\ ModelHas(e, i)
            => /\ view[e][Plans[e][i].model] # Torn
               /\ Plans[e][i].field \in view[e][Plans[e][i].model]

\* What holds of every executor ...
Firm(e) ==
    /\ pc[e] = "ok" => Applied(e)
    /\ pc[e] = "rename" => Installed(e, at[e] - 1)

\* ... and of those that were never killed and lost nothing in a rollback.
Sound(e) ==
    /\ pc[e] \in Idle \cup {"read"} => Applied(e) \/ Untouched(e)
    /\ pc[e] = "read" => Seen(e)
    /\ pc[e] \in Committing => ClearAfter(e, Done(e))

Excused(e) == e \in killed \/ NotRestored(e)

LEMMA MigrationsOfStep ==
    ASSUME NEW e \in Executors, NEW i \in DOMAIN Plans[e]
    PROVE  MigrationHas(e, i)
             <=> \E p \in Migrations : /\ p.field = Plans[e][i].field
                                       /\ Holds(p, Plans[e][i].field)
<1>1. Plans[e][i].field \in Fields
  BY PlanType
<1>2. \A p \in Migrations : p.field = Plans[e][i].field
        => p.num \in 1..MaxNumber /\ p = [num |-> p.num, field |-> Plans[e][i].field]
  BY DEF Migrations
<1>3. \A n \in 1..MaxNumber :
        /\ [num |-> n, field |-> Plans[e][i].field] \in Migrations
        /\ [num |-> n, field |-> Plans[e][i].field].field = Plans[e][i].field
  BY <1>1 DEF Migrations
<1>4. ASSUME MigrationHas(e, i)
      PROVE  \E p \in Migrations : p.field = Plans[e][i].field /\ Holds(p, Plans[e][i].field)
  BY <1>3, <1>4 DEF MigrationHas
<1>5. ASSUME NEW p \in Migrations, p.field = Plans[e][i].field, Holds(p, Plans[e][i].field)
      PROVE  MigrationHas(e, i)
  <2>1. Holds([num |-> p.num, field |-> Plans[e][i].field], Plans[e][i].field)
    BY <1>2, <1>5
  <2>2. QED
    BY <1>2, <1>5, <2>1 DEF MigrationHas
<1>6. QED
  BY <1>4, <1>5

LEMMA NothingInPlace ==
    ASSUME Shape, NEW e \in Executors
    PROVE  ClearAfter(e, 0) <=> Untouched(e)
<1>1. \A k \in DOMAIN changes[e] : ~(k <= 0)
  BY ChangeType
<1>2. Untouched(e) <=> \A i \in DOMAIN Plans[e], p \in Paths :
                          Writes(e, i, p) => ~Holds(p, Plans[e][i].field)
  <2>1. \A i \in DOMAIN Plans[e] : Plans[e][i].model \in Paths
    BY PlanType DEF Paths
  <2>2. QED
    BY <2>1, MigrationsOfStep DEF Untouched, ModelHas, Writes, Paths
<1>3. QED
  BY <1>1, <1>2 DEF ClearAfter

LEMMA AllInPlace ==
    ASSUME Shape, NEW e \in Executors, pc[e] = "rename", ~MoreChanges(e),
           Installed(e, at[e] - 1)
    PROVE  Applied(e)
<1>1. \A k \in DOMAIN changes[e] : k <= at[e] - 1
  BY AtChange DEF MoreChanges
<1>2. Complete(e, changes[e])
  BY DEF Shape, Listed, Committing
<1>3. \A i \in DOMAIN Plans[e] : Plans[e][i].field \in Fields
  BY PlanType
<1>4. \A k \in DOMAIN changes[e] : \A f \in changes[e][k].new \cap Fields :
        Holds(changes[e][k].path, f)
  BY <1>1 DEF Installed
<1>5. ASSUME NEW i \in DOMAIN Plans[e]
      PROVE  ModelHas(e, i) /\ MigrationHas(e, i)
  <2>1. PICK k \in DOMAIN changes[e] :
          changes[e][k].path = Plans[e][i].model /\ Plans[e][i].field \in changes[e][k].new
    BY <1>2 DEF Complete
  <2>2. PICK l \in DOMAIN changes[e] :
          /\ changes[e][l].path \in Migrations
          /\ changes[e][l].path.field = Plans[e][i].field
          /\ Plans[e][i].field \in changes[e][l].new
    BY <1>2 DEF Complete
  <2>3. ModelHas(e, i)
    BY <1>3, <1>4, <2>1 DEF ModelHas
  <2>4. MigrationHas(e, i)
    BY <1>3, <1>4, <2>2, MigrationsOfStep
  <2>5. QED
    BY <2>3, <2>4
<1>6. QED
  BY <1>5 DEF Applied

\* Steps that leave what e holds, and what its files hold of its plan, leave
\* Firm and Sound as they are.
LEMMA SoundKeeps ==
    ASSUME Shape, NEW e \in Executors, Locals(e)' = Locals(e),
           \A p \in Paths : \A f \in Fields : Own(e, p) => (Holds(p, f)' <=> Holds(p, f))
    PROVE  (Firm(e) => Firm(e)') /\ (Sound(e) => Sound(e)')
<1>1. /\ pc'[e] = pc[e] /\ unread'[e] = unread[e] /\ view'[e] = view[e]
      /\ changes'[e] = changes[e] /\ at'[e] = at[e] /\ undo'[e] = undo[e]
  BY DEF Locals
<1>2. \A i \in DOMAIN Plans[e] : \A p \in Paths : Writes(e, i, p) =>
        (Holds(p, Plans[e][i].field)' <=> Holds(p, Plans[e][i].field))
  BY PlanType DEF Own
<1>3. \A i \in DOMAIN Plans[e] : ModelHas(e, i)' <=> ModelHas(e, i)
  BY <1>2, PlanType DEF ModelHas, Writes, Paths
<1>4. \A i \in DOMAIN Plans[e] : MigrationHas(e, i)' <=> MigrationHas(e, i)
  <2> SUFFICES ASSUME NEW i \in DOMAIN Plans[e], NEW n \in 1..MaxNumber
               PROVE  LET p == [num |-> n, field |-> Plans[e][i].field]
                      IN Holds(p, Plans[e][i].field)' <=> Holds(p, Plans[e][i].field)
    BY DEF MigrationHas
  <2> DEFINE p == [num |-> n, field |-> Plans[e][i].field]
  <2>1. p \in Migrations /\ p.field = Plans[e][i].field
    BY PlanType DEF Migrations
  <2> HIDE DEF p
  <2>2. Holds(p, Plans[e][i].field)' <=> Holds(p, Plans[e][i].field)
    BY <1>2, <2>1 DEF Writes, Paths
  <2>3. QED
    BY <2>2 DEF p
<1>5. (Applied(e)' <=> Applied(e)) /\ (Untouched(e)' <=> Untouched(e))
  BY <1>3, <1>4 DEF Applied, Untouched
<1>6. Seen(e) => Seen(e)'
  BY <1>1, <1>3 DEF Seen
<1>7. \A k \in DOMAIN changes[e] :
        changes[e][k].path \in Paths /\ Own(e, changes[e][k].path)
  BY ChangeType DEF Shape, Listed, Proper
<1>8. ASSUME Firm(e)
      PROVE  Firm(e)'
  <2>1. Installed(e, at[e] - 1) => Installed(e, at[e] - 1)'
    BY <1>1, <1>7 DEF Installed
  <2>2. QED
    BY <1>1, <1>5, <1>8, <2>1 DEF Firm
<1>9. ASSUME Sound(e)
      PROVE  Sound(e)'
  <2>1. Done(e)' = Done(e)
    BY <1>1 DEF Done
  <2>2. ClearAfter(e, Done(e)) => ClearAfter(e, Done(e))'
    BY <1>1, <1>2, <2>1 DEF ClearAfter
  <2>3. QED
    BY <1>1, <1>5, <1>6, <1>9, <2>2 DEF Sound
<1>10. QED
  BY <1>8, <1>9

\* What people save is no field of a plan.
LEMMA EditsAreNoSteps ==
    ASSUME Shape, NEW h \in Humans, NEW p \in Paths, Edit(h, p)
    PROVE  \A q \in Paths : \A f \in Fields : Holds(q, f)' <=> Holds(q, f)
<1> SUFFICES ASSUME NEW q \in Paths, NEW f \in Fields
             PROVE  Holds(q, f)' <=> Holds(q, f)
  OBVIOUS
<1>1. h # f /\ disk[p] \in Contents /\ h \in Edits
  BY PathsAssumption DEF Shape, TypeOK, Edits
<1>2. CASE q # p
  BY <1>2 DEF Edit, Holds, Shape, TypeOK
<1>3. CASE q = p /\ disk[p] \in {Absent, Torn}
  <2>1. disk'[p] = {h}
    BY <1>3 DEF Edit, Shape, TypeOK
  <2>2. QED
    BY <1>1, <1>3, <2>1 DEF Holds
<1>4. CASE q = p /\ disk[p] \notin {Absent, Torn}
  <2>1. disk'[p] = disk[p] \cup {h}
    BY <1>4 DEF Edit, Shape, TypeOK
  <2>2. disk[p] \cup {h} \in SUBSET Edits
    BY <1>1, <1>4 DEF Contents
  <2>3. QED
    BY <1>1, <1>4, <2>1, <2>2, ContentsAssumption DEF Holds
<1>5. QED
  BY <1>2, <1>3, <1>4

LEMMA SoundWhenReading ==
    ASSUME Shape, NEW e \in Executors, Sound(e),
           Begin(e) \/ (\E m \in Models : ReadModel(e, m)) \/ PlanExecution(e) \/ Refuse(e)
    PROVE  Sound(e)'
<1>0. disk' = disk
  BY DEF Begin, ReadModel, PlanExecution, Refuse
<1>1. (Applied(e)' <=> Applied(e)) /\ (Untouched(e)' <=> Untouched(e))
  BY <1>0 DEF Applied, Untouched, ModelHas, MigrationHas, Holds
<1>2. CASE Begin(e)
  <2>1. pc[e] \in Idle /\ pc'[e] = "read" /\ unread'[e] = Models
    BY <1>2 DEF Begin, Shape, TypeOK
  <2>2. Seen(e)'
    BY <2>1, PlanType DEF Seen
  <2>3. QED
    BY <1>1, <2>1, <2>2 DEF Sound, Committing
<1>3. ASSUME NEW m \in Models, ReadModel(e, m)
      PROVE  Sound(e)'
  <2>1. /\ pc[e] = "read" /\ pc'[e] = "read" /\ unread'[e] = unread[e] \ {m}
        /\ view'[e][m] = disk[m]
        /\ \A l \in Models : l # m => view'[e][l] = view[e][l]
    BY <1>3 DEF ReadModel, Shape, TypeOK
  <2>2. Seen(e)'
    <3> SUFFICES ASSUME NEW i \in DOMAIN Plans[e], Plans[e][i].model \notin unread'[e],
                        ModelHas(e, i)
                 PROVE  /\ view'[e][Plans[e][i].model] # Torn
                        /\ Plans[e][i].field \in view'[e][Plans[e][i].model]
      BY <1>0 DEF Seen, ModelHas, Holds
    <3>1. CASE Plans[e][i].model = m
      BY <2>1, <3>1 DEF ModelHas, Holds
    <3>2. CASE Plans[e][i].model # m
      BY <2>1, <3>2, PlanType DEF Sound, Seen
    <3>3. QED
      BY <3>1, <3>2
  <2>3. QED
    BY <1>1, <2>1, <2>2 DEF Sound, Committing
<1>4. CASE PlanExecution(e)
  <2>1. /\ pc[e] = "read" /\ unread[e] = {} /\ Patchable(Plans[e], view[e])
        /\ pc'[e] = "check"
    BY <1>4 DEF PlanExecution, Shape, TypeOK
  <2>2. \A i \in DOMAIN Plans[e] : ~ModelHas(e, i)
    BY <2>1 DEF Sound, Seen, Patchable, FieldExists
  <2>3. Untouched(e)'
    BY <1>1, <2>1, <2>2 DEF Sound, Applied, Untouched
  <2>4. Shape'
    BY <1>4, ReadingShape
  <2>5. ClearAfter(e, 0)'
    BY <2>3, <2>4, NothingInPlace, PTL
  <2>6. QED
    BY <2>1, <2>5 DEF Sound, Done, Idle, Committing
<1>5. CASE Refuse(e)
  <2>1. pc[e] = "read" /\ pc'[e] = "failed"
    BY <1>5 DEF Refuse, Return, Shape, TypeOK
  <2>2. QED
    BY <1>1, <2>1 DEF Sound, Committing
<1>6. QED
  BY <1>2, <1>3, <1>4, <1>5

LEMMA FirmByOwner ==
    ASSUME Shape, NEW e \in Executors, Firm(e), Written(e), Acts(e)
    PROVE  Firm(e)'
<1> USE DEF local, ghosts
<1>0. /\ \A k \in DOMAIN changes[e] : changes[e][k].path \in Paths
      /\ \A j, k \in DOMAIN changes[e] : changes[e][j].path = changes[e][k].path => j = k
      /\ DOMAIN changes[e] = 1..Len(changes[e]) /\ Len(changes[e]) \in Nat
      /\ at[e] \in Nat \ {0}
  BY AtChange, ChangeType DEF Shape, Listed
<1>1. CASE Rename(e)
  <2>1. /\ pc[e] = "rename" /\ pc'[e] = "rename" /\ changes' = changes
        /\ at'[e] - 1 = at[e] /\ at[e] \in DOMAIN changes[e]
    <3>1. MoreChanges(e) /\ pc[e] = "rename" /\ pc' = pc /\ changes' = changes
      BY <1>1 DEF Rename
    <3>2. at'[e] = at[e] + 1
      BY <1>1 DEF Rename, Shape, TypeOK
    <3>3. QED
      BY <1>0, <3>1, <3>2, AtChange
  <2> DEFINE q == changes[e][at[e]].path
             new == changes[e][at[e]].new
  <2>2. q \in Paths /\ new \in SUBSET Edits /\ new \notin {Absent, Torn}
    BY <2>1, ChangeType, ContentsAssumption
  <2>3. disk'[q] = new /\ \A p \in Paths : p # q => disk'[p] = disk[p]
    <3>1. at[e] <= at[e]
      BY <1>0
    <3>2. tmp[q] = new
      BY <2>1, <3>1 DEF Written
    <3>3. QED
      BY <1>1, <2>2, <3>2 DEF Rename, Change, Shape, TypeOK
  <2>4. Installed(e, at[e] - 1)
    BY <2>1 DEF Firm
  <2>5. ASSUME NEW k \in DOMAIN changes[e], k <= at[e], NEW f \in changes[e][k].new \cap Fields
        PROVE  Holds(changes[e][k].path, f)'
    <3>1. CASE k = at[e]
      BY <2>1, <2>2, <2>3, <2>5, <3>1 DEF Holds
    <3>2. CASE k # at[e]
      <4>1. k <= at[e] - 1 /\ changes[e][k].path # q /\ changes[e][k].path \in Paths
        BY <1>0, <2>1, <2>5, <3>2
      <4>2. Holds(changes[e][k].path, f)
        BY <2>4, <2>5, <4>1 DEF Installed
      <4>3. QED
        BY <2>1, <2>3, <4>1, <4>2 DEF Holds
    <3>3. QED
      BY <3>1, <3>2
  <2>6. Installed(e, at[e] - 1)'
    BY <2>1, <2>5 DEF Installed
  <2>7. QED
    BY <2>1, <2>6 DEF Firm
<1>2. CASE Finish(e)
  <2>1. /\ disk' = disk /\ pc'[e] = "ok" /\ pc[e] = "rename" /\ ~MoreChanges(e)
    BY <1>2 DEF Finish, Return, Shape, TypeOK
  <2>2. Applied(e)
    BY <2>1, AllInPlace DEF Firm
  <2>3. Applied(e)'
    BY <2>1, <2>2 DEF Applied, ModelHas, MigrationHas, Holds
  <2>4. QED
    BY <2>1, <2>3 DEF Firm
<1>3. CASE NextPass(e, "write", "rename")
  <2>1. pc'[e] = "rename" /\ at'[e] - 1 = 0 /\ changes' = changes
    BY <1>3 DEF NextPass, Shape, TypeOK
  <2>2. \A k \in DOMAIN changes[e] : ~(k <= 0)
    BY <1>0
  <2>3. QED
    BY <2>1, <2>2 DEF Firm, Installed
<1>4. CASE \/ Begin(e) \/ (\E m \in Models : ReadModel(e, m)) \/ PlanExecution(e)
           \/ NextPass(e, "check", "write") \/ Check(e) \/ WriteTmp(e) \/ RenameFails(e)
           \/ Rollback(e) \/ RollbackFails(e)
  <2>1. pc'[e] \notin {"ok", "rename"}
    BY <1>4 DEF Begin, ReadModel, PlanExecution, NextPass, Check, WriteTmp, RenameFails,
                Rollback, RollbackFails, Shape, TypeOK
  <2>2. QED
    BY <2>1 DEF Firm
<1>5. CASE Refuse(e) \/ FileConflict(e) \/ WriteTmpFails(e) \/ RolledBack(e) \/ Kill(e)
  <2>1. pc'[e] \notin {"ok", "rename"}
    BY <1>5 DEF Refuse, FileConflict, WriteTmpFails, RolledBack, Kill, Return, Shape, TypeOK
  <2>2. QED
    BY <2>1 DEF Firm
<1>6. QED
  BY <1>1, <1>2, <1>3, <1>4, <1>5 DEF Acts, Step

LEMMA SoundWhenCommitting ==
    ASSUME Shape, NEW e \in Executors, Sound(e), Firm(e)',
           \/ NextPass(e, "check", "write") \/ NextPass(e, "write", "rename")
           \/ Check(e) \/ FileConflict(e) \/ WriteTmp(e) \/ WriteTmpFails(e)
           \/ Rename(e) \/ RenameFails(e) \/ Finish(e) \/ Rollback(e) \/ RolledBack(e)
    PROVE  Sound(e)'
<1> USE DEF local, ghosts
<1>0. /\ \A k \in DOMAIN changes[e] : changes[e][k].path \in Paths
      /\ DOMAIN changes[e] = 1..Len(changes[e]) /\ Len(changes[e]) \in Nat
      /\ at[e] \in Nat \ {0} /\ undo[e] \in Nat
  BY AtChange, ChangeType
<1>1. CASE \/ NextPass(e, "check", "write") \/ NextPass(e, "write", "rename")
           \/ Check(e) \/ WriteTmp(e) \/ RenameFails(e)
  <2>1. /\ disk' = disk /\ changes' = changes
        /\ pc[e] \in Committing /\ pc'[e] \in Committing
    BY <1>1 DEF NextPass, Check, WriteTmp, RenameFails, Shape, TypeOK, Committing
  <2>2. Done(e)' = Done(e)
    BY <1>0, <1>1 DEF NextPass, Check, WriteTmp, RenameFails, Shape, TypeOK, Done
  <2>3. ClearAfter(e, Done(e))
    BY <2>1 DEF Sound
  <2>4. ClearAfter(e, Done(e))'
    BY <2>1, <2>2, <2>3 DEF ClearAfter, Holds
  <2>5. QED
    BY <2>1, <2>4 DEF Sound, Idle, Committing
<1>2. CASE FileConflict(e) \/ WriteTmpFails(e) \/ RolledBack(e)
  <2>1. /\ disk' = disk /\ pc'[e] = "failed" /\ Done(e) = 0 /\ pc[e] \in Committing
    BY <1>2 DEF FileConflict, WriteTmpFails, RolledBack, Return, Shape, TypeOK,
                Done, Committing
  <2>2. Untouched(e)
    BY <2>1, NothingInPlace DEF Sound
  <2>3. Untouched(e)'
    BY <2>1, <2>2 DEF Untouched, ModelHas, MigrationHas, Holds
  <2>4. QED
    BY <2>1, <2>3 DEF Sound, Committing
<1>3. CASE Finish(e)
  <2>1. pc'[e] = "ok"
    BY <1>3 DEF Finish, Return, Shape, TypeOK
  <2>2. QED
    BY <2>1 DEF Firm, Sound, Committing
<1>4. CASE Rename(e)
  <2>1. /\ pc[e] = "rename" /\ pc'[e] = "rename" /\ changes' = changes
        /\ Done(e) = at[e] - 1 /\ Done(e)' = at[e] /\ at[e] \in DOMAIN changes[e]
    BY <1>0, <1>4, AtChange DEF Rename, Shape, TypeOK, Done
  <2>2. \A p \in Paths : p # changes[e][at[e]].path => disk'[p] = disk[p]
    BY <1>0, <1>4, <2>1 DEF Rename, Change, Shape, TypeOK
  <2>3. ASSUME NEW i \in DOMAIN Plans[e], NEW p \in Paths, Writes(e, i, p),
               \A k \in DOMAIN changes[e] : k <= at[e] => changes[e][k].path # p
        PROVE  ~Holds(p, Plans[e][i].field)'
    <3>1. p # changes[e][at[e]].path
      BY <1>0, <2>1, <2>3
    <3>2. \A k \in DOMAIN changes[e] : k <= at[e] - 1 => changes[e][k].path # p
      BY <1>0, <2>3
    <3>3. ~Holds(p, Plans[e][i].field)
      BY <2>1, <2>3, <3>2 DEF Sound, ClearAfter, Committing
    <3>4. QED
      BY <2>2, <3>1, <3>3 DEF Holds
  <2>4. ClearAfter(e, Done(e))'
    BY <2>1, <2>3 DEF ClearAfter
  <2>5. QED
    BY <2>1, <2>4 DEF Sound, Idle
<1>5. CASE Rollback(e)
  <2>1. /\ pc[e] = "rollback" /\ pc'[e] = "rollback" /\ changes' = changes
        /\ Done(e) = undo[e] /\ Done(e)' = undo[e] - 1 /\ undo[e] \in DOMAIN changes[e]
    BY <1>0, <1>5, AtChange DEF Rollback, Shape, TypeOK, Done
  <2> DEFINE q == changes[e][undo[e]].path
             old == changes[e][undo[e]].old
  <2>2. q \in Paths /\ Proper(e, changes[e][undo[e]])
    BY <2>1, ChangeType DEF Shape, Listed
  <2>3. disk'[q] = old /\ \A p \in Paths : p # q => disk'[p] = disk[p]
    BY <1>5, <2>2 DEF Rollback, Shape, TypeOK
  <2>4. ASSUME NEW i \in DOMAIN Plans[e], NEW p \in Paths, Writes(e, i, p),
               \A k \in DOMAIN changes[e] : k <= undo[e] - 1 => changes[e][k].path # p
        PROVE  ~Holds(p, Plans[e][i].field)'
    <3>1. CASE p = q
      <4>1. old = Absent \/ Plans[e][i].field \notin old
        BY <2>2, <2>4, <3>1 DEF Proper
      <4>2. QED
        BY <2>3, <3>1, <4>1 DEF Holds
    <3>2. CASE p # q
      <4>1. \A k \in DOMAIN changes[e] : k <= undo[e] => changes[e][k].path # p
        BY <1>0, <2>4, <3>2
      <4>2. ~Holds(p, Plans[e][i].field)
        BY <2>1, <2>4, <4>1 DEF Sound, ClearAfter, Committing
      <4>3. QED
        BY <2>3, <3>2, <4>2 DEF Holds
    <3>3. QED
      BY <3>1, <3>2
  <2>5. ClearAfter(e, Done(e))'
    BY <2>1, <2>4 DEF ClearAfter
  <2>6. QED
    BY <2>1, <2>5 DEF Sound, Idle
<1>6. QED
  BY <1>1, <1>2, <1>3, <1>4, <1>5

LEMMA FirmStep ==
    ASSUME Shape, Apart, \A e \in Executors : Written(e) /\ Firm(e),
           [Next]_vars, NEW e \in Executors
    PROVE  Firm(e)'
<1>1. CASE UNCHANGED vars
  BY <1>1, SoundKeeps DEF vars, local, Locals, Holds
<1>2. ASSUME NEW d \in Executors, Acts(d)
      PROVE  Firm(e)'
  <2>1. CASE d # e
    <3>1. \A p \in Paths : Own(e, p) => ~Own(d, p)
      BY <2>1 DEF Apart
    <3>2. Locals(e)' = Locals(e) /\ \A p \in Paths : Own(e, p) => disk'[p] = disk[p]
      BY <1>2, <2>1, <3>1, OwnSteps
    <3>3. QED
      BY <3>2, SoundKeeps DEF Holds
  <2>2. CASE d = e
    BY <1>2, <2>2, FirmByOwner
  <2>3. QED
    BY <2>1, <2>2
<1>3. ASSUME NEW h \in Humans, NEW p \in Paths, Edit(h, p)
      PROVE  Firm(e)'
  BY <1>3, EditsAreNoSteps, SoundKeeps DEF Edit, local, Locals
<1>4. QED
  BY <1>1, <1>2, <1>3 DEF Next, Acts

LEMMA SoundStep ==
    ASSUME Shape, Apart, \A e \in Executors : Firm(e)' /\ (Excused(e) \/ Sound(e)),
           [Next]_vars, NEW e \in Executors
    PROVE  Excused(e)' \/ Sound(e)'
<1>1. CASE UNCHANGED vars
  <2>1. Excused(e) => Excused(e)'
    BY <1>1 DEF vars, ghosts, Excused, NotRestored
  <2>2. Sound(e) => Sound(e)'
    BY <1>1, SoundKeeps DEF vars, local, Locals, Holds
  <2>3. QED
    BY <2>1, <2>2
<1>2. ASSUME NEW d \in Executors, Acts(d)
      PROVE  Excused(e)' \/ Sound(e)'
  <2>1. Excused(e) => Excused(e)'
    BY <1>2, OwnSteps DEF Excused, NotRestored
  <2>2. CASE d # e /\ Sound(e)
    <3>1. \A p \in Paths : Own(e, p) => ~Own(d, p)
      BY <2>2 DEF Apart
    <3>2. Locals(e)' = Locals(e) /\ \A p \in Paths : Own(e, p) => disk'[p] = disk[p]
      BY <1>2, <2>2, <3>1, OwnSteps
    <3>3. QED
      BY <2>2, <3>2, SoundKeeps DEF Holds
  <2>3. CASE d = e /\ Sound(e)
    <3>1. CASE Kill(e)
      BY <3>1 DEF Kill, Excused
    <3>2. CASE RollbackFails(e)
      <4>1. undo[e] \in DOMAIN changes[e] /\ changes[e][undo[e]].path \in lost'
        BY <3>2, AtChange DEF RollbackFails
      <4>2. Own(e, changes[e][undo[e]].path)
        BY <4>1 DEF Shape, Listed, Proper
      <4>3. NotRestored(e)'
        BY <4>1, <4>2 DEF Own, Writes, NotRestored
      <4>4. QED
        BY <4>3 DEF Excused
    <3>3. CASE Begin(e) \/ (\E m \in Models : ReadModel(e, m)) \/ PlanExecution(e) \/ Refuse(e)
      BY <2>3, <3>3, SoundWhenReading
    <3>4. CASE \/ NextPass(e, "check", "write") \/ NextPass(e, "write", "rename")
               \/ Check(e) \/ FileConflict(e) \/ WriteTmp(e) \/ WriteTmpFails(e)
               \/ Rename(e) \/ RenameFails(e) \/ Finish(e) \/ Rollback(e) \/ RolledBack(e)
      BY <2>3, <3>4, SoundWhenCommitting
    <3>5. QED
      BY <1>2, <2>3, <3>1, <3>2, <3>3, <3>4 DEF Acts, Step
  <2>4. QED
    BY <2>1, <2>2, <2>3
<1>3. ASSUME NEW h \in Humans, NEW p \in Paths, Edit(h, p)
      PROVE  Excused(e)' \/ Sound(e)'
  <2>1. Excused(e) => Excused(e)'
    BY <1>3 DEF Edit, Excused, NotRestored
  <2>2. Sound(e) => Sound(e)'
    BY <1>3, EditsAreNoSteps, SoundKeeps DEF Edit, local, Locals
  <2>3. QED
    BY <2>1, <2>2
<1>4. QED
  BY <1>1, <1>2, <1>3 DEF Next, Acts

\* All-or-nothing: for plans on different files, whatever people save, whatever
\* fails and whoever is killed, an executor that says Ok has its whole plan on
\* disk; and one that says Err has all of it there or nothing of it, unless it
\* was itself killed at some time, or a write of its rollback failed.
THEOREM Atomic ==
    ASSUME Apart
    PROVE  Spec => []AllOrNothing
<1> DEFINE I == /\ Shape
                /\ \A e \in Executors : Written(e) /\ Firm(e) /\ (Excused(e) \/ Sound(e))
<1>1. Init => I
  <2> SUFFICES ASSUME Init
               PROVE  I
    OBVIOUS
  <2>1. \A e \in Executors : Written(e)
    BY DEF Init, Written
  <2>2. ASSUME NEW e \in Executors
        PROVE  Firm(e) /\ Sound(e)
    <3>1. \A i \in DOMAIN Plans[e] : ~ModelHas(e, i)
      BY PlanType DEF Init, ModelHas, Holds, Paths
    <3>2. \A i \in DOMAIN Plans[e] : ~MigrationHas(e, i)
      BY MigrationsOfStep, PathsAssumption DEF Init, Holds, Paths
    <3>3. Untouched(e) /\ pc[e] = "idle"
      BY <3>1, <3>2 DEF Init, Untouched
    <3>4. QED
      BY <3>3 DEF Firm, Sound, Idle, Committing
  <2>3. QED
    BY <2>1, <2>2, ShapeInit
<1>2. I /\ [Next]_vars => I'
  BY Apart, ShapeStep, WrittenStep, FirmStep, SoundStep
<1>3. I => AllOrNothing
  BY DEF Firm, Sound, Excused, AllOrNothing, Idle
<1>4. QED
  BY <1>1, <1>2, <1>3, PTL DEF Spec
=============================================================================

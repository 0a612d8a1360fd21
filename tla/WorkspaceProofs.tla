--------------------------- MODULE WorkspaceProofs ---------------------------
(***************************************************************************)
(* Proofs about a project that people change in terminals and browsers     *)
(* (Workspace), as a part of its whole way (Journey): for any models,      *)
(* names, sentences, plans of any length, contexts, terminals, browsers    *)
(* and numbers of plans.                                                   *)
(*                                                                         *)
(* Planning and review look at one description of the models, the dry run  *)
(* at another two.  The lemmas of the first half follow a plan through     *)
(* both at once, step by step.                                             *)
(***************************************************************************)
EXTENDS Journey, Induction

Ops == {"add_field", "remove_field", "remove_relation", "rename_field", "rename_model",
        "change_type", "change_null", "add_relation", "add_model", "remove_model",
        "update_admin", "create_migration"}

\* What each kind of step consists of.
LEMMA Kinds ==
    ASSUME NEW s \in Steps
    PROVE  /\ s.op \in Ops
           /\ s.op # "create_migration" => s.model \in Models
           /\ s.op = "add_field" => s.field \in Fields
           /\ s.op \in {"remove_field", "remove_relation", "rename_field", "change_type",
                        "change_null", "add_relation", "update_admin"} => s.name \in Names
           /\ s.op = "rename_field" => s.to \in Names
           /\ s.op = "change_type" => s.ty \in Types
           /\ s.op = "change_null" => s.null \in BOOLEAN
           /\ s.op \in {"rename_model", "add_relation"} => s.to \in Models
           /\ s.op = "add_relation" => s.required \in BOOLEAN
           /\ s.op = "add_model" => s.fields \in SUBSET Fields
BY DEF Steps, Ops

-----------------------------------------------------------------------------
(* One step of a dry run. *)

Dry == [source : Shapes, shadow : Shapes, renamed : SUBSET Models, referenced : SUBSET Tables]

\* The field a step adds.
Added(s) == IF s.op = "add_field" THEN s.field ELSE ForeignKey(s)

\* What a step makes of the fields F of its model.
Edits(s, F, G) ==
    \/ /\ s.op \in {"add_field", "add_relation"}
       /\ Added(s).name \notin NamesOf(F) /\ G = F \cup {Added(s)}
    \/ /\ s.op = "rename_field"
       /\ s.name \in NamesOf(F) /\ s.to \notin NamesOf(F) /\ G = Renaming(F, s.name, s.to)
    \/ /\ s.op = "change_type"
       /\ \E f \in F : f.name = s.name /\ f.ty # s.ty /\ G = (F \ {f}) \cup {[f EXCEPT !.ty = s.ty]}
    \/ /\ s.op = "change_null"
       /\ \E f \in F : f.name = s.name /\ f.null # s.null
                       /\ G = (F \ {f}) \cup {[f EXCEPT !.null = s.null]}
    \/ /\ s.op \in {"remove_field", "remove_relation"}
       /\ \E f \in F : f.name = s.name /\ G = F \ {f}

\* What it makes of the structs.
Moves(s, d, e) ==
    /\ Located(s.model, d)
    /\ \/ /\ s.op # "rename_model" /\ e.renamed = d.renamed
          /\ Edits(s, d.source[s.model], e.source[s.model])
          /\ \A m \in Models \ {s.model} : e.source[m] = d.source[m]
       \/ /\ s.op = "rename_model" /\ e.renamed = d.renamed \cup {s.model, s.to}
          /\ d.source[s.to] = NoModel
          /\ e.source = [d.source EXCEPT ![s.to] = d.source[s.model], ![s.model] = NoModel]

LEMMA FieldType ==
    ASSUME NEW f \in Fields
    PROVE  /\ \A n \in Names : [f EXCEPT !.name = n] \in Fields
           /\ \A t \in Types : [f EXCEPT !.ty = t] \in Fields
           /\ \A b \in BOOLEAN : [f EXCEPT !.null = b] \in Fields
BY DEF Fields

LEMMA AddedType ==
    ASSUME NEW s \in Steps, s.op \in {"add_field", "add_relation"}
    PROVE  Added(s) \in Fields
BY Kinds, TypesAssumption, Zenon DEF Added, ForeignKey, Fields

LEMMA RenamingType ==
    ASSUME NEW F \in SUBSET Fields, NEW n \in Names, NEW to \in Names
    PROVE  Renaming(F, n, to) \in SUBSET Fields
BY FieldType DEF Renaming, Edit

\* A model whose fields change.
LEMMA SourceType ==
    ASSUME NEW d \in Dry, NEW m \in Models, NEW F \in SUBSET Fields, NEW G \in SUBSET Fields,
           NEW T \in SUBSET Tables
    PROVE  /\ [d EXCEPT !.source[m] = F, !.shadow[m] = G, !.referenced = T] \in Dry
           /\ [d EXCEPT !.source[m] = F, !.shadow[m] = G] \in Dry
BY DEF Dry, Shapes

LEMMA InsertMoves ==
    ASSUME NEW s \in Steps, s.op \in {"add_field", "add_relation"}, NEW d \in Dry,
           NEW e \in Insert(s.model, Added(s), Added(s), d)
    PROVE  e \in Dry /\ Moves(s, d, e)
<1>1. s.model \in Models /\ Added(s) \in Fields
  BY Kinds, AddedType
<1>2. /\ Located(s.model, d) /\ Added(s).name \notin NamesOf(d.source[s.model])
      /\ e = [d EXCEPT !.source[s.model] = @ \cup {Added(s)}, !.shadow[s.model] = @ \cup {Added(s)}]
  BY DEF Insert
<1>3. d.source \in Shapes /\ d.shadow \in Shapes
  BY DEF Dry
<1>4. e \in Dry
  <2>1. /\ d.source[s.model] \cup {Added(s)} \in SUBSET Fields
        /\ d.shadow[s.model] \cup {Added(s)} \in SUBSET Fields
    BY <1>1, <1>3 DEF Shapes
  <2>2. QED
    BY <1>1, <1>2, <2>1, SourceType
<1>5. /\ e.renamed = d.renamed /\ e.source[s.model] = d.source[s.model] \cup {Added(s)}
      /\ \A m \in Models \ {s.model} : e.source[m] = d.source[m]
  BY <1>1, <1>2, <1>3 DEF Dry, Shapes
<1>6. QED
  BY <1>2, <1>4, <1>5 DEF Moves, Edits

LEMMA ReplaceMoves ==
    ASSUME NEW m \in Models, NEW d \in Dry, NEW f \in d.source[m], NEW g \in Fields,
           NEW e \in Replace(m, f, g, d)
    PROVE  /\ e \in Dry /\ Located(m, d) /\ e.renamed = d.renamed
           /\ e.source[m] = (d.source[m] \ {f}) \cup {g}
           /\ \A n \in Models \ {m} : e.source[n] = d.source[n]
<1>2. /\ Located(m, d)
      /\ e = [d EXCEPT !.source[m] = (@ \ {f}) \cup {g}, !.shadow[m] = (@ \ {f}) \cup {g}]
  BY DEF Replace
<1>3. d.source \in Shapes /\ d.shadow \in Shapes
  BY DEF Dry
<1>4. e \in Dry
  <2>1. /\ (d.source[m] \ {f}) \cup {g} \in SUBSET Fields
        /\ (d.shadow[m] \ {f}) \cup {g} \in SUBSET Fields
    BY <1>3 DEF Shapes
  <2>2. QED
    BY <1>2, <2>1, SourceType
<1>5. QED
  BY <1>2, <1>3, <1>4 DEF Dry, Shapes

LEMMA DropMoves ==
    ASSUME NEW s \in Steps, s.op \in {"remove_field", "remove_relation"}, NEW d \in Dry,
           NEW e \in Drop(s.model, s.name, d)
    PROVE  e \in Dry /\ Moves(s, d, e)
<1>1. s.model \in Models /\ d.source \in Shapes /\ d.shadow \in Shapes
  BY Kinds DEF Dry
<1>2. PICK f \in Matching(s.model, s.name, d) :
          Located(s.model, d) /\ e = [d EXCEPT !.source[s.model] = @ \ {f}]
  BY DEF Drop
<1>3. f \in d.source[s.model] /\ f.name = s.name
  BY <1>2 DEF Matching
<1>4. e \in Dry
  BY <1>1, <1>2 DEF Dry, Shapes
<1>5. /\ e.renamed = d.renamed /\ e.source[s.model] = d.source[s.model] \ {f}
      /\ \A m \in Models \ {s.model} : e.source[m] = d.source[m]
  BY <1>1, <1>2 DEF Dry, Shapes
<1>6. QED
  BY <1>2, <1>3, <1>4, <1>5 DEF Moves, Edits

LEMMA RenameFieldMoves ==
    ASSUME NEW s \in Steps, s.op = "rename_field", NEW d \in Dry, NEW force \in BOOLEAN,
           NEW e \in SimulateStep(s, d, force)
    PROVE  e \in Dry /\ Moves(s, d, e)
<1>1. s.model \in Models /\ s.name \in Names /\ s.to \in Names
  BY Kinds
<1>2. d.source \in Shapes /\ d.shadow \in Shapes
  BY DEF Dry
<1>3. /\ Located(s.model, d)
      /\ s.name \in NamesOf(d.source[s.model]) /\ s.to \notin NamesOf(d.source[s.model])
      /\ e = [d EXCEPT !.source[s.model] = Renaming(@, s.name, s.to),
                       !.shadow[s.model] = Renaming(@, s.name, s.to)]
  BY DEF SimulateStep
<1>4. e \in Dry
  <2>1. /\ Renaming(d.source[s.model], s.name, s.to) \in SUBSET Fields
        /\ Renaming(d.shadow[s.model], s.name, s.to) \in SUBSET Fields
    BY <1>1, <1>2, RenamingType DEF Shapes
  <2>2. QED
    BY <1>1, <1>3, <2>1, SourceType
<1>5. /\ e.renamed = d.renamed
      /\ e.source[s.model] = Renaming(d.source[s.model], s.name, s.to)
      /\ \A m \in Models \ {s.model} : e.source[m] = d.source[m]
  BY <1>1, <1>2, <1>3 DEF Dry, Shapes
<1>6. QED
  BY <1>3, <1>4, <1>5 DEF Moves, Edits

LEMMA ChangeTypeMoves ==
    ASSUME NEW s \in Steps, s.op = "change_type", NEW d \in Dry, NEW force \in BOOLEAN,
           NEW e \in SimulateStep(s, d, force)
    PROVE  e \in Dry /\ Moves(s, d, e)
<1>1. s.model \in Models /\ s.ty \in Types
  BY Kinds
<1>2. PICK f \in Matching(s.model, s.name, d) :
          SafeCast(f.ty, s.ty) /\ e \in Replace(s.model, f, [f EXCEPT !.ty = s.ty], d)
  BY DEF SimulateStep
<1>3. f \in d.source[s.model] /\ f.name = s.name /\ f.ty # s.ty
  BY <1>2 DEF Matching, SafeCast
<1>4. [f EXCEPT !.ty = s.ty] \in Fields
  BY <1>1, <1>3, FieldType DEF Dry, Shapes
<1>5. QED
  BY <1>1, <1>2, <1>3, <1>4, ReplaceMoves DEF Moves, Edits

LEMMA ChangeNullMoves ==
    ASSUME NEW s \in Steps, s.op = "change_null", NEW d \in Dry, NEW force \in BOOLEAN,
           NEW e \in SimulateStep(s, d, force)
    PROVE  e \in Dry /\ Moves(s, d, e)
<1>1. s.model \in Models /\ s.null \in BOOLEAN
  BY Kinds
<1>2. PICK f \in Matching(s.model, s.name, d) :
          f.null # s.null /\ e \in Replace(s.model, f, [f EXCEPT !.null = s.null], d)
  BY DEF SimulateStep
<1>3. f \in d.source[s.model] /\ f.name = s.name
  BY <1>2 DEF Matching
<1>4. [f EXCEPT !.null = s.null] \in Fields
  BY <1>1, <1>3, FieldType DEF Dry, Shapes
<1>5. QED
  BY <1>1, <1>2, <1>3, <1>4, ReplaceMoves DEF Moves, Edits

LEMMA RenameModelMoves ==
    ASSUME NEW s \in Steps, s.op = "rename_model", NEW d \in Dry, NEW force \in BOOLEAN,
           NEW e \in SimulateStep(s, d, force)
    PROVE  e \in Dry /\ Moves(s, d, e)
<1>1. s.model \in Models /\ s.to \in Models
  BY Kinds
<1>2. /\ Located(s.model, d) /\ d.source[s.to] = NoModel
      /\ e = [d EXCEPT !.source[s.to] = d.source[s.model], !.source[s.model] = NoModel,
                       !.shadow[s.to] = d.shadow[s.model], !.shadow[s.model] = NoModel,
                       !.renamed = @ \cup {s.model, s.to}]
  BY DEF SimulateStep
<1>3. /\ e.source = [d.source EXCEPT ![s.to] = d.source[s.model], ![s.model] = NoModel]
      /\ e.shadow = [d.shadow EXCEPT ![s.to] = d.shadow[s.model], ![s.model] = NoModel]
      /\ e.renamed = d.renamed \cup {s.model, s.to}
      /\ e = [source |-> e.source, shadow |-> e.shadow, renamed |-> e.renamed,
              referenced |-> d.referenced]
  BY <1>2 DEF Dry
<1>4. \A shape \in Shapes : [shape EXCEPT ![s.to] = shape[s.model], ![s.model] = NoModel] \in Shapes
  BY <1>1 DEF Shapes, NoModel
<1>5. e \in Dry
  BY <1>1, <1>3, <1>4 DEF Dry
<1>6. QED
  BY <1>2, <1>3, <1>5 DEF Moves

LEMMA RelationMoves ==
    ASSUME NEW s \in Steps, s.op = "add_relation", NEW d \in Dry, NEW force \in BOOLEAN,
           NEW e \in SimulateStep(s, d, force)
    PROVE  e \in Dry /\ Moves(s, d, e)
<1> DEFINE c == [d EXCEPT !.referenced = @ \cup {Slug[s.to]}]
<1>1. e \in Insert(s.model, Added(s), Added(s), c)
  BY DEF SimulateStep, Added
<1>2. Slug[s.to] \in Tables
  BY Kinds DEF Tables
<1>3. c \in Dry /\ c.source = d.source /\ c.renamed = d.renamed
  BY <1>2 DEF Dry
<1> HIDE DEF c
<1>4. e \in Dry /\ Moves(s, c, e)
  BY <1>1, <1>3, InsertMoves
<1>5. QED
  BY <1>3, <1>4 DEF Moves, Located

\* What simulate_step does, in one place: nothing that is not located moves.
LEMMA StepMoves ==
    ASSUME NEW s \in Steps, NEW d \in Dry, NEW force \in BOOLEAN,
           NEW e \in SimulateStep(s, d, force)
    PROVE  /\ e \in Dry /\ Moves(s, d, e)
           /\ s.op \notin {"add_model", "remove_model", "update_admin", "create_migration"}
           /\ Destructive(s) => force
           /\ s.op = "add_relation" => s.kind = "belongs_to"
<1>1. CASE s.op = "add_field"
  <2>1. e \in Insert(s.model, Added(s), Added(s), d)
    BY <1>1 DEF SimulateStep, Added
  <2>2. QED
    BY <1>1, <2>1, InsertMoves DEF Destructive
<1>2. CASE s.op = "add_relation"
  BY <1>2, RelationMoves DEF SimulateStep, Destructive
<1>3. CASE s.op = "rename_field"
  BY <1>3, RenameFieldMoves DEF Destructive
<1>4. CASE s.op = "change_type"
  BY <1>4, ChangeTypeMoves DEF Destructive
<1>5. CASE s.op = "change_null"
  BY <1>5, ChangeNullMoves DEF Destructive
<1>6. CASE s.op = "rename_model"
  BY <1>6, RenameModelMoves DEF Destructive
<1>7. CASE s.op \in {"remove_field", "remove_relation"}
  <2>1. force /\ e \in Drop(s.model, s.name, d)
    BY <1>7 DEF SimulateStep
  <2>2. QED
    BY <1>7, <2>1, DropMoves
<1>8. CASE s.op \in {"add_model", "remove_model", "update_admin", "create_migration"}
  <2>1. SimulateStep(s, d, force) = {}
    BY <1>8 DEF SimulateStep
  <2>2. QED
    BY <2>1
<1>9. QED
  BY Kinds, <1>1, <1>2, <1>3, <1>4, <1>5, <1>6, <1>7, <1>8 DEF Ops

-----------------------------------------------------------------------------
(* One step of the review's simulation. *)

Reviewed == [fields : Shapes, via : SUBSET (Models \X Names)]

LEMMA EditType ==
    ASSUME NEW F \in SUBSET Fields, NEW n \in Names
    PROVE  /\ \A to \in Names : Edit(F, n, LAMBDA f : [f EXCEPT !.name = to]) \in SUBSET Fields
           /\ \A t \in Types : Edit(F, n, LAMBDA f : [f EXCEPT !.ty = t]) \in SUBSET Fields
           /\ \A b \in BOOLEAN : Edit(F, n, LAMBDA f : [f EXCEPT !.null = b]) \in SUBSET Fields
BY FieldType DEF Edit

LEMMA EditedType ==
    ASSUME NEW s \in Steps, s.op # "create_migration", NEW F \in SUBSET Fields,
           NEW withColumn \in BOOLEAN
    PROVE  Edited(s, F, withColumn) \in SUBSET Fields
<1>1. CASE s.op = "add_relation"
  <2>1. ForeignKey(s) \in Fields
    BY <1>1, AddedType DEF Added
  <2>2. QED
    BY <1>1, <2>1 DEF Edited
<1>2. CASE s.op = "rename_field"
  BY <1>2, Kinds, EditType DEF Edited
<1>3. CASE s.op = "change_type"
  BY <1>3, Kinds, EditType DEF Edited
<1>4. CASE s.op = "change_null"
  BY <1>4, Kinds, EditType DEF Edited
<1>5. CASE s.op \in {"add_field", "add_model", "remove_model", "rename_model", "remove_field",
                     "remove_relation", "update_admin"}
  BY <1>5, Kinds DEF Edited, NoModel
<1>6. QED
  BY Kinds, <1>1, <1>2, <1>3, <1>4, <1>5 DEF Ops

\* The relations of the plan after the step.
LEMMA AdvanceVia ==
    ASSUME NEW s \in Steps, NEW S \in Reviewed, NEW withColumn \in BOOLEAN,
           NEW T \in Advance(s, S, withColumn)
    PROVE  /\ T \in Reviewed
           /\ s.op = "remove_relation" => <<s.model, s.name>> \in S.via
           /\ s.op = "rename_model" => s.model # s.to
           /\ \A r \in T.via : \/ r \in S.via
                               \/ s.op = "add_relation" /\ r = <<s.model, s.name>>
                               \/ s.op = "rename_model" /\ r[1] = s.to
<1>0. /\ s.op # "create_migration" /\ WellFormed(s) /\ Applies(s, S)
      /\ T = Shadow(s, S, withColumn)
  BY DEF Advance, DeveloperOnly
<1>1. s.model \in Models /\ S.fields \in Shapes /\ S.via \in SUBSET (Models \X Names)
  BY <1>0, Kinds DEF Reviewed
<1>2. T.fields \in Shapes
  <2>1. Edited(s, S.fields[s.model], withColumn) \in SUBSET Fields
    BY <1>0, <1>1, EditedType DEF Shapes
  <2>2. [S.fields EXCEPT ![s.model] = Edited(s, @, withColumn)] \in Shapes
    BY <1>1, <2>1 DEF Shapes
  <2>3. QED
    BY <1>0, <1>1, <2>2, Kinds DEF Shadow, Shapes
<1>3. CASE s.op = "add_relation"
  <2>1. T.via = S.via \cup {<<s.model, s.name>>}
    BY <1>0, <1>3 DEF Shadow
  <2>2. <<s.model, s.name>> \in Models \X Names
    BY <1>1, <1>3, Kinds
  <2>3. T \in Reviewed
    BY <1>0, <1>1, <1>2, <2>1, <2>2 DEF Reviewed, Shadow
  <2>4. QED
    BY <1>3, <2>1, <2>3
<1>4. CASE s.op = "remove_relation"
  <2>1. T.via = S.via \ {<<s.model, s.name>>}
    BY <1>0, <1>4 DEF Shadow
  <2>2. <<s.model, s.name>> \in S.via
    BY <1>0, <1>4 DEF Applies
  <2>3. T \in Reviewed
    BY <1>0, <1>1, <1>2, <2>1 DEF Reviewed, Shadow
  <2>4. QED
    BY <1>4, <2>1, <2>2, <2>3
<1>5. CASE s.op = "rename_model"
  <2>1. T.via = {<<IF r[1] = s.model THEN s.to ELSE r[1], r[2]>> : r \in S.via}
    BY <1>0, <1>5 DEF Shadow
  <2>2. \A r \in T.via : r \in S.via \/ r[1] = s.to
    <3>1. SUFFICES ASSUME NEW r \in S.via
                   PROVE  LET q == <<IF r[1] = s.model THEN s.to ELSE r[1], r[2]>>
                          IN q \in S.via \/ q[1] = s.to
      BY <2>1
    <3>2. r = <<r[1], r[2]>>
      BY <1>1
    <3>3. QED
      BY <3>2
  <2>3. T.via \in SUBSET (Models \X Names)
    BY <1>1, <1>5, <2>1, Kinds
  <2>4. T \in Reviewed
    BY <1>0, <1>2, <2>3 DEF Reviewed, Shadow
  <2>5. s.model # s.to
    BY <1>0, <1>5 DEF WellFormed
  <2>6. QED
    BY <1>5, <2>2, <2>4, <2>5
<1>6. CASE s.op \notin {"add_relation", "remove_relation", "rename_model"}
  <2>1. T.via \subseteq S.via
    BY <1>0, <1>6 DEF Shadow
  <2>2. T \in Reviewed
    BY <1>0, <1>1, <1>2, <2>1 DEF Reviewed, Shadow
  <2>3. QED
    BY <1>6, <2>1, <2>2
<1>7. QED
  BY <1>3, <1>4, <1>5, <1>6

-----------------------------------------------------------------------------
(* A plan step by step: the folds of the dry run and of the review go from  *)
(* the first step to the last.                                              *)

\* simulate_plan and Plan::validate.
AdvanceAll(D, s, withColumn) == UNION {Advance(s, d, withColumn) : d \in D}

Advancing(withColumn) == [x \in (SUBSET Reviewed) \X Steps |-> AdvanceAll(x[1], x[2], withColumn)]

LEMMA AdvancingType ==
    ASSUME NEW withColumn \in BOOLEAN
    PROVE  Advancing(withColumn) \in [(SUBSET Reviewed) \X Steps -> SUBSET Reviewed]
<1>1. ASSUME NEW D \in SUBSET Reviewed, NEW s \in Steps
      PROVE  AdvanceAll(D, s, withColumn) \in SUBSET Reviewed
  <2>1. ASSUME NEW d \in D, NEW e \in Advance(s, d, withColumn) PROVE e \in Reviewed
    BY AdvanceVia
  <2>2. QED
    BY <2>1 DEF AdvanceAll
<1>2. QED
  BY <1>1 DEF Advancing

LEMMA ReviewUnfolds ==
    ASSUME NEW plan \in Seq(Steps), NEW withColumn \in BOOLEAN, NEW shape \in Shapes
    PROVE  \E g : /\ GoesOn(g, SUBSET Reviewed, Len(plan), {AsSchema(shape)}, Advancing(withColumn), plan)
                  /\ Simulated(plan, shape, withColumn) = g[1..Len(plan)]
<1> DEFINE N == Len(plan)
           Body(h) == [s \in SUBSET DOMAIN plan |->
                         IF s = {} THEN {AsSchema(shape)}
                         ELSE AdvanceAll(h[s \ {Largest(s)}], plan[Largest(s)], withColumn)]
           all == CHOOSE h : h = Body(h)
<1>1. N \in Nat /\ DOMAIN plan = 1..N /\ plan \in [1..N -> Steps]
  OBVIOUS
<1>2. {AsSchema(shape)} \in SUBSET Reviewed
  BY DEF AsSchema, Reviewed
<1>3. PICK g \in [SUBSET (1..N) -> SUBSET Reviewed] :
          Folds(g, N, {AsSchema(shape)}, Advancing(withColumn), plan)
  <2> HIDE DEF N
  <2>1. QED
    BY <1>1, <1>2, AdvancingType, FoldRecursion
<1>4. g = Body(g)
  <2>1. ASSUME NEW s \in SUBSET (1..N)
        PROVE  g[s] = IF s = {} THEN {AsSchema(shape)}
                      ELSE AdvanceAll(g[s \ {Largest(s)}], plan[Largest(s)], withColumn)
    <3>1. CASE s = {}
      BY <1>3, <3>1 DEF Folds
    <3>2. CASE s # {}
      <4>1. g[s] = Advancing(withColumn)[<<g[s \ {Largest(s)}], plan[Largest(s)]>>]
        BY <1>3, <3>2 DEF Folds
      <4>2. g[s \ {Largest(s)}] \in SUBSET Reviewed
        BY <1>3
      <4>3. plan[Largest(s)] \in Steps
        BY <1>1, <3>2, LargestIsMember
      <4>4. QED
        BY <3>2, <4>1, <4>2, <4>3 DEF Advancing
    <3>3. QED
      BY <3>1, <3>2
  <2>2. QED
    BY <1>1, <1>3, <2>1
<1>5. all = Body(all)
  BY <1>4
<1>6. GoesOn(all, SUBSET Reviewed, N, {AsSchema(shape)}, Advancing(withColumn), plan)
  <2> HIDE DEF all
  <2>1. all[{}] = {AsSchema(shape)}
    BY <1>1, <1>5
  <2>2. ASSUME NEW s \in SUBSET (1..N), s # {},
               all[s \ {Largest(s)}] \in SUBSET Reviewed
        PROVE  all[s] = Advancing(withColumn)[<<all[s \ {Largest(s)}], plan[Largest(s)]>>]
    <3>1. all[s] = AdvanceAll(all[s \ {Largest(s)}], plan[Largest(s)], withColumn)
      BY <1>1, <1>5, <2>2
    <3>2. plan[Largest(s)] \in Steps
      BY <1>1, <2>2, LargestIsMember
    <3>3. QED
      BY <2>2, <3>1, <3>2 DEF Advancing
  <2>3. GoesBack(all, SUBSET Reviewed, N, {AsSchema(shape)}, Advancing(withColumn), plan)
    BY <2>1, <2>2 DEF GoesBack
  <2> HIDE DEF N
  <2>4. QED
    BY <1>1, <1>2, <2>3, AdvancingType, FoldUnfolding
<1>7. Simulated(plan, shape, withColumn) = all[DOMAIN plan]
  BY Zenon DEF Simulated, FoldLeft, MapThenFoldSet, Max, Largest, AdvanceAll
<1>8. QED
  BY <1>1, <1>6, <1>7

\* plan_execution, once the gates are passed.
Begin == [source |-> code, shadow |-> schema, renamed |-> {}, referenced |-> referenced]

DryRuns(plan, force) ==
    FoldLeft(LAMBDA D, s : UNION {SimulateStep(s, d, force) : d \in D}, {Begin}, plan)

SimulateAll(D, s, force) == UNION {SimulateStep(s, d, force) : d \in D}

Simulating(force) == [x \in (SUBSET Dry) \X Steps |-> SimulateAll(x[1], x[2], force)]

LEMMA SimulatingType ==
    ASSUME NEW force \in BOOLEAN
    PROVE  Simulating(force) \in [(SUBSET Dry) \X Steps -> SUBSET Dry]
<1>1. ASSUME NEW D \in SUBSET Dry, NEW s \in Steps
      PROVE  SimulateAll(D, s, force) \in SUBSET Dry
  <2>1. ASSUME NEW d \in D, NEW e \in SimulateStep(s, d, force) PROVE e \in Dry
    BY StepMoves
  <2>2. QED
    BY <2>1 DEF SimulateAll
<1>2. QED
  BY <1>1 DEF Simulating

LEMMA DryRunUnfolds ==
    ASSUME NEW plan \in Seq(Steps), NEW force \in BOOLEAN, Begin \in Dry
    PROVE  \E g : /\ GoesOn(g, SUBSET Dry, Len(plan), {Begin}, Simulating(force), plan)
                  /\ DryRuns(plan, force) = g[1..Len(plan)]
<1> DEFINE N == Len(plan)
           Body(h) == [s \in SUBSET DOMAIN plan |->
                         IF s = {} THEN {Begin}
                         ELSE SimulateAll(h[s \ {Largest(s)}], plan[Largest(s)], force)]
           all == CHOOSE h : h = Body(h)
<1>1. N \in Nat /\ DOMAIN plan = 1..N /\ plan \in [1..N -> Steps]
  OBVIOUS
<1>2. {Begin} \in SUBSET Dry
  OBVIOUS
<1>3. PICK g \in [SUBSET (1..N) -> SUBSET Dry] :
          Folds(g, N, {Begin}, Simulating(force), plan)
  <2> HIDE DEF N
  <2>1. QED
    BY <1>1, <1>2, SimulatingType, FoldRecursion
<1>4. g = Body(g)
  <2>1. ASSUME NEW s \in SUBSET (1..N)
        PROVE  g[s] = IF s = {} THEN {Begin}
                      ELSE SimulateAll(g[s \ {Largest(s)}], plan[Largest(s)], force)
    <3>1. CASE s = {}
      BY <1>3, <3>1 DEF Folds
    <3>2. CASE s # {}
      <4>1. g[s] = Simulating(force)[<<g[s \ {Largest(s)}], plan[Largest(s)]>>]
        BY <1>3, <3>2 DEF Folds
      <4>2. g[s \ {Largest(s)}] \in SUBSET Dry
        BY <1>3
      <4>3. plan[Largest(s)] \in Steps
        BY <1>1, <3>2, LargestIsMember
      <4>4. QED
        BY <3>2, <4>1, <4>2, <4>3 DEF Simulating
    <3>3. QED
      BY <3>1, <3>2
  <2>2. QED
    BY <1>1, <1>3, <2>1
<1>5. all = Body(all)
  BY <1>4
<1>6. GoesOn(all, SUBSET Dry, N, {Begin}, Simulating(force), plan)
  <2> HIDE DEF all
  <2>1. all[{}] = {Begin}
    BY <1>1, <1>5
  <2>2. ASSUME NEW s \in SUBSET (1..N), s # {},
               all[s \ {Largest(s)}] \in SUBSET Dry
        PROVE  all[s] = Simulating(force)[<<all[s \ {Largest(s)}], plan[Largest(s)]>>]
    <3>1. all[s] = SimulateAll(all[s \ {Largest(s)}], plan[Largest(s)], force)
      BY <1>1, <1>5, <2>2
    <3>2. plan[Largest(s)] \in Steps
      BY <1>1, <2>2, LargestIsMember
    <3>3. QED
      BY <2>2, <3>1, <3>2 DEF Simulating
  <2>3. GoesBack(all, SUBSET Dry, N, {Begin}, Simulating(force), plan)
    BY <2>1, <2>2 DEF GoesBack
  <2> HIDE DEF N
  <2>4. QED
    BY <1>1, <1>2, <2>3, SimulatingType, FoldUnfolding
<1>7. DryRuns(plan, force) = all[DOMAIN plan]
  BY Zenon DEF DryRuns, FoldLeft, MapThenFoldSet, Max, Largest, SimulateAll
<1>8. QED
  BY <1>1, <1>6, <1>7

\* What holds before a plan's first step, and after each step that both the
\* review and the dry run let pass, holds at its end.
LEMMA PlanInduction ==
    ASSUME NEW plan \in Seq(Steps), NEW force \in BOOLEAN, NEW shape \in Shapes, Begin \in Dry,
           NEW I, <<0, Begin, AsSchema(shape)>> \in I,
           \A n \in 0..Len(plan), d \in Dry, S \in Reviewed :
               n < Len(plan) /\ <<n, d, S>> \in I =>
                   \A e \in SimulateStep(plan[n + 1], d, force),
                      T \in Advance(plan[n + 1], S, TRUE) : <<n + 1, e, T>> \in I
    PROVE  \A d \in DryRuns(plan, force), S \in Simulated(plan, shape, TRUE) :
               d \in Dry /\ <<Len(plan), d, S>> \in I
<1> DEFINE N == Len(plan)
<1>1. PICK g : /\ GoesOn(g, SUBSET Dry, N, {Begin}, Simulating(force), plan)
               /\ DryRuns(plan, force) = g[1..N]
  BY DryRunUnfolds
<1>2. PICK h : /\ GoesOn(h, SUBSET Reviewed, N, {AsSchema(shape)}, Advancing(TRUE), plan)
               /\ Simulated(plan, shape, TRUE) = h[1..N]
  BY ReviewUnfolds
<1> DEFINE K == {n \in 0..N : \A d \in g[1..n], S \in h[1..n] : <<n, d, S>> \in I}
<1>3. N \in Nat /\ \A n \in 0..N : n < N => plan[n + 1] \in Steps
  OBVIOUS
<1>4. 0 \in K
  BY <1>1, <1>2, <1>3 DEF GoesOn
<1>5. ASSUME NEW n \in 0..N, n < N, n \in K PROVE n + 1 \in K
  <2>1. /\ g[1..n] \in SUBSET Dry /\ g[1..(n + 1)] = Simulating(force)[<<g[1..n], plan[n + 1]>>]
        /\ h[1..n] \in SUBSET Reviewed /\ h[1..(n + 1)] = Advancing(TRUE)[<<h[1..n], plan[n + 1]>>]
    BY <1>1, <1>2, <1>5 DEF GoesOn
  <2>2. plan[n + 1] \in Steps /\ n + 1 \in 0..N
    BY <1>3, <1>5
  <2>3. g[1..(n + 1)] = UNION {SimulateStep(plan[n + 1], d, force) : d \in g[1..n]}
    BY <2>1, <2>2 DEF Simulating, SimulateAll
  <2>4. h[1..(n + 1)] = UNION {Advance(plan[n + 1], S, TRUE) : S \in h[1..n]}
    BY <2>1, <2>2 DEF Advancing, AdvanceAll
  <2>5. ASSUME NEW e \in g[1..(n + 1)], NEW T \in h[1..(n + 1)] PROVE <<n + 1, e, T>> \in I
    <3>1. PICK d \in g[1..n] : e \in SimulateStep(plan[n + 1], d, force)
      BY <2>3
    <3>2. PICK S \in h[1..n] : T \in Advance(plan[n + 1], S, TRUE)
      BY <2>4
    <3>3. <<n, d, S>> \in I
      BY <1>5, <3>1, <3>2
    <3>4. d \in Dry /\ S \in Reviewed
      BY <2>1, <3>1, <3>2
    <3>5. QED
      BY <1>5, <3>1, <3>2, <3>3, <3>4
  <2>6. QED
    BY <2>2, <2>5
<1> HIDE DEF K
<1>6. 0..N \subseteq K
  <2> HIDE DEF N
  <2>1. QED
    BY <1>3, <1>4, <1>5, IntervalInduction
<1>7. N \in K
  BY <1>3, <1>6
<1>8. g[1..N] \in SUBSET Dry
  BY <1>1, <1>3 DEF GoesOn
<1>9. QED
  BY <1>1, <1>2, <1>7, <1>8 DEF K

\* A plan that is executed has passed the gates, and its structs are those of
\* a dry run.
LEMMA Executed ==
    ASSUME NEW plan, NEW c, NEW force, NEW d \in PlanExecution(plan, c, force)
    PROVE  /\ d \in DryRuns(plan, force)
           /\ schema # Missing
           /\ Simulated(plan, schema, TRUE) # {}
           /\ Review(plan, schema, PiiFields(c)).risk < Critical
           /\ \A s \in Range(plan) : ~TouchesPii(s, PiiFields(c))
<1>1. /\ schema # Missing
      /\ Review(plan, schema, PiiFields(c)).valid
      /\ Review(plan, schema, PiiFields(c)).risk < Critical
      /\ \A s \in Range(plan) : ~DeveloperOnly(s) /\ ~TouchesPii(s, PiiFields(c))
  BY DEF PlanExecution
<1>2. d \in DryRuns(plan, force)
  BY <1>1 DEF PlanExecution, DryRuns, Begin
<1>3. QED
  BY <1>1, <1>2 DEF Review, ReviewedValid

\* A plan of one step.
LEMMA OneReviewed ==
    ASSUME NEW s \in Steps, NEW shape \in Shapes, NEW withColumn \in BOOLEAN
    PROVE  Simulated(<<s>>, shape, withColumn) = Advance(s, AsSchema(shape), withColumn)
<1>0. <<s>> \in Seq(Steps) /\ Len(<<s>>) = 1
  OBVIOUS
<1>1. PICK g : /\ GoesOn(g, SUBSET Reviewed, 1, {AsSchema(shape)}, Advancing(withColumn), <<s>>)
               /\ Simulated(<<s>>, shape, withColumn) = g[1..1]
  BY <1>0, ReviewUnfolds
<1>2. /\ g[1..0] = {AsSchema(shape)} /\ g[1..0] \in SUBSET Reviewed
      /\ g[1..1] = Advancing(withColumn)[<<g[1..0], s>>]
  BY <1>1 DEF GoesOn
<1>3. g[1..1] = UNION {Advance(s, S, withColumn) : S \in {AsSchema(shape)}}
  BY <1>2 DEF Advancing, AdvanceAll
<1>4. QED
  BY <1>1, <1>3

LEMMA OneSimulated ==
    ASSUME NEW s \in Steps, NEW force \in BOOLEAN, Begin \in Dry
    PROVE  DryRuns(<<s>>, force) = SimulateStep(s, Begin, force)
<1>0. <<s>> \in Seq(Steps) /\ Len(<<s>>) = 1
  OBVIOUS
<1>1. PICK g : /\ GoesOn(g, SUBSET Dry, 1, {Begin}, Simulating(force), <<s>>)
               /\ DryRuns(<<s>>, force) = g[1..1]
  BY <1>0, DryRunUnfolds
<1>2. /\ g[1..0] = {Begin} /\ g[1..0] \in SUBSET Dry
      /\ g[1..1] = Simulating(force)[<<g[1..0], s>>]
  BY <1>1 DEF GoesOn
<1>3. g[1..1] = UNION {SimulateStep(s, d, force) : d \in {Begin}}
  BY <1>2 DEF Simulating, SimulateAll
<1>4. QED
  BY <1>1, <1>3

-----------------------------------------------------------------------------
(* What the planner makes of a sentence. *)

LEMMA SentenceKinds ==
    ASSUME NEW w \in Sentences
    PROVE  /\ w.form \in {"add", "rename", "remove", "change", "make"} => w.field \in Names
           /\ w.form \in {"add", "make"} => w.optional \in BOOLEAN
           /\ w.form = "rename" => w.to \in Names
           /\ w.form = "rename model" => w.to \in Models
           /\ w.form = "link" => w.required \in BOOLEAN /\ w.on_delete \in Policies
BY DEF Sentences

LEMMA TypesInferred ==
    ASSUME NEW n \in Names, NEW as, NEW c
    PROVE  InferFieldType(n, as, c) \subseteq Types
<1>1. GuessedType(n, c) \in Types
  BY NamingAssumption, TypesAssumption DEF GuessedType
<1>2. ASSUME as \in DOMAIN TypeWord PROVE TypeWord[as] \in Types
  <2>1. DOMAIN TypeWord = {"integer", "bigint", "text", "boolean", "timestamp"}
    BY DEF TypeWord
  <2>2. /\ TypeWord["integer"] = "i32" /\ TypeWord["bigint"] = "i64"
        /\ TypeWord["text"] = "String" /\ TypeWord["boolean"] = "bool"
        /\ TypeWord["timestamp"] = "DateTime"
    BY DEF TypeWord
  <2>3. QED
    BY <1>2, <2>1, <2>2, TypesAssumption
<1>3. QED
  BY <1>1, <1>2 DEF InferFieldType

LEMMA Targets ==
    ASSUME NEW hint_, NEW shape
    PROVE  /\ Target(hint_, shape) \subseteq {m \in Models \ Core : hint_ = Slug[m]}
           /\ \A n : With(hint_, n, shape) \subseteq Models \ Core
BY DEF With, Target, ResolveModel

LEMMA StepsPlanned ==
    ASSUME NEW w \in Sentences, NEW shape, NEW c, NEW s \in StepsOf(w, shape, c)
    PROVE  /\ s \in Steps /\ s.model \notin Core
           /\ s.op \in {"add_field", "rename_field", "rename_model", "remove_field",
                        "change_type", "change_null", "add_relation"}
<1>1. CASE w.form = "add"
  <2>1. PICK x \in Target(w.model, shape) \X InferFieldType(w.field, w.as, c) :
            s = [op |-> "add_field", model |-> x[1],
                 field |-> [name |-> w.field, ty |-> x[2], null |-> w.optional]]
    BY <1>1 DEF StepsOf, TryAddField
  <2>2. x[1] \in Models \ Core /\ x[2] \in Types
    BY <1>1, <2>1, Targets, TypesInferred, SentenceKinds
  <2>3. [name |-> w.field, ty |-> x[2], null |-> w.optional] \in Fields
    BY <1>1, <2>2, SentenceKinds DEF Fields
  <2>4. [op |-> "add_field", model |-> x[1],
         field |-> [name |-> w.field, ty |-> x[2], null |-> w.optional]] \in Steps
    BY <2>2, <2>3 DEF Steps
  <2>5. QED
    BY <2>1, <2>2, <2>4
<1>2. CASE w.form = "rename"
  <2>1. PICK m \in Models \ Core :
            s = [op |-> "rename_field", model |-> m, name |-> w.field, to |-> w.to]
    BY <1>2, Targets DEF StepsOf, TryRenameField
  <2>2. QED
    BY <1>2, <2>1, SentenceKinds DEF Steps
<1>3. CASE w.form = "rename model"
  <2>1. PICK m \in Models \ Core : s = [op |-> "rename_model", model |-> m, to |-> w.to]
    BY <1>3, Targets DEF StepsOf, TryRenameModel
  <2>2. QED
    BY <1>3, <2>1, SentenceKinds DEF Steps
<1>4. CASE w.form = "remove"
  <2>1. PICK m \in Models \ Core : s = [op |-> "remove_field", model |-> m, name |-> w.field]
    BY <1>4, Targets DEF StepsOf, TryRemoveField
  <2>2. QED
    BY <1>4, <2>1, SentenceKinds DEF Steps
<1>5. CASE w.form = "change"
  <2>1. PICK x \in With(w.model, w.field, shape) \X InferFieldType(w.field, w.as, c) :
            s = [op |-> "change_type", model |-> x[1], name |-> w.field, ty |-> x[2]]
    BY <1>5 DEF StepsOf, TryChangeType
  <2>2. x[1] \in Models \ Core /\ x[2] \in Types
    BY <1>5, <2>1, Targets, TypesInferred, SentenceKinds
  <2>3. QED
    BY <1>5, <2>1, <2>2, SentenceKinds DEF Steps
<1>6. CASE w.form = "make"
  <2>1. PICK m \in Models \ Core :
            s = [op |-> "change_null", model |-> m, name |-> w.field, null |-> w.optional]
    BY <1>6, Targets DEF StepsOf, TryChangeNullability
  <2>2. QED
    BY <1>6, <2>1, SentenceKinds DEF Steps
<1>7. CASE w.form = "link"
  <2>1. PICK x \in Target(w.model, shape) \X Target(w.to, shape) :
            s = [op |-> "add_relation", model |-> x[1], name |-> ViaOf[x[2]], to |-> x[2],
                 kind |-> "belongs_to", required |-> w.required, on_delete |-> w.on_delete]
    BY <1>7 DEF StepsOf, TryAddRelation
  <2>2. x[1] \in Models \ Core /\ x[2] \in Models
    BY <2>1, Targets
  <2>3. ViaOf[x[2]] \in Names
    BY <2>2, NamingAssumption
  <2>4. QED
    BY <1>7, <2>1, <2>2, <2>3, SentenceKinds DEF Steps
<1>8. QED
  BY <1>1, <1>2, <1>3, <1>4, <1>5, <1>6, <1>7 DEF StepsOf

\* generate_plan makes one step.
LEMMA PlanOfOne ==
    ASSUME NEW w \in Sentences, NEW shape, NEW c, NEW plan \in GeneratePlan(w, shape, c)
    PROVE  /\ plan \in Seq(Steps) /\ Len(plan) = 1 /\ plan = <<plan[1]>> /\ Range(plan) = {plan[1]}
           /\ plan[1] \in StepsOf(w, shape, c) /\ plan[1] \in Steps
           /\ Validates(plan, shape)
<1>1. PICK s \in StepsOf(w, shape, c) : plan = <<s>> /\ Validates(plan, shape)
  BY DEF GeneratePlan
<1>2. s \in Steps
  BY StepsPlanned
<1>3. Len(<<s>>) = 1 /\ <<s>>[1] = s /\ <<s>> \in Seq(Steps) /\ Range(<<s>>) = {s}
  BY <1>2 DEF Range
<1>4. QED
  BY <1>1, <1>2, <1>3

-----------------------------------------------------------------------------
(* Risk. *)

LEMMA MaxOfLevels ==
    ASSUME NEW S \in SUBSET Levels, S # {}
    PROVE  Max(S) \in S
<1>1. S \subseteq 0..3
  BY DEF Levels, Low, Critical
<1>2. \E x \in S : \A y \in S : x >= y
  <2>1. CASE 3 \in S
    BY <1>1, <2>1
  <2>2. CASE 3 \notin S /\ 2 \in S
    BY <1>1, <2>2
  <2>3. CASE 3 \notin S /\ 2 \notin S /\ 1 \in S
    BY <1>1, <2>3
  <2>4. CASE 3 \notin S /\ 2 \notin S /\ 1 \notin S
    <3>1. \A y \in S : y = 0
      BY <1>1, <2>4
    <3>2. QED
      BY <3>1
  <2>5. QED
    BY <2>1, <2>2, <2>3, <2>4
<1>3. QED
  BY <1>2 DEF Max

\* The risk of a plan that is not Critical: its steps decide it, whatever the
\* models and the context are.
PlanRisk(plan) ==
    LET steps == Range(plan)
        mixed == /\ \E s \in steps : s.op = "add_field"
                 /\ \E s \in steps : s.op = "remove_field"
    IN Max({PerStepRisk(s) : s \in steps} \cup {Low} \cup (IF mixed THEN {High} ELSE {}))

LEMMA StepRisk ==
    ASSUME NEW s \in Steps
    PROVE  /\ PerStepRisk(s) \in Levels
           /\ s.op # "create_migration" => PerStepRisk(s) # Critical
BY Kinds DEF PerStepRisk, Ops, Levels, Low, Medium, High, Critical

LEMMA PlanRiskLevel ==
    ASSUME NEW plan \in Seq(Steps)
    PROVE  /\ PlanRisk(plan) \in Levels
           /\ (\A s \in Range(plan) : s.op # "create_migration") => PlanRisk(plan) # Critical
<1> DEFINE mixed == /\ \E s \in Range(plan) : s.op = "add_field"
                    /\ \E s \in Range(plan) : s.op = "remove_field"
           S == {PerStepRisk(s) : s \in Range(plan)} \cup {Low}
                    \cup (IF mixed THEN {High} ELSE {})
<1>1. \A s \in Range(plan) : s \in Steps
  BY DEF Range
<1>2. Low \in Levels /\ High \in Levels /\ Low # Critical /\ High # Critical
  BY DEF Levels, Low, High, Critical
<1>3. S \in SUBSET Levels /\ S # {}
  BY <1>1, <1>2, StepRisk
<1>4. PlanRisk(plan) = Max(S)
  BY Zenon DEF PlanRisk
<1>5. Max(S) \in S
  BY <1>3, MaxOfLevels
<1>6. QED
  BY <1>1, <1>2, <1>3, <1>4, <1>5, StepRisk

LEMMA Classified ==
    ASSUME NEW plan, NEW shape, NEW valid, NEW pii
    PROVE  /\ ClassifyRisk(plan, shape, valid, pii) \in {Critical, PlanRisk(plan)}
           /\ valid /\ (\A s \in Range(plan) : ~TouchesCore(s, shape) /\ ~DeveloperOnly(s)
                                               /\ ~TouchesPii(s, pii))
              => ClassifyRisk(plan, shape, valid, pii) = PlanRisk(plan)
BY Zenon DEF ClassifyRisk, PlanRisk

\* What a planner makes of a sentence passes the review of the same schema.
LEMMA Allowed ==
    ASSUME NEW w \in Sentences, NEW shape \in Shapes, NEW c,
           NEW plan \in GeneratePlan(w, shape, c)
    PROVE  LET review == Review(plan, shape, PiiFields(c))
           IN /\ review.valid
              /\ review.risk = Critical => \E s \in Range(plan) : TouchesPii(s, PiiFields(c))
              /\ \A s \in Range(plan) : s.model \notin Core
<1>1. /\ plan \in Seq(Steps) /\ plan = <<plan[1]>> /\ Range(plan) = {plan[1]}
      /\ plan[1] \in StepsOf(w, shape, c) /\ plan[1] \in Steps /\ Validates(plan, shape)
  BY PlanOfOne
<1>2. plan[1].model \notin Core /\ plan[1].op # "create_migration"
  BY <1>1, StepsPlanned
<1>3. ReviewedValid(plan, shape)
  <2>1. /\ Simulated(plan, shape, FALSE) = Advance(plan[1], AsSchema(shape), FALSE)
        /\ Simulated(plan, shape, TRUE) = Advance(plan[1], AsSchema(shape), TRUE)
    BY <1>1, OneReviewed
  <2>2. Advance(plan[1], AsSchema(shape), FALSE) # {}
    BY <1>1, <2>1 DEF Validates
  <2>3. Advance(plan[1], AsSchema(shape), TRUE) # {}
    BY <2>2 DEF Advance
  <2>4. QED
    BY <2>1, <2>3 DEF ReviewedValid
<1>4. (\A s \in Range(plan) : ~TouchesPii(s, PiiFields(c))) =>
          ClassifyRisk(plan, shape, TRUE, PiiFields(c)) # Critical
  <2>1. ~TouchesCore(plan[1], shape) /\ ~DeveloperOnly(plan[1])
    BY <1>2 DEF TouchesCore, DeveloperOnly
  <2>2. PlanRisk(plan) # Critical
    BY <1>1, <1>2, PlanRiskLevel
  <2>3. QED
    BY <1>1, <2>1, <2>2, Classified
<1>5. ReviewedValid(plan, shape) = TRUE
  BY <1>3 DEF ReviewedValid
<1>6. QED
  BY <1>1, <1>2, <1>4, <1>5 DEF Review

-----------------------------------------------------------------------------
(* What a plan leaves of a struct. *)

LEMMA Warns ==
    ASSUME NEW s \in Steps, NEW pii, NEW conventions
    PROVE  LET W == StepWarnings(s, pii, conventions)
           IN /\ s.op = "rename_field" => "field renamed" \in W
              /\ s.op = "rename_model" => "model renamed" \in W
              /\ s.op = "remove_field" =>
                    "field removed" \in W /\ (s.name \in conventions => "convention removed" \in W)
              /\ s.op = "change_type" => "type changed" \in W /\ "table rewritten" \in W
              /\ s.op = "change_null" /\ ~s.null =>
                    "field required" \in W /\ "table rewritten" \in W
              /\ s.op = "add_field" => W = {}
              /\ ~TouchesPii(s, pii) => "personal data" \notin W
BY DEF StepWarnings, Rewrites, TouchesPii

\* Of the struct m that was, F has the personal data, and whatever else it
\* lacks has been announced.
Kept(m, F, e) ==
    /\ PiiOf(code[m], e.context) \subseteq PiiOf(F, e.context)
    /\ \A f \in code[m] : Announced(f, F, e)

LEMMA PiiMembers ==
    ASSUME NEW F, NEW c, NEW x
    PROVE  x \in PiiOf(F, c) <=> \E f \in F : f.name \in PiiFields(c) /\ x = <<f.name, f.ty>>
BY DEF PiiOf

LEMMA PiiField ==
    ASSUME NEW F, NEW c, NEW n, NEW t, <<n, t>> \in PiiOf(F, c)
    PROVE  \E f \in F : f.name = n /\ f.ty = t
BY PiiMembers

LEMMA PiiStill ==
    ASSUME NEW F, NEW G, NEW c,
           \A f \in F : f.name \in PiiFields(c) => \E g \in G : g.name = f.name /\ g.ty = f.ty
    PROVE  PiiOf(F, c) \subseteq PiiOf(G, c)
<1>1. ASSUME NEW x \in PiiOf(F, c) PROVE x \in PiiOf(G, c)
  <2>1. PICK f \in F : f.name \in PiiFields(c) /\ x = <<f.name, f.ty>>
    BY PiiMembers
  <2>2. PICK g \in G : g.name = f.name /\ g.ty = f.ty
    BY <2>1
  <2>3. QED
    BY <2>1, <2>2, PiiMembers
<1>2. QED
  BY <1>1

LEMMA KeptPii ==
    ASSUME NEW m, NEW F, NEW e, Kept(m, F, e)
    PROVE  \A f \in code[m] : f.name \in PiiFields(e.context) =>
               \E g \in F : g.name = f.name /\ g.ty = f.ty
<1>1. ASSUME NEW f \in code[m], f.name \in PiiFields(e.context)
      PROVE  \E g \in F : g.name = f.name /\ g.ty = f.ty
  <2>1. <<f.name, f.ty>> \in PiiOf(code[m], e.context)
    BY <1>1, PiiMembers
  <2>2. <<f.name, f.ty>> \in PiiOf(F, e.context)
    BY <2>1 DEF Kept
  <2>3. QED
    BY <2>2, PiiField
<1>2. QED
  BY <1>1

LEMMA KeptMore ==
    ASSUME NEW m, NEW F, NEW G, NEW e, Kept(m, F, e), F \subseteq G
    PROVE  Kept(m, G, e)
<1>1. PiiOf(F, e.context) \subseteq PiiOf(G, e.context)
  BY PiiMembers
<1>2. QED
  BY <1>1 DEF Kept, Announced

\* A field that may go without a word, or has been announced.
Harmless(f, e) ==
    /\ f.name \notin PiiFields(e.context)
    /\ "field renamed" \in e.shown.warnings \/ Removed(f, e) \subseteq e.shown.warnings

\* One step that the policy lets pass and whose warnings were shown; a
\* relation that is removed is one the plan has added.
LEMMA EditKeeps ==
    ASSUME NEW s \in Steps, NEW m, NEW F \in SUBSET Fields, NEW G, NEW e, Edits(s, F, G),
           Kept(m, F, e), ~TouchesPii(s, PiiFields(e.context)),
           StepWarnings(s, PiiFields(e.context), RequiredFields(e.context))
               \subseteq e.shown.warnings,
           s.op = "remove_relation" =>
               \A f \in code[m] : f.name = s.name => Harmless(f, e)
    PROVE  Kept(m, G, e)
<1> DEFINE W == e.shown.warnings
           pii == PiiFields(e.context)
<1>0. \A f \in code[m] : f.name \in pii => \E g \in F : g.name = f.name /\ g.ty = f.ty
  BY KeptPii
<1>1. SUFFICES /\ \A f \in code[m] : f.name \in pii => \E g \in G : g.name = f.name /\ g.ty = f.ty
               /\ \A f \in code[m] : Announced(f, G, e)
  BY PiiStill DEF Kept
<1>2. CASE s.op \in {"add_field", "add_relation"}
  <2>1. F \subseteq G
    BY <1>2 DEF Edits
  <2>2. QED
    BY <1>0, <2>1 DEF Kept, Announced
<1>3. CASE s.op = "rename_field"
  <2>1. "field renamed" \in W /\ s.name \notin pii
    BY <1>3, Warns DEF TouchesPii
  <2>2. G = Renaming(F, s.name, s.to)
    BY <1>3 DEF Edits
  <2>3. \A g \in F : g.name # s.name => g \in G
    BY <2>2 DEF Renaming, Edit
  <2>4. QED
    BY <1>0, <2>1, <2>3 DEF Announced
<1>4. CASE s.op = "change_type"
  <2>1. {"type changed", "table rewritten"} \subseteq W /\ s.name \notin pii
    BY <1>4, Warns DEF TouchesPii
  <2>2. PICK h \in F : h.name = s.name /\ G = (F \ {h}) \cup {[h EXCEPT !.ty = s.ty]}
    BY <1>4 DEF Edits
  <2> DEFINE k == [h EXCEPT !.ty = s.ty]
  <2>3. k.name = h.name /\ k.ty = s.ty /\ k.null = h.null
    BY DEF Fields
  <2>4. \A f \in code[m] : f.name \in pii => \E g \in G : g.name = f.name /\ g.ty = f.ty
    BY <1>0, <2>1, <2>2
  <2>5. ASSUME NEW f \in code[m] PROVE Announced(f, G, e)
    <3>1. ASSUME f.name = h.name, Changed(f, h) \subseteq W PROVE Changed(f, k) \subseteq W
      BY <2>1, <2>3, <3>1 DEF Changed
    <3> HIDE DEF k
    <3>2. ASSUME NEW g \in F, g.name = f.name, Changed(f, g) \subseteq W
          PROVE  \E x \in G : x.name = f.name /\ Changed(f, x) \subseteq W
      <4>1. CASE g = h
        BY <2>2, <2>3, <3>1, <3>2, <4>1 DEF k
      <4>2. CASE g # h
        BY <2>2, <3>2, <4>2
      <4>3. QED
        BY <4>1, <4>2
    <3>3. QED
      BY <3>2 DEF Kept, Announced
  <2>6. QED
    BY <2>4, <2>5
<1>5. CASE s.op = "change_null"
  <2>1. ~s.null => {"field required", "table rewritten"} \subseteq W
    BY <1>5, Warns
  <2>2. PICK h \in F : h.name = s.name /\ G = (F \ {h}) \cup {[h EXCEPT !.null = s.null]}
    BY <1>5 DEF Edits
  <2> DEFINE k == [h EXCEPT !.null = s.null]
  <2>3. k.name = h.name /\ k.ty = h.ty /\ k.null = s.null
    BY DEF Fields
  <2>4. \A f \in code[m] : f.name \in pii => \E g \in G : g.name = f.name /\ g.ty = f.ty
    <3> HIDE DEF k
    <3>1. ASSUME NEW g \in F PROVE \E x \in G : x.name = g.name /\ x.ty = g.ty
      BY <2>2, <2>3 DEF k
    <3>2. ASSUME NEW f \in code[m], f.name \in pii
          PROVE  \E g \in G : g.name = f.name /\ g.ty = f.ty
      <4>1. PICK g \in F : g.name = f.name /\ g.ty = f.ty
        BY <1>0, <3>2
      <4>2. QED
        BY <3>1, <4>1
    <3>3. QED
      BY <3>2
  <2>5. ASSUME NEW f \in code[m] PROVE Announced(f, G, e)
    <3>1. ASSUME f.name = h.name, Changed(f, h) \subseteq W PROVE Changed(f, k) \subseteq W
      BY <2>1, <2>3, <3>1 DEF Changed
    <3> HIDE DEF k
    <3>2. ASSUME NEW g \in F, g.name = f.name, Changed(f, g) \subseteq W
          PROVE  \E x \in G : x.name = f.name /\ Changed(f, x) \subseteq W
      <4>1. CASE g = h
        BY <2>2, <2>3, <3>1, <3>2, <4>1 DEF k
      <4>2. CASE g # h
        BY <2>2, <3>2, <4>2
      <4>3. QED
        BY <4>1, <4>2
    <3>3. QED
      BY <3>2 DEF Kept, Announced
  <2>6. QED
    BY <2>4, <2>5
<1>6. CASE s.op \in {"remove_field", "remove_relation"}
  <2>1. PICK h \in F : h.name = s.name /\ G = F \ {h}
    BY <1>6 DEF Edits
  <2>2. ASSUME NEW f \in code[m], f.name = s.name
        PROVE  f.name \notin pii /\ ("field renamed" \in W \/ Removed(f, e) \subseteq W)
    <3>1. CASE s.op = "remove_field"
      BY <2>2, <3>1, Warns DEF TouchesPii, Removed
    <3>2. CASE s.op = "remove_relation"
      BY <2>2, <3>2 DEF Harmless
    <3>3. QED
      BY <1>6, <3>1, <3>2
  <2>3. QED
    BY <1>0, <2>1, <2>2 DEF Kept, Announced
<1>7. QED
  BY <1>2, <1>3, <1>4, <1>5, <1>6 DEF Edits

\* The first n steps of a plan have not renamed m.
NotRenamed(m, plan, n) ==
    \A i \in 1..n : plan[i].op = "rename_model" => plan[i].model # m

\* After n steps of the plan of e: a struct is kept where it was or where it
\* was renamed to; a relation that can be removed was added to a name that no
\* personal field had, nor any other that was not announced.
Intact(n, d, S, e) ==
    /\ \A m \in Models :
        code[m] # NoModel /\ NotRenamed(m, e.plan, n) => Kept(m, d.source[m], e)
    /\ \A i \in 1..n : e.plan[i].op = "rename_model" =>
        /\ {e.plan[i].model, e.plan[i].to} \subseteq d.renamed
        /\ e.plan[i].model # e.plan[i].to
        /\ Kept(e.plan[i].model, d.source[e.plan[i].to], e)
    /\ \A r \in S.via : Located(r[1], d) =>
        \A f \in code[r[1]] : f.name = r[2] => Harmless(f, e)

\* The steps of e are typed, pass the policy, and their warnings were shown.
Careful(e) ==
    /\ e.plan \in Seq(Steps)
    /\ \A s \in Range(e.plan) :
        /\ ~TouchesPii(s, PiiFields(e.context))
        /\ StepWarnings(s, PiiFields(e.context), RequiredFields(e.context))
               \subseteq e.shown.warnings

LEMMA FewerRenamed ==
    ASSUME NEW m, NEW plan, NEW n \in Nat
    PROVE  /\ NotRenamed(m, plan, n + 1) => NotRenamed(m, plan, n)
           /\ NotRenamed(m, plan, n + 1) /\ plan[n + 1].op = "rename_model" => plan[n + 1].model # m
BY DEF NotRenamed

\* What the step moved away is where the plan says.
LEMMA RenameIntact ==
    ASSUME NEW e, Careful(e), NEW n \in 0..Len(e.plan), n < Len(e.plan),
           NEW d \in Dry, NEW S \in Reviewed, Intact(n, d, S, e),
           NEW x \in Dry, NEW T \in Reviewed, Moves(e.plan[n + 1], d, x),
           e.plan[n + 1].op = "rename_model", e.plan[n + 1].model # e.plan[n + 1].to,
           \A r \in T.via : r \in S.via \/ r[1] = e.plan[n + 1].to
    PROVE  Intact(n + 1, x, T, e)
<1> DEFINE s == e.plan[n + 1]
<1>1. s \in Steps /\ s.model \in Models /\ s.to \in Models /\ n \in Nat
  BY Kinds DEF Careful
<1>2. /\ code[s.model] # NoModel /\ s.model \notin d.renamed /\ d.source[s.to] = {}
      /\ x.renamed = d.renamed \cup {s.model, s.to}
      /\ x.source[s.to] = d.source[s.model]
      /\ \A m \in Models \ {s.model, s.to} : x.source[m] = d.source[m]
  BY <1>1 DEF Moves, Located, NoModel, Dry, Shapes
<1>3. \A i \in 1..n : e.plan[i].op = "rename_model" =>
          e.plan[i].model # s.model /\ e.plan[i].to # s.model /\ e.plan[i].to \in Models
  <2>1. ASSUME NEW i \in 1..n, e.plan[i].op = "rename_model"
        PROVE  e.plan[i].model # s.model /\ e.plan[i].to # s.model /\ e.plan[i].to \in Models
    <3>1. e.plan[i] \in Steps
      BY DEF Careful
    <3>2. {e.plan[i].model, e.plan[i].to} \subseteq d.renamed
      BY <2>1 DEF Intact
    <3>3. QED
      BY <1>2, <2>1, <3>1, <3>2, Kinds
  <2>2. QED
    BY <2>1
<1>4. \A m \in Models, k \in Models \ {s.model} : Kept(m, d.source[k], e) => Kept(m, x.source[k], e)
  BY <1>1, <1>2, KeptMore
<1>5. ASSUME NEW m \in Models, code[m] # NoModel, NotRenamed(m, e.plan, n + 1)
      PROVE  Kept(m, x.source[m], e)
  <2>1. NotRenamed(m, e.plan, n) /\ m # s.model
    BY <1>1, <1>5, FewerRenamed, ZenonT(40)
  <2>2. Kept(m, d.source[m], e)
    BY <1>5, <2>1 DEF Intact
  <2>3. QED
    BY <1>4, <2>1, <2>2
<1>6. Kept(s.model, x.source[s.to], e)
  <2>1. NotRenamed(s.model, e.plan, n)
    BY <1>3 DEF NotRenamed
  <2>2. QED
    BY <1>1, <1>2, <2>1 DEF Intact
<1>7. ASSUME NEW i \in 1..(n + 1), e.plan[i].op = "rename_model"
      PROVE  /\ {e.plan[i].model, e.plan[i].to} \subseteq x.renamed
             /\ e.plan[i].model # e.plan[i].to
             /\ Kept(e.plan[i].model, x.source[e.plan[i].to], e)
  <2>1. CASE i = n + 1
    BY <1>2, <1>6, <2>1
  <2>2. CASE i \in 1..n
    <3>1. /\ {e.plan[i].model, e.plan[i].to} \subseteq d.renamed
          /\ e.plan[i].model # e.plan[i].to
          /\ Kept(e.plan[i].model, d.source[e.plan[i].to], e)
      BY <1>7, <2>2 DEF Intact
    <3>2. e.plan[i].to \in Models \ {s.model} /\ e.plan[i].model \in Models
      <4>1. e.plan[i] \in Steps
        BY <2>2 DEF Careful
      <4>2. QED
        BY <1>3, <1>7, <2>2, <4>1, Kinds
    <3>3. QED
      BY <1>2, <1>4, <3>1, <3>2
  <2>3. QED
    BY <1>1, <2>1, <2>2
<1>8. ASSUME NEW r \in T.via, Located(r[1], x), NEW f \in code[r[1]], f.name = r[2]
      PROVE  Harmless(f, e)
  <2>1. r[1] # s.to /\ Located(r[1], d)
    BY <1>2, <1>8 DEF Located
  <2>2. r \in S.via
    BY <2>1
  <2>3. QED
    BY <1>8, <2>1, <2>2 DEF Intact
<1>9. QED
  BY <1>5, <1>7, <1>8 DEF Intact

\* What the step edits in place.
LEMMA EditIntact ==
    ASSUME NEW e, Careful(e), NEW n \in 0..Len(e.plan), n < Len(e.plan),
           NEW d \in Dry, NEW S \in Reviewed, Intact(n, d, S, e),
           NEW x \in Dry, NEW T \in Reviewed, Moves(e.plan[n + 1], d, x),
           e.plan[n + 1].op # "rename_model",
           e.plan[n + 1].op = "remove_relation" =>
               <<e.plan[n + 1].model, e.plan[n + 1].name>> \in S.via,
           \A r \in T.via : \/ r \in S.via
                            \/ /\ e.plan[n + 1].op = "add_relation"
                               /\ r = <<e.plan[n + 1].model, e.plan[n + 1].name>>
    PROVE  Intact(n + 1, x, T, e)
<1> DEFINE s == e.plan[n + 1]
<1>1. /\ s \in Steps /\ n \in Nat /\ s \in Range(e.plan)
      /\ ~TouchesPii(s, PiiFields(e.context))
      /\ StepWarnings(s, PiiFields(e.context), RequiredFields(e.context))
             \subseteq e.shown.warnings
  BY DEF Careful, Range
<1>2. /\ Located(s.model, d) /\ x.renamed = d.renamed
      /\ Edits(s, d.source[s.model], x.source[s.model])
      /\ \A m \in Models \ {s.model} : x.source[m] = d.source[m]
  BY DEF Moves
<1>3. s.model \in Models
  BY <1>1, <1>2, Kinds DEF Edits
<1>4. NotRenamed(s.model, e.plan, n)
  BY <1>2 DEF NotRenamed, Intact, Located
<1>5. Kept(s.model, d.source[s.model], e)
  BY <1>2, <1>3, <1>4 DEF Intact, Located
<1>6. Kept(s.model, x.source[s.model], e)
  <2>1. s.op = "remove_relation" =>
            \A f \in code[s.model] : f.name = s.name => Harmless(f, e)
    <3>1. SUFFICES ASSUME s.op = "remove_relation", NEW f \in code[s.model], f.name = s.name
                   PROVE  Harmless(f, e)
      OBVIOUS
    <3> DEFINE r == <<s.model, s.name>>
    <3>2. r \in S.via /\ r[1] = s.model /\ r[2] = s.name
      BY <3>1
    <3>3. QED
      BY <1>2, <3>1, <3>2 DEF Intact
  <2>2. d.source[s.model] \in SUBSET Fields
    BY <1>3 DEF Dry, Shapes
  <2>3. ~TouchesPii(s, PiiFields(e.context))
    BY <1>1
  <2>4. StepWarnings(s, PiiFields(e.context), RequiredFields(e.context)) \subseteq e.shown.warnings
    BY <1>1
  <2> HIDE DEF s
  <2>5. QED
    BY <1>1, <1>2, <1>5, <2>1, <2>2, <2>3, <2>4, EditKeeps
<1>7. ASSUME NEW m \in Models, code[m] # NoModel, NotRenamed(m, e.plan, n + 1)
      PROVE  Kept(m, x.source[m], e)
  <2>1. Kept(m, d.source[m], e)
    BY <1>1, <1>7, FewerRenamed DEF Intact
  <2>2. QED
    BY <1>2, <1>6, <2>1
<1>8. ASSUME NEW i \in 1..(n + 1), e.plan[i].op = "rename_model"
      PROVE  /\ {e.plan[i].model, e.plan[i].to} \subseteq x.renamed
             /\ e.plan[i].model # e.plan[i].to
             /\ Kept(e.plan[i].model, x.source[e.plan[i].to], e)
  <2>1. i \in 1..n
    BY <1>1, <1>8
  <2>2. /\ {e.plan[i].model, e.plan[i].to} \subseteq d.renamed
        /\ e.plan[i].model # e.plan[i].to
        /\ Kept(e.plan[i].model, d.source[e.plan[i].to], e)
    BY <1>8, <2>1 DEF Intact
  <2>3. e.plan[i].to \in Models \ {s.model}
    <3>1. e.plan[i] \in Steps
      BY <2>1 DEF Careful
    <3>2. QED
      BY <1>2, <1>8, <2>2, <3>1, Kinds DEF Located
  <2>4. QED
    BY <1>2, <2>2, <2>3
<1>9. ASSUME NEW r \in T.via, Located(r[1], x), NEW f \in code[r[1]], f.name = r[2]
      PROVE  Harmless(f, e)
  <2>1. Located(r[1], d)
    BY <1>2, <1>9 DEF Located
  <2>2. CASE r \in S.via
    BY <1>9, <2>1, <2>2 DEF Intact
  <2>3. CASE s.op = "add_relation" /\ r = <<s.model, s.name>>
    <3>1. f \in code[s.model] /\ f.name = s.name /\ s.name \notin NamesOf(d.source[s.model])
      BY <1>2, <1>9, <2>3 DEF Edits, Added, ForeignKey
    <3>2. \A g \in d.source[s.model] : g.name # f.name
      BY <3>1 DEF NamesOf
    <3>3. f.name \notin PiiFields(e.context)
      BY <1>5, <3>1, <3>2, KeptPii
    <3>4. QED
      BY <1>5, <3>1, <3>2, <3>3 DEF Kept, Announced, Harmless
  <2>4. QED
    BY <2>2, <2>3
<1>10. QED
  BY <1>7, <1>8, <1>9 DEF Intact

\* At the end of a plan that is executed.
LEMMA PlanIntact ==
    ASSUME NEW e, Careful(e), e.force \in BOOLEAN, code \in Shapes, schema \in Shapes,
           Begin \in Dry, NEW d \in PlanExecution(e.plan, e.context, e.force)
    PROVE  \E S : Intact(Len(e.plan), d, S, e)
<1> DEFINE plan == e.plan
           I == {y \in (0..Len(plan)) \X Dry \X Reviewed : Intact(y[1], y[2], y[3], e)}
<1>1. plan \in Seq(Steps) /\ Len(plan) \in Nat
  BY DEF Careful
<1>2. AsSchema(schema) \in Reviewed /\ AsSchema(schema).via = {}
  BY DEF AsSchema, Reviewed
<1>3. Intact(0, Begin, AsSchema(schema), e)
  <2>1. ASSUME NEW m \in Models PROVE Kept(m, code[m], e)
    BY DEF Kept, Announced, Changed
  <2>2. QED
    BY <1>2, <2>1 DEF Intact, Begin
<1>4. <<0, Begin, AsSchema(schema)>> \in I
  BY <1>1, <1>2, <1>3
<1>5. ASSUME NEW n \in 0..Len(plan), NEW b \in Dry, NEW S \in Reviewed,
             n < Len(plan), <<n, b, S>> \in I,
             NEW x \in SimulateStep(plan[n + 1], b, e.force), NEW T \in Advance(plan[n + 1], S, TRUE)
      PROVE  <<n + 1, x, T>> \in I
  <2>1. plan[n + 1] \in Steps /\ n + 1 \in 0..Len(plan)
    BY <1>1, <1>5
  <2>2. x \in Dry /\ Moves(plan[n + 1], b, x)
    BY <2>1, StepMoves
  <2>3. /\ T \in Reviewed
        /\ plan[n + 1].op = "remove_relation" =>
               <<plan[n + 1].model, plan[n + 1].name>> \in S.via
        /\ plan[n + 1].op = "rename_model" => plan[n + 1].model # plan[n + 1].to
        /\ \A r \in T.via : \/ r \in S.via
                            \/ /\ plan[n + 1].op = "add_relation"
                               /\ r = <<plan[n + 1].model, plan[n + 1].name>>
                            \/ plan[n + 1].op = "rename_model" /\ r[1] = plan[n + 1].to
    BY <2>1, AdvanceVia
  <2>4. Intact(n, b, S, e)
    BY <1>5
  <2>5. Intact(n + 1, x, T, e)
    <3>1. CASE plan[n + 1].op = "rename_model"
      BY <1>5, <2>2, <2>3, <2>4, <3>1, RenameIntact
    <3>2. CASE plan[n + 1].op # "rename_model"
      BY <1>5, <2>2, <2>3, <2>4, <3>2, EditIntact
    <3>3. QED
      BY <3>1, <3>2
  <2>6. QED
    BY <2>1, <2>2, <2>3, <2>5
<1> HIDE DEF I
<1>6. d \in DryRuns(plan, e.force) /\ Simulated(plan, schema, TRUE) # {}
  BY Executed
<1>7. PICK S \in Simulated(plan, schema, TRUE) : TRUE
  BY <1>6
<1>8. <<Len(plan), d, S>> \in I
  BY <1>1, <1>4, <1>5, <1>6, PlanInduction
<1>9. QED
  BY <1>8 DEF I

Alarm == "personal data"
NoAlarm(e) == Alarm \notin e.shown.warnings
Renames(e) == "model renamed" \in e.shown.warnings

\* What is written keeps the personal data, and takes nothing unannounced.
LEMMA PlanKeeps ==
    ASSUME NEW e, Careful(e), e.force \in BOOLEAN, code \in Shapes, schema \in Shapes,
           Begin \in Dry, NoAlarm(e),
           NEW d \in PlanExecution(e.plan, e.context, e.force), code' = d.source
    PROVE  KeepsPii(e) /\ Warned(e)
<1>1. PICK S : Intact(Len(e.plan), d, S, e)
  BY PlanIntact
<1>2. e.plan \in Seq(Steps) /\ Len(e.plan) \in Nat
  BY DEF Careful
<1>3. ASSUME NEW m \in Models, code[m] # NoModel, NEW n \in Successors(m, e.plan)
      PROVE  Kept(m, code'[n], e) /\ (n # m => Renames(e))
  <2>1. CASE NotRenamed(m, e.plan, Len(e.plan))
    <3>1. Kept(m, d.source[m], e)
      BY <1>1, <1>3, <2>1 DEF Intact
    <3>2. \A s \in Range(e.plan) : s.op = "rename_model" => s.model # m
      BY <1>2, <2>1 DEF NotRenamed, Range
    <3>3. n = m
      BY <1>3, <3>2 DEF Successors
    <3>4. QED
      BY <3>1, <3>3
  <2>2. CASE ~NotRenamed(m, e.plan, Len(e.plan))
    <3>1. PICK i \in 1..Len(e.plan) : e.plan[i].op = "rename_model" /\ e.plan[i].model = m
      BY <2>2 DEF NotRenamed
    <3>2. e.plan[i] \in Range(e.plan)
      BY <1>2, <3>1 DEF Range
    <3>3. PICK s \in Range(e.plan) : s.op = "rename_model" /\ s.model = m /\ n = s.to
      BY <1>3, <3>1, <3>2 DEF Successors
    <3>4. PICK k \in 1..Len(e.plan) : s = e.plan[k]
      BY <1>2, <3>3 DEF Range
    <3>5. Kept(m, d.source[n], e)
      BY <1>1, <3>3, <3>4 DEF Intact
    <3>6. s \in Steps /\ StepWarnings(s, PiiFields(e.context), RequiredFields(e.context))
                            \subseteq e.shown.warnings
      BY <1>2, <3>3, <3>4 DEF Careful
    <3>7. Renames(e)
      BY <3>3, <3>6, Warns DEF Renames
    <3>8. QED
      BY <3>5, <3>7
  <2>3. QED
    BY <2>1, <2>2
<1>4. QED
  BY <1>3 DEF KeepsPii, Warned, Kept, NoAlarm, Alarm, Renames

-----------------------------------------------------------------------------
(* What the terminals, the browsers and the server hold. *)

Notices == {"field removed", "model removed", "model renamed", "field renamed",
            "field required", "type changed", "table rewritten", "personal data",
            "convention removed"}

Shown == [plan : Seq(Steps), risk : Levels, warnings : SUBSET Notices]

Waiting == [at : {"confirm"}, context : Contexts, force : BOOLEAN, shown : Shown]
Servers == [up : {TRUE}, compiled : Shapes, cache : Shapes \cup {Missing, Unread},
            context : Contexts \cup {Unread}]
Suggestions == [slug : Hints, field : Names]
Pages == [at : {"page"}, suggestion : Suggestions, shown : Shown]
Requests == [at : {"planned"}, plan : Seq(Steps), page : Pages]
Readings == [at : {"reading"}, shape : Shapes]
Entry == [plan : Seq(Steps), context : Contexts, force : BOOLEAN, shown : Shown, risk : Levels]

\* The files, as far as everybody types them.
FilesTyped ==
    /\ day \in Days /\ code \in Shapes /\ schema \in Shapes \cup {Missing}
    /\ context \in Contexts \cup {Garbled} /\ referenced \in SUBSET Tables
    /\ saved \in SUBSET Seq(Steps) /\ edits \in 0..MaxSettings

PeopleTyped ==
    /\ server \in {Down} \cup Servers
    /\ terminal \in [Terminals -> {Idle} \cup Waiting]
    /\ admin \in [Admins -> {Idle} \cup Pages \cup Requests \cup Readings]
    /\ applied \in Seq(Entry)

\* A request is under way in a server that runs, and has loaded the context.
Alive ==
    \A a \in Admins :
        /\ admin[a].at \in {"planned", "reading"} => server.up
        /\ admin[a].at = "planned" => server.context \in Contexts

\* What a terminal shows is the plan's own risk, or Critical, and all of its
\* warnings.
Asked(a) ==
    /\ a.shown.risk \in {Critical, PlanRisk(a.shown.plan)}
    /\ a.shown.warnings =
            Warnings(a.shown.plan, PiiFields(a.context), RequiredFields(a.context))

\* The field an industry asks for has one type, whatever the context is when it
\* is planned.
AdoptedType(n) ==
    CASE n \in {"patient_id", "account_number"} -> "String"
      [] n = "balance" -> "i64"
      [] OTHER -> Heuristic[n]

Adopts(m, n) ==
    [op |-> "add_field", model |-> m,
     field |-> [name |-> n, ty |-> AdoptedType(n), null |-> FALSE]]

\* A plan that follows the suggestion g.
Answers(plan, g) == \E m \in Models : Slug[m] = g.slug /\ plan = <<Adopts(m, g.field)>>

Offered(p) ==
    /\ Answers(p.shown.plan, p.suggestion)
    /\ p.shown.risk = Low /\ p.shown.warnings = {}

Confirmed(e) ==
    /\ Len(e.plan) = Len(e.shown.plan)
    /\ \A i \in DOMAIN e.plan : SameStep(e.plan[i], e.shown.plan[i])
    /\ e.risk <= e.shown.risk
    /\ e.risk < Critical
    /\ (\E s \in Range(e.plan) : Destructive(s)) => e.force

Sincere ==
    /\ \A t \in Terminals : terminal[t] # Idle => Asked(terminal[t])
    /\ \A a \in Admins :
        /\ admin[a].at = "page" => Offered(admin[a])
        /\ admin[a].at = "planned" =>
            Offered(admin[a].page) /\ Answers(admin[a].plan, admin[a].page.suggestion)

\* Inductive: what people have before them was true when it was made, and what
\* they may still say yes to can be compared with it.
WorkInv == FilesTyped /\ PeopleTyped /\ Alive /\ Sincere /\ AppliedAsShown

LEMMA DumpType ==
    ASSUME NEW c \in Shapes
    PROVE  Dump(c) \in Shapes
BY CoreFieldsAssumption DEF Dump, Shapes

LEMMA NoContextType == NoContext \in Contexts
BY DEF NoContext, Contexts

LEMMA WarningsType ==
    ASSUME NEW plan, NEW pii, NEW conventions
    PROVE  Warnings(plan, pii, conventions) \in SUBSET Notices
BY Zenon DEF Warnings, StepWarnings, Notices

\* What is shown of a plan.
LEMMA SeenType ==
    ASSUME NEW plan \in Seq(Steps), NEW c
    PROVE  /\ Seen(plan, c) \in Shown
           /\ Seen(plan, c).plan = plan
           /\ Seen(plan, c).risk = Review(plan, schema, PiiFields(c)).risk
           /\ Seen(plan, c).risk \in {Critical, PlanRisk(plan)}
           /\ Seen(plan, c).warnings = Warnings(plan, PiiFields(c), RequiredFields(c))
<1> DEFINE r == Review(plan, schema, PiiFields(c)).risk
           W == Warnings(plan, PiiFields(c), RequiredFields(c))
<1>1. r \in {Critical, PlanRisk(plan)}
  BY Classified DEF Review
<1>2. r \in Levels
  BY <1>1, PlanRiskLevel DEF Levels, Low, Critical
<1>3. W \in SUBSET Notices
  BY WarningsType
<1>4. Seen(plan, c) = [plan |-> plan, risk |-> r, warnings |-> W]
  BY DEF Seen
<1> HIDE DEF r, W
<1>5. QED
  BY <1>1, <1>2, <1>3, <1>4 DEF Shown, r, W

-----------------------------------------------------------------------------
(* Suggestions. *)

LEMMA AdoptedTyped ==
    ASSUME NEW n \in Names
    PROVE  AdoptedType(n) \in Types
BY NamingAssumption, TypesAssumption DEF AdoptedType

\* A field the industry of the context asks for is guessed to be of its type.
LEMMA GuessAdopted ==
    ASSUME NEW c \in Contexts, NEW n \in RequiredFields(c), n \in Names
    PROVE  GuessedType(n, c) = AdoptedType(n)
<1>1. CASE c.industry = "housing"
  <2>1. n \in {"personnummer", "queue_start_date", "annual_income"}
    BY <1>1 DEF RequiredFields
  <2>2. n = "personnummer" => Heuristic[n] = "String"
    BY NamingAssumption
  <2>3. QED
    BY <1>1, <2>1, <2>2 DEF GuessedType, IsIdentifier, AdoptedType
<1>2. CASE c.industry = "healthcare"
  <2>1. n \in {"patient_id", "created_at"}
    BY <1>2 DEF RequiredFields
  <2>2. QED
    BY <1>2, <2>1 DEF GuessedType, IsIdentifier, AdoptedType
<1>3. CASE c.industry = "banking"
  <2>1. n \in {"account_number", "currency", "balance"}
    BY <1>3 DEF RequiredFields
  <2>2. QED
    BY <1>3, <2>1 DEF GuessedType, IsIdentifier, AdoptedType
<1>4. CASE c.industry \notin {"housing", "healthcare", "banking"}
  BY <1>4 DEF RequiredFields
<1>5. QED
  BY <1>1, <1>2, <1>3, <1>4

LEMMA AdoptsType ==
    ASSUME NEW m \in Models, NEW n \in Names
    PROVE  /\ Adopts(m, n) \in Steps /\ <<Adopts(m, n)>> \in Seq(Steps)
           /\ Len(<<Adopts(m, n)>>) = 1
<1>1. [name |-> n, ty |-> AdoptedType(n), null |-> FALSE] \in Fields
  BY AdoptedTyped DEF Fields
<1>2. Adopts(m, n) \in Steps
  BY <1>1 DEF Adopts, Steps
<1>3. QED
  BY <1>2

\* Such a plan has no risk and no warning, and differs from another that
\* follows the suggestion in the model at most.
LEMMA AnswerIsMild ==
    ASSUME NEW plan, NEW g \in Suggestions, Answers(plan, g)
    PROVE  /\ plan \in Seq(Steps) /\ Len(plan) = 1 /\ Range(plan) = {plan[1]}
           /\ DOMAIN plan = {1}
           /\ plan[1] \in Steps /\ plan[1].op = "add_field"
           /\ PlanRisk(plan) = Low
<1>1. PICK m \in Models : Slug[m] = g.slug /\ plan = <<Adopts(m, g.field)>>
  BY DEF Answers
<1>2. g.field \in Names
  BY DEF Suggestions
<1> DEFINE s == Adopts(m, g.field)
<1>3. s \in Steps /\ s.op = "add_field"
  BY <1>2, AdoptsType DEF Adopts
<1> HIDE DEF s
<1>4. /\ <<s>> \in Seq(Steps) /\ Len(<<s>>) = 1 /\ DOMAIN <<s>> = {1} /\ <<s>>[1] = s
      /\ Range(<<s>>) = {s}
  BY <1>3 DEF Range
<1>5. PlanRisk(<<s>>) = Low
  <2>1. PerStepRisk(s) = Low
    BY <1>3 DEF PerStepRisk
  <2> DEFINE mixed == /\ \E t \in Range(<<s>>) : t.op = "add_field"
                      /\ \E t \in Range(<<s>>) : t.op = "remove_field"
             S == {PerStepRisk(t) : t \in Range(<<s>>)} \cup {Low}
                    \cup (IF mixed THEN {High} ELSE {})
  <2>2. ~mixed
    BY <1>3, <1>4
  <2>3. S = {Low}
    BY <1>4, <2>1, <2>2
  <2>4. PlanRisk(<<s>>) = Max(S)
    BY Zenon DEF PlanRisk
  <2>5. Low \in Levels
    BY DEF Levels, Low, Critical
  <2>6. QED
    BY <2>3, <2>4, <2>5, MaxOfLevels
<1>6. plan = <<s>>
  BY <1>1 DEF s
<1>7. QED
  BY <1>3, <1>4, <1>5, <1>6

LEMMA AnswersAgree ==
    ASSUME NEW plan, NEW other, NEW g \in Suggestions, Answers(plan, g), Answers(other, g)
    PROVE  SameStep(plan[1], other[1])
<1>1. PICK m \in Models : Slug[m] = g.slug /\ plan = <<Adopts(m, g.field)>>
  BY DEF Answers
<1>2. PICK k \in Models : Slug[k] = g.slug /\ other = <<Adopts(k, g.field)>>
  BY DEF Answers
<1>3. plan[1] = Adopts(m, g.field) /\ other[1] = Adopts(k, g.field)
  BY <1>1, <1>2
<1>4. SameStep(Adopts(m, g.field), Adopts(k, g.field))
  <2> DEFINE f == [name |-> g.field, ty |-> AdoptedType(g.field), null |-> FALSE]
  <2>1. /\ Adopts(m, g.field) = [op |-> "add_field", model |-> m, field |-> f]
        /\ Adopts(k, g.field) = [op |-> "add_field", model |-> k, field |-> f]
    BY DEF Adopts
  <2> HIDE DEF f
  <2>2. [Adopts(m, g.field) EXCEPT !.model = k] = Adopts(k, g.field)
    BY <2>1
  <2>3. Adopts(m, g.field).model = m /\ Adopts(k, g.field).model = k
    BY <2>1
  <2>4. QED
    BY <1>1, <1>2, <2>2, <2>3 DEF SameStep
<1>5. QED
  BY <1>3, <1>4

\* What the server plans for a suggestion it derives.
LEMMA PlannedAnswers ==
    ASSUME NEW srv, srv.context \in Contexts, NEW g \in Suggestions,
           NEW h \in FindSuggestion(srv, g), NEW plan \in RunPlanner(srv, h)
    PROVE  Answers(plan, g)
<1>1. h = g /\ g.field \in RequiredFields(srv.context)
  BY DEF FindSuggestion, DeriveSuggestions
<1>2. g.field \in Names /\ g.slug \in Hints
  BY DEF Suggestions
<1> DEFINE w == [form |-> "add", field |-> g.field, as |-> None, optional |-> FALSE,
                 model |-> g.slug]
<1>3. w.form = "add" /\ w.field = g.field /\ w.as = None /\ w.optional = FALSE /\ w.model = g.slug
  OBVIOUS
<1>4. plan \in GeneratePlan(w, schema, srv.context)
  BY <1>1 DEF RunPlanner
<1> HIDE DEF w
<1>5. PICK s \in TryAddField(w, schema, srv.context) : plan = <<s>>
  BY <1>3, <1>4 DEF GeneratePlan, StepsOf
<1>6. PICK x \in Target(w.model, schema) \X InferFieldType(w.field, w.as, srv.context) :
          s = [op |-> "add_field", model |-> x[1],
               field |-> [name |-> w.field, ty |-> x[2], null |-> w.optional]]
  BY <1>5 DEF TryAddField
<1>7. x[1] \in Models /\ Slug[x[1]] = g.slug
  BY <1>3, <1>6, Targets
<1>8. x[2] = AdoptedType(g.field)
  BY <1>1, <1>2, <1>3, <1>6, GuessAdopted DEF InferFieldType
<1>9. s = Adopts(x[1], g.field)
  BY <1>3, <1>6, <1>8 DEF Adopts
<1>10. QED
  BY <1>5, <1>7, <1>9 DEF Answers

-----------------------------------------------------------------------------
(* A plan that is written. *)

\* The structs stay typed, and nothing goes without --force.
LEMMA ExecutedSafely ==
    ASSUME NEW plan \in Seq(Steps), NEW c, NEW force \in BOOLEAN, Begin \in Dry,
           NEW d \in PlanExecution(plan, c, force)
    PROVE  d \in Dry /\ ((\E s \in Range(plan) : Destructive(s)) => force)
<1> DEFINE I == {y \in (0..Len(plan)) \X Dry \X Reviewed :
                    (\E i \in 1..y[1] : Destructive(plan[i])) => force}
<1>1. Len(plan) \in Nat /\ schema \in Shapes
  BY DEF Dry, Begin
<1>2. AsSchema(schema) \in Reviewed
  BY <1>1 DEF AsSchema, Reviewed
<1>3. <<0, Begin, AsSchema(schema)>> \in I
  BY <1>1, <1>2
<1>4. ASSUME NEW n \in 0..Len(plan), NEW b \in Dry, NEW S \in Reviewed,
             n < Len(plan), <<n, b, S>> \in I,
             NEW x \in SimulateStep(plan[n + 1], b, force), NEW T \in Advance(plan[n + 1], S, TRUE)
      PROVE  <<n + 1, x, T>> \in I
  <2>1. plan[n + 1] \in Steps /\ n + 1 \in 0..Len(plan)
    BY <1>1, <1>4
  <2>2. x \in Dry /\ T \in Reviewed /\ (Destructive(plan[n + 1]) => force)
    BY <2>1, StepMoves, AdvanceVia
  <2>3. (\E i \in 1..n : Destructive(plan[i])) => force
    BY <1>4
  <2>4. \A i \in 1..(n + 1) : i \in 1..n \/ i = n + 1
    BY <1>4
  <2>5. (\E i \in 1..(n + 1) : Destructive(plan[i])) => force
    BY <2>2, <2>3, <2>4
  <2>6. QED
    BY <2>1, <2>2, <2>5
<1> HIDE DEF I
<1>5. d \in DryRuns(plan, force) /\ Simulated(plan, schema, TRUE) # {}
  BY Executed
<1>6. PICK S \in Simulated(plan, schema, TRUE) : TRUE
  BY <1>5
<1>7. d \in Dry /\ <<Len(plan), d, S>> \in I
  BY <1>1, <1>3, <1>4, <1>5, <1>6, PlanInduction
<1>8. (\E i \in 1..Len(plan) : Destructive(plan[i])) => force
  BY <1>7 DEF I
<1>9. \A s \in Range(plan) : \E i \in 1..Len(plan) : s = plan[i]
  BY DEF Range
<1>10. QED
  BY <1>7, <1>8, <1>9

LEMMA BeginType ==
    ASSUME FilesTyped, schema # Missing
    PROVE  Begin \in Dry
BY DEF FilesTyped, Begin, Dry

\* What is added to the record, and what it records.
Recorded(plan, c, force, shown) ==
    [plan |-> plan, context |-> c, force |-> force, shown |-> shown,
     risk |-> Review(plan, schema, PiiFields(c)).risk]

LEMMA ExecuteWrites ==
    ASSUME FilesTyped, applied \in Seq(Entry), NEW plan \in Seq(Steps), NEW c \in Contexts,
           NEW force \in BOOLEAN, NEW shown \in Shown, Execute(plan, c, force, shown)
    PROVE  /\ edits' = edits => FilesTyped'
           /\ applied' \in Seq(Entry)
           /\ applied' = Append(applied, Recorded(plan, c, force, shown))
           /\ Review(plan, schema, PiiFields(c)).risk < Critical
           /\ Review(plan, schema, PiiFields(c)).risk = PlanRisk(plan)
           /\ (\E s \in Range(plan) : Destructive(s)) => force
           /\ \A s \in Range(plan) : ~TouchesPii(s, PiiFields(c))
<1>1. PICK d \in PlanExecution(plan, c, force) :
          /\ code' = d.source /\ referenced' = d.referenced
          /\ applied' = Append(applied, Recorded(plan, c, force, shown))
          /\ UNCHANGED <<day, schema, context, saved>>
  BY DEF Execute, Recorded
<1>2. /\ schema # Missing
      /\ Review(plan, schema, PiiFields(c)).risk < Critical
      /\ \A s \in Range(plan) : ~TouchesPii(s, PiiFields(c))
  BY Executed
<1>3. d \in Dry /\ ((\E s \in Range(plan) : Destructive(s)) => force)
  BY <1>2, BeginType, ExecutedSafely
<1>4. /\ Review(plan, schema, PiiFields(c)).risk = PlanRisk(plan)
      /\ Review(plan, schema, PiiFields(c)).risk \in Levels
  <2>1. Review(plan, schema, PiiFields(c)).risk \in {Critical, PlanRisk(plan)}
    BY Classified DEF Review
  <2>2. Critical \in Levels /\ ~(Critical < Critical)
    BY DEF Levels, Low, Critical
  <2>3. QED
    BY <1>2, <2>1, <2>2, PlanRiskLevel
<1>5. Recorded(plan, c, force, shown) \in Entry
  BY <1>4 DEF Recorded, Entry
<1>6. applied' \in Seq(Entry)
  BY <1>1, <1>5
<1>7. code' \in Shapes /\ referenced' \in SUBSET Tables
  BY <1>1, <1>3 DEF Dry
<1>8. edits' = edits => FilesTyped'
  BY <1>1, <1>7 DEF FilesTyped
<1>9. QED
  BY <1>1, <1>2, <1>3, <1>4, <1>6, <1>8

LEMMA OneMore ==
    ASSUME NEW S, NEW s \in Seq(S), NEW e \in S
    PROVE  /\ Append(s, e) \in Seq(S) /\ Last(Append(s, e)) = e
           /\ Len(Append(s, e)) = Len(s) + 1 /\ Append(s, e) # s
           /\ \A x \in Range(Append(s, e)) : x \in Range(s) \/ x = e
<1>1. Last(Append(s, e)) = e /\ Len(Append(s, e)) = Len(s) + 1 /\ Append(s, e) # s
  BY DEF Last
<1>2. \A x \in Range(Append(s, e)) : x \in Range(s) \/ x = e
  BY DEF Range
<1>3. QED
  BY <1>1, <1>2

LEMMA RecordGrows ==
    ASSUME AppliedAsShown, applied \in Seq(Entry), NEW e \in Entry, applied' = Append(applied, e),
           Confirmed(e)
    PROVE  AppliedAsShown'
<1>1. ASSUME NEW x \in Range(applied') PROVE Confirmed(x)
  <2>1. x \in Range(applied) \/ x = e
    BY OneMore
  <2>2. QED
    BY <2>1 DEF AppliedAsShown, Confirmed
<1>2. QED
  BY <1>1 DEF AppliedAsShown, Confirmed

\* Who sits at a terminal is shown all of it.
LEMMA AskingSound ==
    ASSUME NEW plan \in Seq(Steps), NEW c \in Contexts, NEW force \in BOOLEAN
    PROVE  Asking(plan, c, force) \in Waiting /\ Asked(Asking(plan, c, force))
<1>1. /\ Asking(plan, c, force).shown = Seen(plan, c) /\ Asking(plan, c, force).context = c
      /\ Asking(plan, c, force) = [at |-> "confirm", context |-> c, force |-> force,
                                   shown |-> Seen(plan, c)]
  BY DEF Asking
<1>2. Seen(plan, c) \in Shown /\ Seen(plan, c).plan = plan
      /\ Seen(plan, c).risk \in {Critical, PlanRisk(plan)}
      /\ Seen(plan, c).warnings = Warnings(plan, PiiFields(c), RequiredFields(c))
  BY SeenType
<1>3. Asked(Asking(plan, c, force))
  BY <1>1, <1>2 DEF Asked
<1>4. QED
  BY <1>1, <1>2, <1>3 DEF Waiting

LEMMA TerminalStep ==
    ASSUME terminal \in [Terminals -> {Idle} \cup Waiting], Sincere, NEW t \in Terminals,
           NEW w \in {Idle} \cup Waiting, w # Idle => Asked(w),
           terminal' = [terminal EXCEPT ![t] = w], admin' = admin
    PROVE  terminal' \in [Terminals -> {Idle} \cup Waiting] /\ Sincere'
<1>1. \A u \in Terminals : terminal'[u] # Idle => Asked(terminal'[u])
  BY DEF Sincere
<1>2. QED
  BY <1>1 DEF Sincere

Browsing == {Idle} \cup Pages \cup Requests \cup Readings

LEMMA BrowserStep ==
    ASSUME admin \in [Admins -> Browsing], Sincere, Alive, NEW a \in Admins, NEW w \in Browsing,
           admin' = [admin EXCEPT ![a] = w], terminal' = terminal,
           w.at = "page" => Offered(w),
           w.at = "planned" => Offered(w.page) /\ Answers(w.plan, w.page.suggestion),
           w.at \in {"planned", "reading"} => server'.up,
           w.at = "planned" => server'.context \in Contexts,
           server.up => server'.up, server.context \in Contexts => server'.context \in Contexts
    PROVE  admin' \in [Admins -> Browsing] /\ Sincere' /\ Alive'
<1>1. admin'[a] = w /\ \A b \in Admins \ {a} : admin'[b] = admin[b]
  OBVIOUS
<1>2. Alive'
  BY <1>1 DEF Alive
<1>3. Sincere'
  BY <1>1 DEF Sincere
<1>4. QED
  BY <1>2, <1>3

LEMMA LoadedType ==
    ASSUME FilesTyped, server \in {Down} \cup Servers, server.up
    PROVE  server \in Servers /\ Loaded \in Servers /\ Loaded.up /\ Loaded.context \in Contexts
<1>1. server \in Servers
  BY DEF Down
<1>2. /\ Loaded.up = TRUE /\ Loaded.compiled = server.compiled
      /\ Loaded.context = IF server.context # Unread THEN server.context
                          ELSE IF context = Garbled THEN NoContext ELSE context
      /\ Loaded.cache = IF server.cache = Unread THEN schema ELSE server.cache
  BY <1>1 DEF Loaded, Servers
<1>3. Loaded.context \in Contexts /\ Loaded.cache \in Shapes \cup {Missing, Unread}
  BY <1>1, <1>2, NoContextType DEF FilesTyped, Servers
<1>4. Loaded \in Servers
  <2> DEFINE c == IF server.context # Unread THEN server.context
                  ELSE IF context = Garbled THEN NoContext ELSE context
             k == IF server.cache = Unread THEN schema ELSE server.cache
  <2>1. Loaded = [server EXCEPT !.context = c, !.cache = k]
    BY Zenon DEF Loaded
  <2>2. c \in Contexts /\ k \in Shapes \cup {Missing, Unread}
    BY <1>2, <1>3
  <2> HIDE DEF c, k
  <2>3. QED
    BY <1>1, <2>1, <2>2 DEF Servers
<1>5. QED
  BY <1>1, <1>2, <1>3, <1>4

-----------------------------------------------------------------------------
(* Every step of the workspace keeps the invariant. *)

LEMMA WorkingInit ==
    ASSUME Init
    PROVE  WorkInv
<1>1. FilesTyped
  <2>1. day.code \in Shapes /\ day.contexts \subseteq Contexts
    BY DaysAssumption DEF Init
  <2>2. 0 \in 0..MaxSettings
    BY BoundsAssumption
  <2>3. QED
    BY <2>1, <2>2, DumpType DEF Init, FilesTyped
<1>2. PeopleTyped /\ Alive
  <2>1. Idle.at = "idle"
    BY DEF Idle
  <2>2. applied \in Seq(Entry)
    BY DEF Init
  <2>3. QED
    BY <2>1, <2>2 DEF Init, PeopleTyped, Alive
<1>3. Sincere
  BY DEF Init, Sincere, Idle
<1>4. AppliedAsShown
  BY DEF Init, AppliedAsShown, Range
<1>5. QED
  BY <1>1, <1>2, <1>3, <1>4 DEF WorkInv

LEMMA AiPlanKeeps ==
    ASSUME WorkInv, NEW w \in day.saves, AiPlan(w)
    PROVE  WorkInv'
<1>1. w \in Sentences
  BY DaysAssumption DEF WorkInv, FilesTyped
<1>2. saved' \in SUBSET Seq(Steps)
  BY <1>1, PlanOfOne DEF AiPlan
<1>3. QED
  BY <1>2 DEF AiPlan, WorkInv, FilesTyped, PeopleTyped, Alive, Sincere, AppliedAsShown

LEMMA AiApplyKeeps ==
    ASSUME WorkInv, NEW t \in Terminals, NEW plan \in day.documents \cup saved,
           NEW force \in BOOLEAN, AiApply(t, plan, force)
    PROVE  WorkInv'
<1>1. plan \in Seq(Steps) /\ context \in Contexts
  BY DaysAssumption DEF WorkInv, FilesTyped, AiApply
<1>2. /\ terminal' = [terminal EXCEPT ![t] = Asking(plan, context, force)]
      /\ UNCHANGED <<project, server, admin, applied, edits>>
  BY DEF AiApply
<1>3. terminal' \in [Terminals -> {Idle} \cup Waiting] /\ Sincere'
  BY <1>1, <1>2, AskingSound, TerminalStep DEF WorkInv, PeopleTyped
<1>4. QED
  BY <1>2, <1>3 DEF project, WorkInv, FilesTyped, PeopleTyped, Alive, AppliedAsShown

LEMMA ChangeKeeps ==
    ASSUME WorkInv, NEW t \in Terminals, NEW w \in day.sentences, Change(t, w)
    PROVE  WorkInv'
<1>1. w \in Sentences /\ context \in Contexts
  BY DaysAssumption DEF WorkInv, FilesTyped, Change
<1>2. PICK plan \in GeneratePlan(w, schema, context) :
          terminal' = [terminal EXCEPT ![t] = Asking(plan, context, FALSE)]
  BY DEF Change
<1>3. plan \in Seq(Steps)
  BY <1>1, PlanOfOne
<1>4. UNCHANGED <<project, server, admin, applied, edits>>
  BY DEF Change
<1>5. terminal' \in [Terminals -> {Idle} \cup Waiting] /\ Sincere'
  BY <1>1, <1>2, <1>3, <1>4, AskingSound, TerminalStep DEF WorkInv, PeopleTyped
<1>6. QED
  BY <1>4, <1>5 DEF project, WorkInv, FilesTyped, PeopleTyped, Alive, AppliedAsShown

LEMMA SameStepReflexive ==
    ASSUME NEW s \in Steps
    PROVE  SameStep(s, s)
<1>1. [s EXCEPT !.model = s.model] = s
  BY DEF Steps
<1>2. QED
  BY <1>1 DEF SameStep

\* Yes in a terminal: the plan that was shown.
LEMMA ConfirmKeeps ==
    ASSUME WorkInv, NEW t \in Terminals, Confirm(t)
    PROVE  WorkInv'
<1> DEFINE a == terminal[t]
           e == Recorded(a.shown.plan, a.context, a.force, a.shown)
<1>1. /\ a.at = "confirm" /\ Execute(a.shown.plan, a.context, a.force, a.shown)
      /\ terminal' = [terminal EXCEPT ![t] = Idle]
      /\ UNCHANGED <<server, admin, edits>>
  BY DEF Confirm
<1>2. /\ a \in Waiting /\ a # Idle
      /\ a.context \in Contexts /\ a.force \in BOOLEAN /\ a.shown \in Shown
      /\ a.shown.plan \in Seq(Steps)
  <2>1. Idle.at # "confirm"
    BY DEF Idle
  <2>2. a \in {Idle} \cup Waiting
    BY DEF WorkInv, PeopleTyped
  <2>3. a \in Waiting /\ a # Idle
    BY <1>1, <2>1, <2>2
  <2> HIDE DEF a
  <2>4. QED
    BY <2>3 DEF Waiting, Shown
<1>3. Asked(a)
  BY <1>2 DEF WorkInv, Sincere
<1>4. terminal' \in [Terminals -> {Idle} \cup Waiting] /\ Sincere'
  BY <1>1, TerminalStep DEF WorkInv, PeopleTyped
<1> HIDE DEF a
<1>5. /\ FilesTyped' /\ applied' \in Seq(Entry) /\ applied' = Append(applied, e)
      /\ Review(a.shown.plan, schema, PiiFields(a.context)).risk < Critical
      /\ Review(a.shown.plan, schema, PiiFields(a.context)).risk = PlanRisk(a.shown.plan)
      /\ (\E s \in Range(a.shown.plan) : Destructive(s)) => a.force
  BY <1>1, <1>2, ExecuteWrites DEF WorkInv, PeopleTyped
<1>6. Confirmed(e)
  <2>1. /\ e.plan = a.shown.plan /\ e.shown = a.shown /\ e.force = a.force
        /\ e.risk = PlanRisk(a.shown.plan) /\ e.risk < Critical
    BY <1>5 DEF Recorded
  <2>2. e.risk <= e.shown.risk
    BY <1>2, <1>3, <2>1, PlanRiskLevel DEF Asked, Levels, Low, Critical
  <2>3. \A i \in DOMAIN e.plan : SameStep(e.plan[i], e.shown.plan[i])
    <3>1. \A i \in DOMAIN a.shown.plan : a.shown.plan[i] \in Steps
      BY <1>2
    <3>2. QED
      BY <2>1, <3>1, SameStepReflexive
  <2>4. QED
    BY <1>5, <2>1, <2>2, <2>3 DEF Confirmed
<1>7. AppliedAsShown'
  <2>1. e \in Entry
    BY <1>2, <1>5, PlanRiskLevel DEF Recorded, Entry
  <2>2. QED
    BY <1>5, <1>6, <2>1, RecordGrows DEF WorkInv, PeopleTyped
<1>8. QED
  BY <1>1, <1>4, <1>5, <1>7 DEF WorkInv, PeopleTyped, Alive

LEMMA LeaveKeeps ==
    ASSUME WorkInv, NEW t \in Terminals, Leave(t)
    PROVE  WorkInv'
<1>1. /\ terminal' = [terminal EXCEPT ![t] = Idle]
      /\ UNCHANGED <<project, server, admin, applied, edits>>
  BY DEF Leave
<1>2. terminal' \in [Terminals -> {Idle} \cup Waiting] /\ Sincere'
  BY <1>1, TerminalStep DEF WorkInv, PeopleTyped
<1>3. QED
  BY <1>1, <1>2 DEF project, WorkInv, FilesTyped, PeopleTyped, Alive, AppliedAsShown

LEMMA FilesKeep ==
    ASSUME WorkInv, DumpSchema \/ EditContext
    PROVE  WorkInv'
<1>1. UNCHANGED <<day, code, referenced, saved, server, terminal, admin, applied>>
  BY DEF DumpSchema, EditContext
<1>2. FilesTyped'
  <2>1. CASE DumpSchema
    BY <2>1, DumpType DEF DumpSchema, WorkInv, FilesTyped
  <2>2. CASE EditContext
    <3>1. context' \in Contexts \cup {Garbled}
      BY <2>2, DaysAssumption DEF EditContext, WorkInv, FilesTyped
    <3>2. edits' \in 0..MaxSettings
      BY <2>2, BoundsAssumption DEF EditContext, WorkInv, FilesTyped
    <3>3. schema' = schema
      BY <2>2 DEF EditContext
    <3>4. QED
      BY <1>1, <3>1, <3>2, <3>3 DEF WorkInv, FilesTyped
  <2>3. QED
    BY <2>1, <2>2
<1>3. QED
  BY <1>1, <1>2 DEF WorkInv, PeopleTyped, Alive, Sincere, AppliedAsShown

LEMMA StartKeeps ==
    ASSUME WorkInv, Start
    PROVE  WorkInv'
<1>1. /\ ~server.up
      /\ server' = [up |-> TRUE, compiled |-> Dump(code), cache |-> Unread, context |-> Unread]
      /\ UNCHANGED <<project, terminal, admin, applied, edits>>
  BY DEF Start
<1>2. server' \in Servers
  BY <1>1, DumpType DEF WorkInv, FilesTyped, Servers
<1>3. Alive'
  BY <1>1 DEF WorkInv, Alive
<1>4. QED
  BY <1>1, <1>2, <1>3 DEF project, WorkInv, FilesTyped, PeopleTyped, Sincere, AppliedAsShown

\* What stays in a browser.
Left(b) ==
    CASE b.at = "planned" -> [b.page EXCEPT !.at = "page"]
      [] b.at = "reading" -> Idle
      [] OTHER -> b

LEMMA LeftType ==
    ASSUME NEW b \in Browsing
    PROVE  /\ Left(b) \in {Idle} \cup Pages
           /\ Left(b).at \in {"idle", "page"}
           /\ (b.at = "page" => Offered(b)) /\ (b.at = "planned" => Offered(b.page)) =>
                (Left(b).at = "page" => Offered(Left(b)))
<1>1. Idle.at = "idle"
  BY DEF Idle
<1>2. CASE b = Idle
  BY <1>1, <1>2 DEF Left
<1>3. CASE b \in Pages
  BY <1>3 DEF Left, Pages
<1>4. CASE b \in Requests
  <2>1. b.at = "planned" /\ b.page \in Pages
    BY <1>4 DEF Requests
  <2>2. [b.page EXCEPT !.at = "page"] = b.page /\ b.page.at = "page"
    BY <2>1 DEF Pages
  <2>3. QED
    BY <2>1, <2>2 DEF Left
<1>5. CASE b \in Readings
  <2>1. b.at = "reading"
    BY <1>5 DEF Readings
  <2>2. QED
    BY <1>1, <2>1 DEF Left
<1>6. QED
  BY <1>2, <1>3, <1>4, <1>5 DEF Browsing

LEMMA StopKeeps ==
    ASSUME WorkInv, Stop
    PROVE  WorkInv'
<1>1. /\ server' = Down /\ UNCHANGED <<project, terminal, applied, edits>>
      /\ admin' = [a \in Admins |-> Left(admin[a])]
  BY DEF Stop, Left
<1>2. \A a \in Admins : admin[a] \in Browsing
  BY DEF WorkInv, PeopleTyped, Browsing
<1>3. admin' \in [Admins -> {Idle} \cup Pages]
  BY <1>1, <1>2, LeftType
<1>4. Alive'
  BY <1>1, <1>2, LeftType DEF Alive
<1>5. Sincere'
  <2>1. ASSUME NEW a \in Admins
        PROVE  /\ admin'[a].at = "page" => Offered(admin'[a])
               /\ admin'[a].at # "planned"
    BY <1>1, <1>2, LeftType DEF WorkInv, Sincere
  <2>2. QED
    BY <1>1, <2>1 DEF WorkInv, Sincere
<1>6. QED
  BY <1>1, <1>3, <1>4, <1>5 DEF project, WorkInv, FilesTyped, PeopleTyped, AppliedAsShown

\* What a page offers.
LEMMA OfferSound ==
    ASSUME WorkInv, NEW srv, srv.context \in Contexts, NEW g \in Suggestions,
           NEW h \in FindSuggestion(srv, g), NEW plan \in RunPlanner(srv, h),
           Review(plan, schema, PiiFields(srv.context)).risk < Critical
    PROVE  LET p == [at |-> "page", suggestion |-> g, shown |-> Seen(plan, srv.context)]
           IN p \in Pages /\ Offered(p)
<1>1. Answers(plan, g)
  BY PlannedAnswers
<1>2. plan \in Seq(Steps) /\ Range(plan) = {plan[1]} /\ plan[1] \in Steps
      /\ plan[1].op = "add_field" /\ PlanRisk(plan) = Low
  BY <1>1, AnswerIsMild
<1> DEFINE v == Seen(plan, srv.context)
           p == [at |-> "page", suggestion |-> g, shown |-> v]
<1>3. /\ v \in Shown /\ v.plan = plan
      /\ v.risk = Review(plan, schema, PiiFields(srv.context)).risk
      /\ v.risk \in {Critical, PlanRisk(plan)}
      /\ v.warnings = Warnings(plan, PiiFields(srv.context), RequiredFields(srv.context))
  BY <1>2, SeenType
<1>4. v.risk = Low
  BY <1>2, <1>3 DEF Critical
<1>5. v.warnings = {}
  <2>1. StepWarnings(plan[1], PiiFields(srv.context), RequiredFields(srv.context)) = {}
    BY <1>2, Warns
  <2>2. QED
    BY <1>2, <1>3, <2>1 DEF Warnings
<1> HIDE DEF v
<1>6. p \in Pages /\ p.shown = v /\ p.suggestion = g
  BY <1>3 DEF Pages
<1>7. Offered(p)
  BY <1>1, <1>3, <1>4, <1>5, <1>6 DEF Offered
<1>8. QED
  BY <1>6, <1>7 DEF v

LEMMA OpenReviewKeeps ==
    ASSUME WorkInv, NEW a \in Admins, NEW g \in Suggestions, OpenReview(a, g)
    PROVE  WorkInv'
<1>1. server.up /\ server' = Loaded /\ UNCHANGED <<project, terminal, applied, edits>>
  BY DEF OpenReview
<1>2. /\ server' \in Servers /\ server'.up /\ server'.context \in Contexts
      /\ Loaded.context \in Contexts
  BY <1>1, LoadedType DEF WorkInv, PeopleTyped
<1>0. PICK plan \in UNION {RunPlanner(Loaded, x) : x \in FindSuggestion(Loaded, g)} :
          /\ Review(plan, schema, PiiFields(Loaded.context)).risk < Critical
          /\ admin' = [admin EXCEPT ![a] =
                [at |-> "page", suggestion |-> g, shown |-> Seen(plan, Loaded.context)]]
  BY DEF OpenReview
<1>3. PICK h \in FindSuggestion(Loaded, g) : plan \in RunPlanner(Loaded, h)
  OBVIOUS
<1> DEFINE p == [at |-> "page", suggestion |-> g, shown |-> Seen(plan, Loaded.context)]
<1>4. p \in Pages /\ Offered(p) /\ p.at = "page"
  BY <1>0, <1>2, <1>3, OfferSound
<1>5. admin' = [admin EXCEPT ![a] = p]
  BY <1>0
<1> HIDE DEF p
<1>6. admin' \in [Admins -> Browsing] /\ Sincere' /\ Alive'
  BY <1>1, <1>2, <1>4, <1>5, BrowserStep DEF WorkInv, PeopleTyped, Browsing
<1>7. QED
  BY <1>1, <1>2, <1>6 DEF project, WorkInv, FilesTyped, PeopleTyped, AppliedAsShown, Browsing

LEMMA PostApplyKeeps ==
    ASSUME WorkInv, NEW a \in Admins, PostApply(a)
    PROVE  WorkInv'
<1> DEFINE p == admin[a]
<1>1. /\ server.up /\ server' = Loaded /\ p.at = "page"
      /\ UNCHANGED <<project, terminal, applied, edits>>
  BY DEF PostApply
<1>2. /\ server' \in Servers /\ server'.up /\ server'.context \in Contexts
      /\ Loaded.context \in Contexts
  BY <1>1, LoadedType DEF WorkInv, PeopleTyped
<1>3. p \in Pages /\ Offered(p) /\ p.suggestion \in Suggestions
  <2>1. p \in Browsing /\ (p.at = "page" => Offered(p))
    BY DEF WorkInv, PeopleTyped, Sincere, Browsing
  <2> HIDE DEF p
  <2>2. p \in Pages
    BY <1>1, <2>1 DEF Browsing, Idle, Requests, Readings
  <2>3. QED
    BY <1>1, <2>1, <2>2 DEF Pages
<1>0. PICK plan \in UNION {RunPlanner(Loaded, x) : x \in FindSuggestion(Loaded, p.suggestion)} :
          admin' = [admin EXCEPT ![a] = [at |-> "planned", plan |-> plan, page |-> @]]
  BY DEF PostApply
<1>4. PICK h \in FindSuggestion(Loaded, p.suggestion) : plan \in RunPlanner(Loaded, h)
  OBVIOUS
<1>5. Answers(plan, p.suggestion) /\ plan \in Seq(Steps)
  BY <1>2, <1>3, <1>4, PlannedAnswers, AnswerIsMild
<1> DEFINE r == [at |-> "planned", plan |-> plan, page |-> p]
<1>6. admin' = [admin EXCEPT ![a] = r]
  BY <1>0
<1>7. r \in Requests /\ r.at = "planned" /\ r.plan = plan /\ r.page = p
  BY <1>3, <1>5 DEF Requests
<1> HIDE DEF p, r
<1>8. admin' \in [Admins -> Browsing] /\ Sincere' /\ Alive'
  BY <1>1, <1>2, <1>3, <1>5, <1>6, <1>7, BrowserStep DEF WorkInv, PeopleTyped, Browsing
<1>9. QED
  BY <1>1, <1>2, <1>8 DEF project, WorkInv, FilesTyped, PeopleTyped, AppliedAsShown, Browsing

\* A request under way.
LEMMA RequestSound ==
    ASSUME WorkInv, NEW a \in Admins, admin[a].at = "planned"
    PROVE  /\ admin[a] \in Requests
           /\ admin[a].page \in Pages /\ admin[a].page.shown \in Shown
           /\ admin[a].page.suggestion \in Suggestions /\ admin[a].plan \in Seq(Steps)
           /\ Offered(admin[a].page) /\ Answers(admin[a].plan, admin[a].page.suggestion)
           /\ server \in Servers /\ server.up /\ server.context \in Contexts
<1>1. admin[a] \in Browsing /\ server \in {Down} \cup Servers
      /\ Offered(admin[a].page) /\ Answers(admin[a].plan, admin[a].page.suggestion)
      /\ server.up /\ server.context \in Contexts
  BY DEF WorkInv, PeopleTyped, Browsing, Sincere, Alive
<1>2. admin[a] \in Requests
  BY <1>1 DEF Browsing, Idle, Pages, Readings
<1>3. server \in Servers
  BY <1>1 DEF Down
<1>4. admin[a].page \in Pages /\ admin[a].plan \in Seq(Steps)
  BY <1>2 DEF Requests
<1>5. QED
  BY <1>1, <1>2, <1>3, <1>4 DEF Pages

\* Yes in a browser: the plan that answers the suggestion now.
LEMMA FinishApplyKeeps ==
    ASSUME WorkInv, NEW a \in Admins, FinishApply(a)
    PROVE  WorkInv'
<1> DEFINE plan == admin[a].plan
           p == admin[a].page
           c == server.context
           e == Recorded(plan, c, FALSE, p.shown)
<1>1. /\ Execute(plan, c, FALSE, p.shown) /\ admin[a].at = "planned"
      /\ server' = [server EXCEPT !.cache = schema]
      /\ admin' = [admin EXCEPT ![a] = Idle]
      /\ UNCHANGED <<terminal, edits>>
  BY DEF FinishApply
<1>2. /\ p \in Pages /\ p.shown \in Shown /\ p.suggestion \in Suggestions /\ plan \in Seq(Steps)
      /\ Offered(p) /\ Answers(plan, p.suggestion)
      /\ server \in Servers /\ server.up /\ c \in Contexts
  BY <1>1, RequestSound
<1> HIDE DEF plan, p, c
<1>3. /\ FilesTyped' /\ applied' \in Seq(Entry) /\ applied' = Append(applied, e)
      /\ Review(plan, schema, PiiFields(c)).risk < Critical
      /\ Review(plan, schema, PiiFields(c)).risk = PlanRisk(plan)
  BY <1>1, <1>2, ExecuteWrites DEF WorkInv, PeopleTyped
<1>4. server' \in Servers /\ server'.up /\ server'.context = c
  <2>1. schema \in Shapes \cup {Missing}
    BY DEF WorkInv, FilesTyped
  <2>2. QED
    BY <1>1, <1>2, <2>1 DEF Servers, c
<1>5. admin' \in [Admins -> Browsing] /\ Sincere' /\ Alive'
  <2>1. Idle.at = "idle"
    BY DEF Idle
  <2>2. QED
    BY <1>1, <1>2, <1>4, <2>1, BrowserStep DEF WorkInv, PeopleTyped, Browsing
<1>6. Confirmed(e)
  <2>1. e.plan = plan /\ e.shown = p.shown /\ e.risk = PlanRisk(plan) /\ e.risk < Critical
    BY <1>3 DEF Recorded
  <2>2. Answers(p.shown.plan, p.suggestion) /\ p.shown.risk = Low
    BY <1>2 DEF Offered
  <2>3. /\ Len(plan) = 1 /\ DOMAIN plan = {1} /\ Range(plan) = {plan[1]}
        /\ plan[1].op = "add_field" /\ PlanRisk(plan) = Low
        /\ Len(p.shown.plan) = 1
    BY <1>2, <2>2, AnswerIsMild
  <2>4. SameStep(plan[1], p.shown.plan[1])
    BY <1>2, <2>2, AnswersAgree
  <2>5. ~\E s \in Range(plan) : Destructive(s)
    BY <2>3 DEF Destructive
  <2>6. e.risk <= e.shown.risk
    <3>1. e.risk = Low /\ e.shown.risk = Low
      BY <2>1, <2>2, <2>3
    <3>2. Low <= Low
      BY DEF Low
    <3>3. QED
      BY <3>1, <3>2
  <2>7. QED
    BY <2>1, <2>3, <2>4, <2>5, <2>6 DEF Confirmed
<1>7. AppliedAsShown'
  <2>1. e \in Entry
    BY <1>2, <1>3, PlanRiskLevel DEF Recorded, Entry
  <2>2. QED
    BY <1>3, <1>6, <2>1, RecordGrows DEF WorkInv, PeopleTyped
<1>8. QED
  BY <1>1, <1>3, <1>4, <1>5, <1>7 DEF WorkInv, PeopleTyped, Browsing

LEMMA RefuseApplyKeeps ==
    ASSUME WorkInv, NEW a \in Admins, RefuseApply(a)
    PROVE  WorkInv'
<1>1. admin' = [admin EXCEPT ![a] = Idle] /\ UNCHANGED <<project, server, terminal, applied, edits>>
  BY DEF RefuseApply
<1>2. Idle.at = "idle"
  BY DEF Idle
<1>3. admin' \in [Admins -> Browsing] /\ Sincere' /\ Alive'
  BY <1>1, <1>2, BrowserStep DEF WorkInv, PeopleTyped, Browsing
<1>4. QED
  BY <1>1, <1>3 DEF project, WorkInv, FilesTyped, PeopleTyped, AppliedAsShown, Browsing

LEMMA ReadSchemaKeeps ==
    ASSUME WorkInv, NEW a \in Admins, ReadSchema(a)
    PROVE  WorkInv'
<1>1. /\ server.up /\ schema # Missing
      /\ admin' = [admin EXCEPT ![a] = [at |-> "reading", shape |-> schema]]
      /\ UNCHANGED <<project, server, terminal, applied, edits>>
  BY DEF ReadSchema
<1>2. [at |-> "reading", shape |-> schema] \in Readings
  BY <1>1 DEF WorkInv, FilesTyped, Readings
<1>3. admin' \in [Admins -> Browsing] /\ Sincere' /\ Alive'
  BY <1>1, <1>2, BrowserStep DEF WorkInv, PeopleTyped, Browsing
<1>4. QED
  BY <1>1, <1>3 DEF project, WorkInv, FilesTyped, PeopleTyped, AppliedAsShown, Browsing

LEMMA StoreSchemaKeeps ==
    ASSUME WorkInv, NEW a \in Admins, StoreSchema(a)
    PROVE  WorkInv'
<1>1. /\ admin[a].at = "reading" /\ admin' = [admin EXCEPT ![a] = Idle]
      /\ server' = [Loaded EXCEPT !.context = server.context, !.cache = admin[a].shape]
      /\ UNCHANGED <<project, terminal, applied, edits>>
  BY DEF StoreSchema
<1>2. server.up
  BY <1>1 DEF WorkInv, Alive
<1>3. admin[a].shape \in Shapes
  <2>1. admin[a] \in Browsing
    BY DEF WorkInv, PeopleTyped, Browsing
  <2>2. QED
    BY <1>1, <2>1 DEF Browsing, Idle, Pages, Requests, Readings
<1>4. server \in Servers /\ Loaded \in Servers
  BY <1>2, LoadedType DEF WorkInv, PeopleTyped
<1>5. server' \in Servers /\ server'.up /\ server'.context = server.context
  BY <1>1, <1>3, <1>4 DEF Servers
<1>6. admin' \in [Admins -> Browsing] /\ Sincere' /\ Alive'
  <2>1. Idle.at = "idle"
    BY DEF Idle
  <2>2. QED
    BY <1>1, <1>5, <2>1, BrowserStep DEF WorkInv, PeopleTyped, Browsing
<1>7. QED
  BY <1>1, <1>5, <1>6 DEF project, WorkInv, FilesTyped, PeopleTyped, AppliedAsShown, Browsing

LEMMA SuggestionType ==
    ASSUME NEW m \in Models, NEW n \in Names
    PROVE  [slug |-> Slug[m], field |-> n] \in Suggestions
BY NamingAssumption DEF Suggestions

LEMMA WorkKeeps ==
    ASSUME WorkInv, Next
    PROVE  WorkInv'
<1>0. day.terminals \subseteq Terminals /\ day.admins \subseteq Admins
  BY DaysAssumption DEF WorkInv, FilesTyped
<1>1. ASSUME NEW t \in Terminals, InTerminal(t) PROVE WorkInv'
  BY <1>1, AiApplyKeeps, AiPlanKeeps, ChangeKeeps, ConfirmKeeps, LeaveKeeps DEF InTerminal
<1>2. ASSUME NEW a \in Admins, InBrowser(a) PROVE WorkInv'
  <2>1. CASE \E m \in Models, n \in Names : OpenReview(a, [slug |-> Slug[m], field |-> n])
    BY <2>1, SuggestionType, OpenReviewKeeps
  <2>2. QED
    BY <1>2, <2>1, PostApplyKeeps, FinishApplyKeeps, RefuseApplyKeeps, ReadSchemaKeeps,
       StoreSchemaKeeps DEF InBrowser
<1>3. QED
  BY <1>0, <1>1, <1>2, FilesKeep, StartKeeps, StopKeeps DEF Next

\* Without a step, too.
LEMMA WorkStutters ==
    ASSUME WorkInv, UNCHANGED vars
    PROVE  WorkInv'
BY DEF vars, WorkInv, FilesTyped, PeopleTyped, Alive, Sincere, AppliedAsShown

\* Who may write a plan, and what they have seen of it.
LEMMA Writers ==
    ASSUME WorkInv, Next, ~UNCHANGED <<applied, code>>
    PROVE  \E plan \in Seq(Steps), c \in Contexts, force \in BOOLEAN, shown \in Shown :
               /\ Execute(plan, c, force, shown)
               /\ \/ shown.plan = plan
                     /\ shown.warnings = Warnings(plan, PiiFields(c), RequiredFields(c))
                  \/ shown.warnings = {} /\ Len(plan) = 1 /\ plan[1].op = "add_field"
<1>0. day.terminals \subseteq Terminals /\ day.admins \subseteq Admins
  BY DaysAssumption DEF WorkInv, FilesTyped
<1>1. CASE \E t \in Terminals : Confirm(t)
  <2>1. PICK t \in Terminals : Confirm(t)
    BY <1>1
  <2> DEFINE a == terminal[t]
  <2>2. a.at = "confirm" /\ Execute(a.shown.plan, a.context, a.force, a.shown)
    BY <2>1 DEF Confirm
  <2>3. a \in {Idle} \cup Waiting /\ (a # Idle => Asked(a))
    BY DEF WorkInv, PeopleTyped, Sincere
  <2> HIDE DEF a
  <2>4. a \in Waiting /\ Asked(a)
    BY <2>2, <2>3 DEF Idle
  <2>5. /\ a.shown \in Shown /\ a.context \in Contexts /\ a.force \in BOOLEAN
        /\ a.shown.plan \in Seq(Steps)
    BY <2>4 DEF Waiting, Shown
  <2>6. QED
    BY <2>2, <2>4, <2>5 DEF Asked
<1>2. CASE \E a \in Admins : FinishApply(a)
  <2>1. PICK a \in Admins : FinishApply(a)
    BY <1>2
  <2>2. /\ admin[a].at = "planned"
        /\ Execute(admin[a].plan, server.context, FALSE, admin[a].page.shown)
    BY <2>1 DEF FinishApply
  <2>3. /\ admin[a].page.shown \in Shown /\ admin[a].plan \in Seq(Steps)
        /\ admin[a].page.suggestion \in Suggestions
        /\ Offered(admin[a].page) /\ Answers(admin[a].plan, admin[a].page.suggestion)
        /\ server.context \in Contexts
    BY <2>2, RequestSound
  <2>4. /\ admin[a].page.shown.warnings = {} /\ Len(admin[a].plan) = 1
        /\ admin[a].plan[1].op = "add_field"
    BY <2>3, AnswerIsMild DEF Offered
  <2>5. QED
    BY <2>2, <2>3, <2>4
<1>3. (\E t \in Terminals : Confirm(t)) \/ (\E a \in Admins : FinishApply(a))
  <2>1. ASSUME NEW t \in Terminals, InTerminal(t) PROVE Confirm(t)
    BY <2>1 DEF InTerminal, AiApply, AiPlan, Change, Leave, project
  <2>2. ASSUME NEW a \in Admins, InBrowser(a) PROVE FinishApply(a)
    BY <2>2 DEF InBrowser, OpenReview, PostApply, RefuseApply, ReadSchema, StoreSchema, project
  <2>3. ~(DumpSchema \/ EditContext \/ Start \/ Stop)
    BY DEF DumpSchema, EditContext, Start, Stop, project
  <2>4. QED
    BY <1>0, <2>1, <2>2, <2>3 DEF Next
<1>4. QED
  BY <1>1, <1>2, <1>3

\* A plan that is written, by whom it may be.
LEMMA WrittenKeeps ==
    ASSUME WorkInv, Next, applied' # applied
    PROVE  KeepsPii(Last(applied')) /\ Warned(Last(applied'))
<1>1. PICK plan \in Seq(Steps), c \in Contexts, force \in BOOLEAN, shown \in Shown :
          /\ Execute(plan, c, force, shown)
          /\ \/ shown.plan = plan
                /\ shown.warnings = Warnings(plan, PiiFields(c), RequiredFields(c))
             \/ shown.warnings = {} /\ Len(plan) = 1 /\ plan[1].op = "add_field"
  BY Writers
<1> DEFINE e == Recorded(plan, c, force, shown)
<1>2. /\ applied' \in Seq(Entry) /\ applied' = Append(applied, e)
      /\ Review(plan, schema, PiiFields(c)).risk = PlanRisk(plan)
      /\ \A s \in Range(plan) : ~TouchesPii(s, PiiFields(c))
  BY <1>1, ExecuteWrites DEF WorkInv, PeopleTyped
<1>3. Last(applied') = e
  <2>1. e \in Entry
    BY <1>2, PlanRiskLevel DEF Recorded, Entry
  <2>2. QED
    BY <1>2, <2>1, OneMore DEF WorkInv, PeopleTyped
<1>4. e.plan = plan /\ e.context = c /\ e.force = force /\ e.shown = shown
  BY DEF Recorded
<1>5. Careful(e)
  <2>1. ASSUME NEW s \in Range(plan)
        PROVE  StepWarnings(s, PiiFields(c), RequiredFields(c)) \subseteq shown.warnings
    <3>1. CASE shown.warnings = Warnings(plan, PiiFields(c), RequiredFields(c))
      BY <3>1 DEF Warnings
    <3>2. CASE Len(plan) = 1 /\ plan[1].op = "add_field"
      <4>1. s = plan[1] /\ s \in Steps
        BY <3>2 DEF Range
      <4>2. QED
        BY <3>2, <4>1, Warns
    <3>3. QED
      BY <1>1, <3>1, <3>2
  <2>2. QED
    BY <1>2, <1>4, <2>1 DEF Careful
<1>6. NoAlarm(e)
  <2>1. CASE shown.warnings = {}
    BY <1>4, <2>1 DEF NoAlarm
  <2>2. CASE shown.warnings = Warnings(plan, PiiFields(c), RequiredFields(c))
    <3>1. ASSUME NEW s \in Range(plan)
          PROVE  Alarm \notin StepWarnings(s, PiiFields(c), RequiredFields(c))
      <4>1. s \in Steps /\ ~TouchesPii(s, PiiFields(c))
        BY <1>2 DEF Range
      <4>2. QED
        BY <4>1, Warns DEF Alarm
    <3>2. QED
      BY <1>4, <2>2, <3>1 DEF NoAlarm, Warnings
  <2>3. QED
    BY <1>1, <2>1, <2>2
<1>7. PICK d \in PlanExecution(plan, c, force) : code' = d.source
  BY <1>1 DEF Execute
<1>8. Begin \in Dry /\ code \in Shapes /\ schema \in Shapes
  <2>1. schema # Missing
    BY <1>7, Executed
  <2>2. QED
    BY <2>1, BeginType DEF WorkInv, FilesTyped
<1> HIDE DEF e
<1>9. QED
  BY <1>3, <1>4, <1>5, <1>6, <1>7, <1>8, PlanKeeps

-----------------------------------------------------------------------------
(* The same step again. *)

Distinct(c) == \A m \in Models : OneOfEachName(c[m])

LEMMA EditsDistinct ==
    ASSUME NEW s \in Steps, NEW F \in SUBSET Fields, NEW G, Edits(s, F, G), OneOfEachName(F)
    PROVE  OneOfEachName(G)
<1>1. CASE s.op \in {"add_field", "add_relation"}
  <2>1. Added(s).name \notin NamesOf(F) /\ G = F \cup {Added(s)}
    BY <1>1 DEF Edits
  <2>2. QED
    BY <2>1 DEF OneOfEachName, NamesOf
<1>2. CASE s.op = "rename_field"
  <2>1. s.to \notin NamesOf(F) /\ G = Renaming(F, s.name, s.to)
    BY <1>2 DEF Edits
  <2>2. ASSUME NEW g \in G
        PROVE  \E f \in F : \/ f.name # s.name /\ g = f
                            \/ f.name = s.name /\ g = [f EXCEPT !.name = s.to] /\ g.name = s.to
    <3>1. PICK f \in F : g = IF f.name = s.name THEN [f EXCEPT !.name = s.to] ELSE f
      BY <2>1 DEF Renaming, Edit
    <3>2. [f EXCEPT !.name = s.to].name = s.to
      BY DEF Fields
    <3>3. QED
      BY <3>1, <3>2
  <2>3. \A f \in F : f.name # s.to
    BY <2>1 DEF NamesOf
  <2>4. ASSUME NEW g \in G, NEW h \in G, g.name = h.name PROVE g = h
    <3>1. PICK f \in F : \/ f.name # s.name /\ g = f
                         \/ f.name = s.name /\ g = [f EXCEPT !.name = s.to] /\ g.name = s.to
      BY <2>2
    <3>2. PICK k \in F : \/ k.name # s.name /\ h = k
                         \/ k.name = s.name /\ h = [k EXCEPT !.name = s.to] /\ h.name = s.to
      BY <2>2
    <3>3. f.name = k.name => f = k
      BY DEF OneOfEachName
    <3>4. QED
      BY <2>3, <2>4, <3>1, <3>2, <3>3
  <2>5. QED
    BY <2>4 DEF OneOfEachName
<1>3. CASE s.op = "change_type"
  <2>1. PICK f \in F : f.name = s.name /\ G = (F \ {f}) \cup {[f EXCEPT !.ty = s.ty]}
    BY <1>3 DEF Edits
  <2>2. [f EXCEPT !.ty = s.ty].name = f.name
    BY DEF Fields
  <2>3. QED
    BY <2>1, <2>2 DEF OneOfEachName
<1>4. CASE s.op = "change_null"
  <2>1. PICK f \in F : f.name = s.name /\ G = (F \ {f}) \cup {[f EXCEPT !.null = s.null]}
    BY <1>4 DEF Edits
  <2>2. [f EXCEPT !.null = s.null].name = f.name
    BY DEF Fields
  <2>3. QED
    BY <2>1, <2>2 DEF OneOfEachName
<1>5. CASE s.op \in {"remove_field", "remove_relation"}
  BY <1>5 DEF Edits, OneOfEachName
<1>6. QED
  BY <1>1, <1>2, <1>3, <1>4, <1>5 DEF Edits

LEMMA MovesDistinct ==
    ASSUME NEW s \in Steps, NEW d \in Dry, NEW e \in Dry, Moves(s, d, e), Distinct(d.source)
    PROVE  Distinct(e.source)
<1>1. CASE s.op # "rename_model"
  <2>1. /\ Edits(s, d.source[s.model], e.source[s.model])
        /\ \A m \in Models \ {s.model} : e.source[m] = d.source[m]
    BY <1>1 DEF Moves
  <2>2. s.model \in Models
    BY <2>1, Kinds DEF Edits
  <2>3. OneOfEachName(e.source[s.model])
    BY <2>1, <2>2, EditsDistinct DEF Distinct, Dry, Shapes
  <2>4. QED
    BY <2>1, <2>3 DEF Distinct
<1>2. CASE s.op = "rename_model"
  <2>1. e.source = [d.source EXCEPT ![s.to] = d.source[s.model], ![s.model] = NoModel]
    BY <1>2 DEF Moves
  <2>2. s.model \in Models /\ s.to \in Models
    BY <1>2, Kinds
  <2>3. OneOfEachName(NoModel)
    BY DEF OneOfEachName, NoModel
  <2>4. QED
    BY <2>1, <2>2, <2>3 DEF Distinct, Dry, Shapes
<1>3. QED
  BY <1>1, <1>2

LEMMA ExecutedDistinct ==
    ASSUME NEW plan \in Seq(Steps), NEW c, NEW force \in BOOLEAN, Begin \in Dry, Distinct(code),
           NEW d \in PlanExecution(plan, c, force)
    PROVE  Distinct(d.source)
<1> DEFINE I == {y \in (0..Len(plan)) \X Dry \X Reviewed : Distinct(y[2].source)}
<1>1. Len(plan) \in Nat /\ schema \in Shapes
  BY DEF Dry, Begin
<1>2. AsSchema(schema) \in Reviewed
  BY <1>1 DEF AsSchema, Reviewed
<1>3. <<0, Begin, AsSchema(schema)>> \in I
  <2>1. Begin.source = code
    BY DEF Begin
  <2>2. QED
    BY <1>1, <1>2, <2>1
<1>4. ASSUME NEW n \in 0..Len(plan), NEW b \in Dry, NEW S \in Reviewed,
             n < Len(plan), <<n, b, S>> \in I,
             NEW x \in SimulateStep(plan[n + 1], b, force), NEW T \in Advance(plan[n + 1], S, TRUE)
      PROVE  <<n + 1, x, T>> \in I
  <2>1. plan[n + 1] \in Steps /\ n + 1 \in 0..Len(plan)
    BY <1>1, <1>4
  <2>2. x \in Dry /\ T \in Reviewed /\ Moves(plan[n + 1], b, x)
    BY <2>1, StepMoves, AdvanceVia
  <2>3. Distinct(b.source)
    BY <1>4
  <2>4. Distinct(x.source)
    BY <2>1, <2>2, <2>3, MovesDistinct
  <2>5. QED
    BY <2>1, <2>2, <2>4
<1> HIDE DEF I
<1>5. d \in DryRuns(plan, force) /\ Simulated(plan, schema, TRUE) # {}
  BY Executed
<1>6. PICK S \in Simulated(plan, schema, TRUE) : TRUE
  BY <1>5
<1>7. <<Len(plan), d, S>> \in I
  BY <1>1, <1>3, <1>4, <1>5, <1>6, PlanInduction
<1>8. QED
  BY <1>7 DEF I

\* What a step wants of the structs is there.
Done(s, c) ==
    /\ s.op \in {"add_field", "add_relation"} => Added(s).name \in NamesOf(c[s.model])
    /\ s.op \in {"rename_field", "remove_field", "remove_relation"} =>
            \A f \in c[s.model] : f.name # s.name
    /\ s.op = "change_type" => \A f \in c[s.model] : f.name = s.name => f.ty = s.ty
    /\ s.op = "change_null" => \A f \in c[s.model] : f.name = s.name => f.null = s.null
    /\ s.op = "rename_model" => c[s.model] = NoModel

LEMMA EditsDone ==
    ASSUME NEW s \in Steps, NEW F \in SUBSET Fields, NEW c, Edits(s, F, c[s.model]),
           OneOfEachName(F), s.op = "rename_field" => s.name # s.to, s.op # "rename_model"
    PROVE  Done(s, c)
<1> DEFINE G == c[s.model]
<1>1. CASE s.op \in {"add_field", "add_relation"}
  <2>1. G = F \cup {Added(s)}
    BY <1>1 DEF Edits
  <2>2. QED
    BY <1>1, <2>1 DEF Done, NamesOf
<1>2. CASE s.op = "rename_field"
  <2>1. G = Renaming(F, s.name, s.to)
    BY <1>2 DEF Edits
  <2>2. ASSUME NEW f \in F PROVE (IF f.name = s.name THEN [f EXCEPT !.name = s.to] ELSE f).name # s.name
    <3>1. [f EXCEPT !.name = s.to].name = s.to
      BY DEF Fields
    <3>2. QED
      BY <1>2, <3>1
  <2>3. \A g \in G : g.name # s.name
    BY <2>1, <2>2 DEF Renaming, Edit
  <2>4. QED
    BY <1>2, <2>3 DEF Done
<1>3. CASE s.op = "change_type"
  <2>1. PICK f \in F : f.name = s.name /\ G = (F \ {f}) \cup {[f EXCEPT !.ty = s.ty]}
    BY <1>3 DEF Edits
  <2>2. [f EXCEPT !.ty = s.ty].ty = s.ty
    BY DEF Fields
  <2>3. \A g \in F : g.name = s.name => g = f
    BY <2>1 DEF OneOfEachName
  <2>4. QED
    BY <1>3, <2>1, <2>2, <2>3 DEF Done
<1>4. CASE s.op = "change_null"
  <2>1. PICK f \in F : f.name = s.name /\ G = (F \ {f}) \cup {[f EXCEPT !.null = s.null]}
    BY <1>4 DEF Edits
  <2>2. [f EXCEPT !.null = s.null].null = s.null
    BY DEF Fields
  <2>3. \A g \in F : g.name = s.name => g = f
    BY <2>1 DEF OneOfEachName
  <2>4. QED
    BY <1>4, <2>1, <2>2, <2>3 DEF Done
<1>5. CASE s.op \in {"remove_field", "remove_relation"}
  <2>1. PICK f \in F : f.name = s.name /\ G = F \ {f}
    BY <1>5 DEF Edits
  <2>2. \A g \in F : g.name = s.name => g = f
    BY <2>1 DEF OneOfEachName
  <2>3. QED
    BY <1>5, <2>1, <2>2 DEF Done
<1>6. QED
  BY <1>1, <1>2, <1>3, <1>4, <1>5 DEF Edits

\* A plan of one step is done when it is written, and is refused from then on.
LEMMA OneStepDone ==
    ASSUME NEW s \in Steps, NEW c, NEW force \in BOOLEAN, Begin \in Dry,
           NEW d \in PlanExecution(<<s>>, c, force)
    PROVE  /\ Distinct(code) => Done(s, d.source)
           /\ ~Done(s, code)
<1>1. d \in DryRuns(<<s>>, force) /\ Simulated(<<s>>, schema, TRUE) # {}
  BY Executed
<1>2. schema \in Shapes
  BY DEF Begin, Dry
<1>3. d \in SimulateStep(s, Begin, force) /\ Advance(s, AsSchema(schema), TRUE) # {}
  BY <1>1, <1>2, OneSimulated, OneReviewed
<1>4. d \in Dry /\ Moves(s, Begin, d)
  BY <1>3, StepMoves
<1>5. WellFormed(s)
  BY <1>3 DEF Advance
<1>6. Begin.source = code /\ code \in Shapes
  BY DEF Begin, Dry
<1>7. CASE s.op # "rename_model"
  <2>1. Edits(s, code[s.model], d.source[s.model])
    BY <1>4, <1>6, <1>7 DEF Moves
  <2>2. s.model \in Models
    BY <2>1, Kinds DEF Edits
  <2>3. Distinct(code) => Done(s, d.source)
    BY <1>5, <1>6, <1>7, <2>1, <2>2, EditsDone DEF Distinct, WellFormed, Shapes
  <2>4. ~Done(s, code)
    BY <2>1 DEF Done, Edits, NamesOf
  <2>5. QED
    BY <2>3, <2>4
<1>8. CASE s.op = "rename_model"
  <2>1. d.source = [code EXCEPT ![s.to] = code[s.model], ![s.model] = NoModel]
    BY <1>4, <1>6, <1>8 DEF Moves
  <2>2. s.model \in Models /\ s.to \in Models
    BY <1>8, Kinds
  <2>3. d.source[s.model] = NoModel
    BY <1>6, <2>1, <2>2 DEF Shapes
  <2>4. code[s.model] # NoModel
    BY <1>4 DEF Moves, Located
  <2>5. QED
    BY <1>8, <2>3, <2>4 DEF Done
<1>9. QED
  BY <1>7, <1>8

\* Inductive, as long as no other command writes structs.
OnceInv ==
    /\ Distinct(code) /\ AppliedOnce
    /\ applied # <<>> /\ Len(Last(applied).plan) = 1 => Done(Last(applied).plan[1], code)

LEMMA OnceAgain ==
    ASSUME WorkInv, OnceInv, NEW plan \in Seq(Steps), NEW c \in Contexts, NEW force \in BOOLEAN,
           NEW shown \in Shown, Execute(plan, c, force, shown)
    PROVE  OnceInv'
<1> DEFINE e == Recorded(plan, c, force, shown)
<1>1. /\ applied' \in Seq(Entry) /\ applied' = Append(applied, e)
      /\ Review(plan, schema, PiiFields(c)).risk = PlanRisk(plan) /\ e.plan = plan
  BY ExecuteWrites DEF WorkInv, PeopleTyped, Recorded
<1>2. e \in Entry /\ applied \in Seq(Entry) /\ Len(applied) \in Nat
  BY <1>1, PlanRiskLevel DEF Recorded, Entry, WorkInv, PeopleTyped
<1>3. PICK d \in PlanExecution(plan, c, force) : code' = d.source
  BY DEF Execute
<1>4. Begin \in Dry
  <2>1. schema # Missing
    BY <1>3, Executed
  <2>2. QED
    BY <2>1, BeginType DEF WorkInv
<1>5. Distinct(code')
  BY <1>3, <1>4, ExecutedDistinct DEF OnceInv
<1>6. Len(plan) = 1 => plan[1] \in Steps /\ Done(plan[1], code') /\ ~Done(plan[1], code)
  <2>1. SUFFICES ASSUME Len(plan) = 1 PROVE plan[1] \in Steps /\ Done(plan[1], code') /\ ~Done(plan[1], code)
    OBVIOUS
  <2>2. plan[1] \in Steps /\ plan = <<plan[1]>>
    BY <2>1
  <2>3. QED
    BY <1>3, <1>4, <2>2, OneStepDone DEF OnceInv
<1>7. Last(applied') = e /\ applied' # <<>> /\ Len(applied') = Len(applied) + 1
  BY <1>1, <1>2, OneMore
<1>8. AppliedOnce'
  <2>1. SUFFICES ASSUME NEW i \in 1..(Len(applied') - 1), Len(applied'[i].plan) = 1
                 PROVE  applied'[i].plan # applied'[i + 1].plan
    BY DEF AppliedOnce
  <2> HIDE DEF e
  <2>2. CASE i < Len(applied)
    <3>1. /\ i \in 1..(Len(applied) - 1)
          /\ applied'[i] = applied[i] /\ applied'[i + 1] = applied[i + 1]
      BY <1>1, <1>2, <1>7, <2>2
    <3>2. QED
      BY <2>1, <3>1 DEF OnceInv, AppliedOnce
  <2>3. CASE i = Len(applied)
    <3>1. applied # <<>> /\ applied'[i] = Last(applied) /\ applied'[i + 1] = e
      BY <1>1, <1>2, <2>1, <2>3 DEF Last
    <3>2. Len(Last(applied).plan) = 1 /\ Done(Last(applied).plan[1], code)
      BY <2>1, <3>1 DEF OnceInv
    <3>3. Last(applied).plan # plan
      BY <1>6, <3>2
    <3>4. QED
      BY <1>1, <3>1, <3>3
  <2>4. QED
    BY <1>2, <1>7, <2>2, <2>3
<1> HIDE DEF e
<1>9. QED
  BY <1>1, <1>5, <1>6, <1>7, <1>8 DEF OnceInv, Distinct, Done

\* A plan of one step is not written twice in a row, whatever schema file, cache
\* or page is behind the code: a second POST, a second terminal, a retry
\* (plan_execution; apply_add_field and the patches look at the source).
THEOREM Once == Spec => []AppliedOnce
<1>1. Init => WorkInv /\ OnceInv
  <2>1. ASSUME Init PROVE Distinct(code) /\ applied = <<>>
    BY <2>1, DaysAssumption DEF Init, Distinct
  <2>2. QED
    BY <2>1, WorkingInit DEF OnceInv, AppliedOnce
<1>2. WorkInv /\ OnceInv /\ [Next]_vars => (WorkInv /\ OnceInv)'
  <2>1. ASSUME WorkInv, OnceInv, UNCHANGED <<applied, code>> PROVE OnceInv'
    BY <2>1 DEF OnceInv, AppliedOnce, Distinct, Done
  <2>2. ASSUME WorkInv, OnceInv, Next PROVE (WorkInv /\ OnceInv)'
    BY <2>1, <2>2, WorkKeeps, Writers, OnceAgain
  <2>3. ASSUME WorkInv, OnceInv, UNCHANGED vars PROVE (WorkInv /\ OnceInv)'
    BY <2>1, <2>3, WorkStutters DEF vars
  <2>4. QED
    BY <2>2, <2>3
<1>3. OnceInv => AppliedOnce
  BY DEF OnceInv
<1>4. QED
  BY <1>1, <1>2, <1>3, PTL DEF Spec

-----------------------------------------------------------------------------
(* The rest of the project. *)

Columns == [Tables -> SUBSET Names]

MigrationFiles ==
         [op : {"create"}, table : Tables, columns : SUBSET Names]
    \cup [op : {"alter"}, before : Columns, after : Columns, refused : BOOLEAN]

Sites ==
    [tree : Trees, dirs : SUBSET Apps, mods : SUBSET Apps, made : SUBSET Apps,
     clash : SUBSET {"struct", "table"}, adding : {<<>>} \cup {<<a>> : a \in Apps}, pending : Seq(MigrationFiles),
     db : {"none", "file", "core"}, tables : Columns, admins : 0..1]

\* What is registered, or about to be, has a directory.
Orderly(s) ==
    /\ s \in Sites /\ s.made \subseteq s.mods /\ s.mods \subseteq s.dirs
    /\ s.adding # <<>> => Head(s.adding) \in s.dirs

Place(p) ==
    /\ p = [site |-> p.site, code |-> p.code, schema |-> p.schema, up |-> p.up]
    /\ Orderly(p.site) /\ p.code \in Shapes /\ p.schema \in Shapes \cup {Missing}

\* apply_with, one file.
RunFile(r, m) ==
    IF r.pending # <<>> /\ Head(r.pending) = m /\ Accepted(m, r.tables)
    THEN [r EXCEPT !.tables = Effect(m, @), !.pending = Tail(@)] ELSE r

LEMMA EffectType ==
    ASSUME NEW m \in MigrationFiles, NEW t \in Columns
    PROVE  Effect(m, t) \in Columns
<1>1. CASE m \in [op : {"create"}, table : Tables, columns : SUBSET Names]
  BY <1>1 DEF Effect, Columns
<1>2. CASE m \in [op : {"alter"}, before : Columns, after : Columns, refused : BOOLEAN]
  <2>1. m.op = "alter" /\ m.before \in Columns /\ m.after \in Columns
    BY <1>2
  <2>2. Effect(m, t) = [u \in Tables |-> IF m.before[u] # m.after[u] THEN m.after[u] ELSE t[u]]
    BY <2>1 DEF Effect
  <2>3. QED
    BY <2>1, <2>2 DEF Columns
<1>3. QED
  BY <1>1, <1>2 DEF MigrationFiles

\* The databases that the first k migrations of a list lead through.
Leads(it, k, list, t) ==
    /\ it[0] = t
    /\ \A i \in 1..k : Accepted(list[i], it[i - 1]) /\ it[i] = Effect(list[i], it[i - 1])

\* From t the list leads to the goal, or to a migration that is refused there
\* and stops it.
LeadsTo(list, t, goal) ==
    \E k \in 0..Len(list) : \E it \in [0..k -> Columns] :
        /\ Leads(it, k, list, t)
        /\ IF k < Len(list) THEN ~Accepted(list[k + 1], it[k]) ELSE it[k] = goal

LEMMA LeadsToNone ==
    ASSUME NEW t \in Columns
    PROVE  LeadsTo(<<>>, t, t)
<1> DEFINE it == [i \in 0..0 |-> t]
<1>1. it \in [0..0 -> Columns] /\ it[0] = t
  OBVIOUS
<1>2. Leads(it, 0, <<>>, t)
  BY <1>1 DEF Leads
<1> HIDE DEF it
<1>3. Len(<<>>) = 0 /\ 0 \in 0..0
  OBVIOUS
<1>4. \E k \in 0..0 : \E g \in [0..k -> Columns] :
          Leads(g, k, <<>>, t) /\ (IF k < 0 THEN ~Accepted(<<>>[k + 1], g[k]) ELSE g[k] = t)
  BY <1>1, <1>2
<1>5. QED
  BY <1>3, <1>4 DEF LeadsTo

\* Nothing waits: the goal is reached.
LEMMA LedTo ==
    ASSUME NEW t, NEW goal, LeadsTo(<<>>, t, goal)
    PROVE  t = goal
<1>1. PICK k \in 0..0 : \E it \in [0..k -> Columns] :
          Leads(it, k, <<>>, t) /\ (IF k < 0 THEN ~Accepted(<<>>[k + 1], it[k]) ELSE it[k] = goal)
  BY DEF LeadsTo
<1>2. k = 0
  BY <1>1
<1>3. PICK it : it[0] = t /\ it[0] = goal
  BY <1>1, <1>2 DEF Leads
<1>4. QED
  BY <1>3

\* One more migration, which leads from the goal on if it is accepted there.
LEMMA LeadsToNext ==
    ASSUME NEW list \in Seq(MigrationFiles), NEW t \in Columns, NEW goal \in Columns,
           NEW next \in Columns, NEW m \in MigrationFiles, LeadsTo(list, t, goal),
           Accepted(m, goal) => Effect(m, goal) = next
    PROVE  LeadsTo(Append(list, m), t, next)
<1> DEFINE longer == Append(list, m)
<1>0. PICK k \in 0..Len(list) : \E it \in [0..k -> Columns] :
          /\ Leads(it, k, list, t)
          /\ IF k < Len(list) THEN ~Accepted(list[k + 1], it[k]) ELSE it[k] = goal
  BY DEF LeadsTo
<1>1. PICK it \in [0..k -> Columns] :
          /\ Leads(it, k, list, t)
          /\ IF k < Len(list) THEN ~Accepted(list[k + 1], it[k]) ELSE it[k] = goal
  BY <1>0
<1>2. /\ Len(list) \in Nat /\ Len(longer) = Len(list) + 1 /\ longer[Len(list) + 1] = m
      /\ \A i \in 1..Len(list) : longer[i] = list[i]
  OBVIOUS
<1> HIDE DEF longer
<1>3. \A i \in 1..k : longer[i] = list[i]
  BY <1>2
<1>4. CASE k < Len(list) \/ ~Accepted(m, goal)
  <2>1. k < Len(longer) /\ k \in 0..Len(longer)
    BY <1>2
  <2>2. Leads(it, k, longer, t)
    BY <1>1, <1>3 DEF Leads
  <2>3. ~Accepted(longer[k + 1], it[k])
    <3>1. CASE k < Len(list)
      BY <1>1, <1>2, <3>1
    <3>2. CASE k = Len(list)
      BY <1>1, <1>2, <1>4, <3>2
    <3>3. QED
      BY <1>2, <3>1, <3>2
  <2>4. LeadsTo(longer, t, next)
    BY <1>1, <2>1, <2>2, <2>3 DEF LeadsTo
  <2>5. QED
    BY <2>4 DEF longer
<1>5. CASE k = Len(list) /\ Accepted(m, goal)
  <2> DEFINE on == [i \in 0..(k + 1) |-> IF i <= k THEN it[i] ELSE next]
  <2>1. it[k] = goal
    BY <1>1, <1>2, <1>5
  <2>2. on \in [0..(k + 1) -> Columns]
    BY <1>1
  <2>3. on[0] = it[0] /\ on[k + 1] = next /\ \A i \in 0..k : on[i] = it[i]
    BY <1>1
  <2> HIDE DEF on
  <2>4. ASSUME NEW i \in 1..(k + 1)
        PROVE  Accepted(longer[i], on[i - 1]) /\ on[i] = Effect(longer[i], on[i - 1])
    <3>1. CASE i <= k
      <4>1. i \in 1..k /\ i \in 0..k /\ i - 1 \in 0..k
        BY <3>1
      <4>2. longer[i] = list[i] /\ on[i] = it[i] /\ on[i - 1] = it[i - 1]
        BY <1>3, <2>3, <4>1
      <4>3. QED
        BY <1>1, <4>1, <4>2 DEF Leads
    <3>2. CASE i = k + 1
      <4>1. longer[i] = m /\ on[i] = next /\ on[i - 1] = goal
        <5>1. k \in 0..k /\ i - 1 = k
          BY <3>2
        <5>2. QED
          BY <1>2, <1>5, <2>1, <2>3, <3>2, <5>1
      <4>2. QED
        BY <1>5, <4>1
    <3>3. QED
      BY <3>1, <3>2
  <2>5. Leads(on, k + 1, longer, t)
    BY <1>1, <2>3, <2>4 DEF Leads
  <2>6. k + 1 \in 0..Len(longer) /\ ~(k + 1 < Len(longer))
    BY <1>2, <1>5
  <2>7. LeadsTo(longer, t, next)
    BY <2>2, <2>3, <2>5, <2>6 DEF LeadsTo
  <2>8. QED
    BY <2>7 DEF longer
<1>6. QED
  BY <1>2, <1>4, <1>5

\* The first migration is applied: the rest leads on from there.
LEMMA LeadsToRest ==
    ASSUME NEW list \in Seq(MigrationFiles), NEW t \in Columns, NEW goal,
           LeadsTo(list, t, goal), list # <<>>, Accepted(Head(list), t)
    PROVE  LeadsTo(Tail(list), Effect(Head(list), t), goal)
<1> DEFINE rest == Tail(list)
<1>0. PICK k \in 0..Len(list) : \E it \in [0..k -> Columns] :
          /\ Leads(it, k, list, t)
          /\ IF k < Len(list) THEN ~Accepted(list[k + 1], it[k]) ELSE it[k] = goal
  BY DEF LeadsTo
<1>1. PICK it \in [0..k -> Columns] :
          /\ Leads(it, k, list, t)
          /\ IF k < Len(list) THEN ~Accepted(list[k + 1], it[k]) ELSE it[k] = goal
  BY <1>0
<1>2. /\ Len(list) \in Nat /\ Len(list) > 0 /\ Len(rest) = Len(list) - 1
      /\ Head(list) = list[1] /\ \A i \in 1..Len(rest) : rest[i] = list[i + 1]
  OBVIOUS
<1> HIDE DEF rest
<1>3. k # 0
  BY <1>1, <1>2 DEF Leads
<1>4. it[1] = Effect(list[1], t)
  <2>1. 1 \in 1..k /\ it[0] = t /\ 1 - 1 = 0
    BY <1>1, <1>3 DEF Leads
  <2>2. it[1] = Effect(list[1], it[1 - 1])
    BY <1>1, <2>1 DEF Leads
  <2>3. QED
    BY <2>1, <2>2
<1> DEFINE on == [i \in 0..(k - 1) |-> it[i + 1]]
<1>5. k - 1 \in 0..Len(rest) /\ on \in [0..(k - 1) -> Columns]
  BY <1>1, <1>2, <1>3
<1>6. \A i \in 0..(k - 1) : on[i] = it[i + 1]
  OBVIOUS
<1> HIDE DEF on
<1>7. on[0] = it[1]
  BY <1>3, <1>6
<1>8. ASSUME NEW i \in 1..(k - 1)
      PROVE  Accepted(rest[i], on[i - 1]) /\ on[i] = Effect(rest[i], on[i - 1])
  <2>1. rest[i] = list[i + 1] /\ on[i] = it[i + 1] /\ on[i - 1] = it[i]
    BY <1>2, <1>6
  <2>2. i + 1 \in 1..k /\ i + 1 - 1 = i
    OBVIOUS
  <2>3. Accepted(list[i + 1], it[i + 1 - 1]) /\ it[i + 1] = Effect(list[i + 1], it[i + 1 - 1])
    BY <1>1, <2>2 DEF Leads
  <2>4. QED
    BY <2>1, <2>2, <2>3
<1>9. Leads(on, k - 1, rest, Effect(list[1], t))
  BY <1>4, <1>7, <1>8 DEF Leads
<1>10. IF k - 1 < Len(rest) THEN ~Accepted(rest[k - 1 + 1], on[k - 1]) ELSE on[k - 1] = goal
  <2>1. on[k - 1] = it[k]
    BY <1>3, <1>6
  <2>2. CASE k < Len(list)
    <3>1. k \in 1..Len(rest) /\ k - 1 + 1 = k
      BY <1>2, <1>3, <2>2
    <3>2. QED
      BY <1>1, <1>2, <2>1, <2>2, <3>1
  <2>3. CASE k = Len(list)
    BY <1>1, <1>2, <2>1, <2>3
  <2>4. QED
    BY <1>2, <2>2, <2>3
<1>11. LeadsTo(rest, Effect(list[1], t), goal)
  BY <1>5, <1>9, <1>10 DEF LeadsTo
<1>12. QED
  BY <1>2, <1>11 DEF rest

\* A migration waits that is never accepted.
Hopeless(list) == \E i \in DOMAIN list : list[i].op = "alter" /\ list[i].refused

\* The sites that migrations make of s; what leads somewhere still does, and what
\* is never accepted stays.
Migrated(s) ==
    {r \in Sites : /\ r.dirs = s.dirs /\ r.mods = s.mods /\ r.made = s.made
                   /\ r.adding = s.adding /\ r.tree = s.tree /\ r.clash = s.clash
                   /\ r.db = s.db /\ r.admins = s.admins
                   /\ Hopeless(s.pending) => Hopeless(r.pending)
                   /\ \A goal \in Columns : LeadsTo(s.pending, s.tables, goal) =>
                                                LeadsTo(r.pending, r.tables, goal)}

LEMMA RunFileType ==
    ASSUME NEW s, NEW r \in Migrated(s), NEW m \in MigrationFiles
    PROVE  RunFile(r, m) \in Migrated(s)
<1>1. CASE r.pending # <<>> /\ Head(r.pending) = m /\ Accepted(m, r.tables)
  <2>1. Effect(m, r.tables) \in Columns
    BY EffectType DEF Migrated, Sites
  <2>2. Tail(r.pending) \in Seq(MigrationFiles)
    BY <1>1 DEF Migrated, Sites
  <2> DEFINE t == Effect(m, r.tables)
             rest == Tail(r.pending)
             x == [r EXCEPT !.tables = t, !.pending = rest]
  <2>3. \A goal \in Columns : LeadsTo(r.pending, r.tables, goal) => LeadsTo(rest, t, goal)
    BY <1>1, LeadsToRest DEF Migrated, Sites
  <2>4. Hopeless(r.pending) => Hopeless(rest)
    <3>1. r.pending \in Seq(MigrationFiles)
      BY DEF Migrated, Sites
    <3>2. ASSUME NEW i \in DOMAIN r.pending, r.pending[i].op = "alter", r.pending[i].refused
          PROVE  i - 1 \in DOMAIN rest /\ rest[i - 1] = r.pending[i]
      <4>1. ~(m.op = "alter" /\ m.refused)
        BY <1>1, Zenon DEF Accepted
      <4>2. i # 1 /\ i \in 1..Len(r.pending)
        BY <1>1, <3>1, <3>2, <4>1
      <4>3. QED
        BY <3>1, <4>2
    <3>3. QED
      BY <3>2 DEF Hopeless
  <2> HIDE DEF t, rest
  <2>5. /\ x \in Sites /\ x.pending = rest /\ x.tables = t /\ x.dirs = r.dirs
        /\ x.mods = r.mods /\ x.made = r.made /\ x.adding = r.adding /\ x.tree = r.tree
        /\ x.clash = r.clash /\ x.db = r.db /\ x.admins = r.admins
    BY <2>1, <2>2 DEF Migrated, Sites, t, rest
  <2>6. RunFile(r, m) = x
    BY <1>1 DEF RunFile, t, rest
  <2> HIDE DEF x
  <2>7. x \in Migrated(s)
    BY <2>3, <2>4, <2>5 DEF Migrated
  <2>8. QED
    BY <2>6, <2>7
<1>2. CASE ~(r.pending # <<>> /\ Head(r.pending) = m /\ Accepted(m, r.tables))
  BY <1>2 DEF RunFile
<1>3. QED
  BY <1>1, <1>2

Running(s) == [x \in Migrated(s) \X MigrationFiles |-> RunFile(x[1], x[2])]

\* apply_with, one file after the other.
LEMMA RunFilesInTurn ==
    ASSUME NEW s \in Sites
    PROVE  \E h : /\ GoesOn(h, Migrated(s), Len(s.pending), s, Running(s), s.pending)
                  /\ RunFiles(s) = h[1..Len(s.pending)]
<1> DEFINE list == s.pending
           N == Len(list)
           Body(h) == [k \in SUBSET DOMAIN list |->
                         IF k = {} THEN s ELSE RunFile(h[k \ {Largest(k)}], list[Largest(k)])]
           all == CHOOSE h : h = Body(h)
<1>0. list \in Seq(MigrationFiles)
  BY DEF Sites
<1> HIDE DEF list
<1>1. N \in Nat /\ DOMAIN list = 1..N /\ list \in [1..N -> MigrationFiles]
  BY <1>0
<1>2. s \in Migrated(s)
  BY DEF Migrated
<1>3. Running(s) \in [Migrated(s) \X MigrationFiles -> Migrated(s)]
  BY RunFileType DEF Running
<1>4. PICK g \in [SUBSET (1..N) -> Migrated(s)] : Folds(g, N, s, Running(s), list)
  <2> HIDE DEF N
  <2>1. QED
    BY <1>1, <1>2, <1>3, FoldRecursion
<1>5. g = Body(g)
  <2>1. ASSUME NEW k \in SUBSET (1..N)
        PROVE  g[k] = IF k = {} THEN s ELSE RunFile(g[k \ {Largest(k)}], list[Largest(k)])
    <3>1. CASE k = {}
      BY <1>4, <3>1 DEF Folds
    <3>2. CASE k # {}
      <4>1. g[k] = Running(s)[<<g[k \ {Largest(k)}], list[Largest(k)]>>]
        BY <1>4, <3>2 DEF Folds
      <4>2. g[k \ {Largest(k)}] \in Migrated(s)
        BY <1>4
      <4>3. list[Largest(k)] \in MigrationFiles
        BY <1>1, <3>2, LargestIsMember
      <4>4. QED
        BY <3>2, <4>1, <4>2, <4>3 DEF Running
    <3>3. QED
      BY <3>1, <3>2
  <2>2. QED
    BY <1>1, <1>4, <2>1
<1>6. all = Body(all)
  BY <1>5
<1>7. GoesOn(all, Migrated(s), N, s, Running(s), list)
  <2> HIDE DEF all
  <2>1. all[{}] = s
    BY <1>1, <1>6
  <2>2. ASSUME NEW k \in SUBSET (1..N), k # {}, all[k \ {Largest(k)}] \in Migrated(s)
        PROVE  all[k] = Running(s)[<<all[k \ {Largest(k)}], list[Largest(k)]>>]
    <3>1. all[k] = RunFile(all[k \ {Largest(k)}], list[Largest(k)])
      BY <1>1, <1>6, <2>2
    <3>2. list[Largest(k)] \in MigrationFiles
      BY <1>1, <2>2, LargestIsMember
    <3>3. QED
      BY <2>2, <3>1, <3>2 DEF Running
  <2>3. GoesBack(all, Migrated(s), N, s, Running(s), list)
    BY <2>1, <2>2 DEF GoesBack
  <2> HIDE DEF N
  <2>4. QED
    BY <1>1, <1>2, <1>3, <2>3, FoldUnfolding
<1>8. RunFiles(s) = all[DOMAIN list]
  BY Zenon DEF RunFiles, FoldLeft, MapThenFoldSet, Max, Largest, RunFile, list
<1> HIDE DEF all
<1>9. RunFiles(s) = all[1..N]
  BY <1>1, <1>8
<1>10. QED
  BY <1>7, <1>9 DEF list

LEMMA RunFilesType ==
    ASSUME NEW s \in Sites
    PROVE  RunFiles(s) \in Migrated(s)
<1>1. PICK h : /\ GoesOn(h, Migrated(s), Len(s.pending), s, Running(s), s.pending)
               /\ RunFiles(s) = h[1..Len(s.pending)]
  BY RunFilesInTurn
<1>2. Len(s.pending) \in 0..Len(s.pending)
  BY DEF Sites
<1>3. QED
  BY <1>1, <1>2 DEF GoesOn

\* Places after a command.
LEMMA OtherSite ==
    ASSUME NEW p, Place(p), NEW s, Orderly(s), NEW q, q.site = s, q.code = p.code,
           q.schema = p.schema,
           q = [site |-> q.site, code |-> q.code, schema |-> q.schema, up |-> q.up]
    PROVE  Place(q)
BY DEF Place

LEMMA NewProjectType ==
    ASSUME NEW p, Place(p), NEW q \in NewProject(p)
    PROVE  Place(q)
<1>1. q = [p EXCEPT !.site.tree = "whole"]
  BY DEF NewProject
<1> DEFINE s == [p.site EXCEPT !.tree = "whole"]
<1>2. Orderly(s)
  BY DEF Place, Orderly, Sites, Trees
<1>3. /\ q.site = s /\ q.code = p.code /\ q.schema = p.schema
      /\ q = [site |-> q.site, code |-> q.code, schema |-> q.schema, up |-> q.up]
  BY <1>1 DEF Place
<1> HIDE DEF s
<1>4. QED
  BY <1>2, <1>3, OtherSite

LEMMA MakeDirType ==
    ASSUME NEW p, Place(p), NEW a \in Apps, NEW q \in MakeDir(a, p)
    PROVE  Place([q EXCEPT !.site.adding = <<a>>])
<1>1. q = [p EXCEPT !.site.dirs = @ \cup {a}]
  BY DEF MakeDir
<1> DEFINE r == [q EXCEPT !.site.adding = <<a>>]
           dirs == p.site.dirs \cup {a}
           s == [p.site EXCEPT !.dirs = dirs, !.adding = <<a>>]
<1>2. p.site \in Sites
  BY DEF Place, Orderly
<1>3. q.site = [p.site EXCEPT !.dirs = dirs] /\ q.code = p.code /\ q.schema = p.schema
      /\ q = [site |-> q.site, code |-> q.code, schema |-> q.schema, up |-> q.up]
  BY <1>1 DEF Place
<1>4. /\ dirs \in SUBSET Apps /\ a \in dirs
      /\ p.site.made \subseteq p.site.mods /\ p.site.mods \subseteq dirs
  BY <1>2 DEF Place, Orderly, Sites
<1> HIDE DEF dirs
<1>5. r.site = s /\ r.code = p.code /\ r.schema = p.schema
      /\ r = [site |-> r.site, code |-> r.code, schema |-> r.schema, up |-> r.up]
  BY <1>2, <1>3 DEF Sites
<1>6. <<a>> \in {<<>>} \cup {<<b>> : b \in Apps} /\ Head(<<a>>) = a
  OBVIOUS
<1> DEFINE t == <<a>>
<1> HIDE DEF t
<1>7. [p.site EXCEPT !.dirs = dirs, !.adding = t] \in Sites
  BY <1>2, <1>4, <1>6 DEF Sites, t
<1>8. /\ s \in Sites /\ s.dirs = dirs /\ s.mods = p.site.mods /\ s.made = p.site.made
      /\ s.adding = <<a>>
  BY <1>2, <1>7 DEF Sites, t
<1> HIDE DEF s, r
<1>9. Orderly(s)
  BY <1>4, <1>6, <1>8 DEF Orderly
<1>10. QED
  BY <1>5, <1>9, OtherSite DEF r

LEMMA RegisterType ==
    ASSUME NEW p, Place(p), p.site.adding # <<>>
    PROVE  Place(Register(Head(p.site.adding), p))
<1> DEFINE a == Head(p.site.adding)
           q == Register(a, p)
           mods == p.site.mods \cup {a}
           clash == p.site.clash \cup Clashes(a, p)
           s == [p.site EXCEPT !.mods = mods, !.clash = clash]
<1>1. p.site \in Sites /\ a \in p.site.dirs /\ p.code \in Shapes
  BY DEF Place, Orderly
<1>2. a \in Apps /\ StructOf[a] \in Models
  BY <1>1, AppsAssumption DEF Sites
<1> HIDE DEF a
<1>3. /\ q.site = s /\ q.schema = p.schema /\ q.code = [p.code EXCEPT ![StructOf[a]] = Scaffold]
      /\ q = [site |-> q.site, code |-> q.code, schema |-> q.schema, up |-> q.up]
  <2> DEFINE m == StructOf[a]
             new == [p.code EXCEPT ![m] = Scaffold]
  <2>1. p = [site |-> p.site, code |-> p.code, schema |-> p.schema, up |-> p.up]
    BY DEF Place
  <2>2. q = [p EXCEPT !.site = s, !.code = new]
    BY <1>1, <2>1 DEF Register, Sites
  <2> HIDE DEF q, s, m, new
  <2>3. /\ q.site = s /\ q.schema = p.schema /\ q.code = new
        /\ q = [site |-> q.site, code |-> q.code, schema |-> q.schema, up |-> q.up]
    BY <2>1, <2>2
  <2>4. QED
    BY <2>3 DEF new, m
<1>4. q.code \in Shapes
  BY <1>1, <1>2, <1>3, AppsAssumption DEF Shapes
<1>5. Orderly(s)
  <2>1. mods \in SUBSET Apps /\ clash \in SUBSET {"struct", "table"}
    BY <1>1, <1>2 DEF Sites, Clashes
  <2> HIDE DEF clash
  <2>2. s \in Sites /\ s.dirs = p.site.dirs /\ s.adding = p.site.adding
        /\ s.mods = mods /\ s.made = p.site.made
    BY <1>1, <2>1 DEF Sites
  <2>3. QED
    BY <1>1, <2>2 DEF Place, Orderly
<1>6. q.schema \in Shapes \cup {Missing}
  BY <1>3 DEF Place
<1> HIDE DEF q, s
<1>7. Place(q)
  BY <1>3, <1>4, <1>5, <1>6 DEF Place
<1>8. QED
  BY <1>7 DEF q, a

LEMMA CreateTableType ==
    ASSUME NEW a \in Apps
    PROVE  CreateTable(a) \in MigrationFiles
<1>1. StructOf[a] \in Models /\ Slug[StructOf[a]] \in Tables
  BY AppsAssumption DEF Tables
<1>2. NamesOf(Scaffold) \in SUBSET Names
  BY AppsAssumption DEF NamesOf, Fields
<1>3. QED
  BY <1>1, <1>2 DEF CreateTable, MigrationFiles

LEMMA GenerateType ==
    ASSUME NEW p, Place(p), p.site.adding # <<>>, Head(p.site.adding) \in p.site.mods
    PROVE  Place([Generate(Head(p.site.adding), p) EXCEPT !.site.adding = <<>>])
<1> DEFINE a == Head(p.site.adding)
           f == CreateTable(a)
           q == [Generate(a, p) EXCEPT !.site.adding = <<>>]
           list == Append(p.site.pending, f)
           none == <<>>
           made == p.site.made \cup {a}
           s == [p.site EXCEPT !.pending = list, !.made = made, !.adding = none]
<1>1. p.site \in Sites /\ a \in Apps /\ made \in SUBSET Apps /\ made \subseteq p.site.mods
  BY DEF Place, Orderly, Sites
<1>2. list \in Seq(MigrationFiles)
  BY <1>1, CreateTableType DEF Sites
<1>3. none \in {<<>>} \cup {<<b>> : b \in Apps}
  OBVIOUS
<1>4. Generate(a, p) = [p EXCEPT !.site.pending = list, !.site.made = made]
  BY DEF Generate
<1> HIDE DEF a, list, none, made
<1>5. q = [[p EXCEPT !.site.pending = list, !.site.made = made] EXCEPT !.site.adding = none]
  BY <1>4 DEF none
<1> HIDE DEF q
<1>6. /\ q.site = s /\ q.schema = p.schema /\ q.code = p.code
      /\ q = [site |-> q.site, code |-> q.code, schema |-> q.schema, up |-> q.up]
  BY <1>1, <1>5 DEF Place, Sites
<1>7. /\ s \in Sites /\ s.dirs = p.site.dirs /\ s.mods = p.site.mods /\ s.made = made
      /\ s.adding = none
  BY <1>1, <1>2, <1>3 DEF Sites
<1>8. Orderly(s)
  BY <1>1, <1>7 DEF Orderly, Place, none
<1> HIDE DEF s
<1>9. Place(q)
  BY <1>6, <1>8, OtherSite
<1>10. QED
  BY <1>9 DEF q, a

LEMMA OpenedType ==
    ASSUME NEW s, Orderly(s)
    PROVE  Orderly(Opened(s))
<1> DEFINE db == IF s.db = "none" THEN "file" ELSE s.db
<1>1. Opened(s) = [s EXCEPT !.db = db] /\ db \in {"none", "file", "core"}
  BY DEF Opened, Orderly, Sites
<1> HIDE DEF db
<1>2. QED
  BY <1>1 DEF Orderly, Sites

LEMMA DumpedType ==
    ASSUME NEW p, Place(p), NEW q \in Dumped(p)
    PROVE  Place(q)
<1>1. q = [p EXCEPT !.schema = Dump(p.code)]
  BY DEF Dumped
<1>2. Dump(p.code) \in Shapes
  BY DumpType DEF Place
<1>3. QED
  BY <1>1, <1>2 DEF Place

LEMMA ConnectedType ==
    ASSUME NEW p, Place(p)
    PROVE  Place(Connected(p))
<1> DEFINE q == Connected(p)
           s == [p.site EXCEPT !.db = "core"]
<1>1. Orderly(s)
  BY DEF Place, Orderly, Sites
<1>2. /\ q.site = s /\ q.code = p.code /\ q.schema = p.schema
      /\ q = [site |-> q.site, code |-> q.code, schema |-> q.schema, up |-> q.up]
  BY DEF Place, Connected
<1> HIDE DEF q, s
<1>3. Place(q)
  BY <1>1, <1>2, OtherSite
<1>4. QED
  BY <1>3 DEF q

LEMMA MigrateApplyType ==
    ASSUME NEW p, Place(p), NEW r \in MigrateApply(p)
    PROVE  Place(r)
<1> DEFINE c == Connected(p)
           q == [c EXCEPT !.site = RunFiles(@)]
<1>1. Place(c)
  BY ConnectedType
<1> HIDE DEF c
<1>2. RunFiles(c.site) \in Migrated(c.site)
  BY <1>1, RunFilesType DEF Place, Orderly
<1>3. Orderly(RunFiles(c.site))
  BY <1>1, <1>2 DEF Migrated, Place, Orderly
<1>4. /\ q.site = RunFiles(c.site) /\ q.code = c.code /\ q.schema = c.schema
      /\ q = [site |-> q.site, code |-> q.code, schema |-> q.schema, up |-> q.up]
  BY <1>1 DEF Place
<1>5. Place(q)
  BY <1>1, <1>3, <1>4, OtherSite
<1>6. r = q \/ r \in Dumped(q)
  BY DEF MigrateApply, c
<1> HIDE DEF q
<1>7. QED
  BY <1>5, <1>6, DumpedType

LEMMA UserCreateType ==
    ASSUME NEW p, Place(p), NEW role, NEW q \in UserCreate(p, role)
    PROVE  Place(q)
<1> DEFINE c == Connected(p)
           n == IF role = "admin" THEN 1 ELSE c.site.admins
           s == [c.site EXCEPT !.admins = n]
<1>1. Place(c)
  BY ConnectedType
<1>2. q = [c EXCEPT !.site.admins = n]
  BY DEF UserCreate
<1> HIDE DEF c
<1>3. n \in 0..1
  BY <1>1 DEF Place, Orderly, Sites
<1> HIDE DEF n
<1>4. Orderly(s)
  BY <1>1, <1>3 DEF Place, Orderly, Sites
<1>5. /\ q.site = s /\ q.code = c.code /\ q.schema = c.schema
      /\ q = [site |-> q.site, code |-> q.code, schema |-> q.schema, up |-> q.up]
  BY <1>1, <1>2 DEF Place
<1> HIDE DEF s
<1>6. QED
  BY <1>1, <1>4, <1>5, OtherSite

-----------------------------------------------------------------------------
(* Every step of the journey keeps the invariants. *)

Voices == Commands \cup {NoHint}

JourneyInv == WorkInv /\ Orderly(site) /\ hint \in Voices

LEMMA SelectedType ==
    ASSUME NEW c \in Shapes
    PROVE  Selected(c) \in Columns
<1>1. ASSUME NEW m \in Models PROVE NamesOf(c[m]) \in SUBSET Names
  BY DEF Shapes, NamesOf, Fields
<1>2. ASSUME NEW u \in Tables
      PROVE  UNION {NamesOf(c[m]) : m \in {n \in Models : Slug[n] = u}} \in SUBSET Names
  BY <1>1
<1>3. QED
  BY <1>2 DEF Selected, Columns

LEMMA HereType ==
    ASSUME JourneyInv
    PROVE  Place(Here)
BY DEF JourneyInv, WorkInv, FilesTyped, Here, Place

LEMMA ToKeeps ==
    ASSUME JourneyInv, NEW q, Place(q), To(q)
    PROVE  WorkInv' /\ Orderly(site')
<1>1. /\ site' = q.site /\ code' = q.code /\ schema' = q.schema
      /\ UNCHANGED <<day, context, referenced, saved, server, terminal, admin, applied, edits>>
  BY DEF To
<1>2. code' \in Shapes /\ schema' \in Shapes \cup {Missing} /\ Orderly(site')
  BY <1>1 DEF Place
<1>3. FilesTyped'
  BY <1>1, <1>2 DEF JourneyInv, WorkInv, FilesTyped
<1>4. PeopleTyped' /\ Alive' /\ Sincere' /\ AppliedAsShown'
  BY <1>1 DEF JourneyInv, WorkInv, PeopleTyped, Alive, Sincere, AppliedAsShown
<1>5. QED
  BY <1>2, <1>3, <1>4 DEF WorkInv

LEMMA VoicesSay ==
    /\ NoHint \in Voices
    /\ {"init", "add model", "migrate apply", "schema", "user create", "run", "stop"}
           \subseteq Voices
BY Zenon DEF Voices, Commands

\* What the setup commands leave of a project is one that the others can work on.
LEMMA SetUpKeeps ==
    ASSUME JourneyInv,
           \/ Scaffolding \/ (\E a \in day.apps : StartModel(a)) \/ RegisterModel \/ FinishModel
           \/ ApplyMigrations \/ MigrateStatus
           \/ (\E role \in {"admin", "user"} : CreateUser(role))
    PROVE  WorkInv' /\ Orderly(site')
<1>0. Place(Here) /\ Here.site = site
  BY HereType DEF Here
<1>1. CASE Scaffolding
  BY <1>0, <1>1, NewProjectType, ToKeeps DEF Scaffolding
<1>2. CASE \E a \in day.apps : StartModel(a)
  <2>1. PICK a \in Apps : StartModel(a)
    BY <1>2, AppsAssumption DEF JourneyInv, WorkInv, FilesTyped
  <2>2. QED
    BY <1>0, <2>1, MakeDirType, ToKeeps DEF StartModel
<1>3. CASE RegisterModel
  BY <1>0, <1>3, RegisterType, ToKeeps DEF RegisterModel
<1>4. CASE FinishModel
  BY <1>0, <1>4, GenerateType, ToKeeps DEF FinishModel
<1>5. CASE ApplyMigrations
  BY <1>0, <1>5, MigrateApplyType, ToKeeps DEF ApplyMigrations
<1>6. CASE MigrateStatus
  <2> DEFINE q == [Here EXCEPT !.site = Opened(@)]
  <2>1. Orderly(Opened(site))
    BY <1>0, OpenedType DEF Place
  <2>2. q.site = Opened(site) /\ q.code = Here.code /\ q.schema = Here.schema
        /\ q = [site |-> q.site, code |-> q.code, schema |-> q.schema, up |-> q.up]
    BY DEF Here
  <2>3. To(q)
    BY <1>6 DEF MigrateStatus
  <2> HIDE DEF q
  <2>4. QED
    BY <1>0, <2>1, <2>2, <2>3, OtherSite, ToKeeps
<1>7. CASE \E role \in {"admin", "user"} : CreateUser(role)
  BY <1>0, <1>7, UserCreateType, ToKeeps DEF CreateUser
<1>8. QED
  BY <1>1, <1>2, <1>3, <1>4, <1>5, <1>6, <1>7

LEMMA NoSiteOrderly == Orderly(NoSite)
<1> DEFINE tables == [u \in Tables |-> {}]
<1>1. tables \in Columns /\ "none" \in Trees
  BY DEF Columns, Trees
<1>2. NoSite = [tree |-> "none", dirs |-> {}, mods |-> {}, made |-> {}, clash |-> {},
                adding |-> <<>>, pending |-> <<>>, db |-> "none", tables |-> tables, admins |-> 0]
  BY DEF NoSite
<1> HIDE DEF tables
<1>3. NoSite \in Sites
  <2>1. <<>> \in Seq(MigrationFiles) /\ <<>> \in {<<>>} \cup {<<a>> : a \in Apps}
    OBVIOUS
  <2> DEFINE list == <<>>
             none == <<>>
  <2>2. NoSite = [tree |-> "none", dirs |-> {}, mods |-> {}, made |-> {}, clash |-> {},
                  adding |-> none, pending |-> list, db |-> "none", tables |-> tables, admins |-> 0]
    BY <1>2
  <2>3. list \in Seq(MigrationFiles) /\ none \in {<<>>} \cup {<<a>> : a \in Apps}
    BY <2>1
  <2> HIDE DEF list, none
  <2>4. QED
    BY <1>1, <2>2, <2>3 DEF Sites
<1>4. NoSite.adding = <<>> /\ NoSite.made = {} /\ NoSite.mods = {} /\ NoSite.dirs = {}
  BY <1>2
<1>5. QED
  BY <1>3, <1>4 DEF Orderly

\* Killed, or started over.
LEMMA BrokenOff ==
    ASSUME JourneyInv, InitKilled \/ StartOver \/ ModelInterrupted
    PROVE  WorkInv' /\ Orderly(site')
<1>1. WorkInv'
  BY WorkStutters DEF JourneyInv, InitKilled, StartOver, ModelInterrupted
<1>2. CASE InitKilled
  BY <1>1, <1>2 DEF InitKilled, JourneyInv, Orderly, Sites, Trees
<1>3. CASE StartOver
  BY <1>1, <1>3, NoSiteOrderly DEF StartOver
<1>4. CASE ModelInterrupted
  <2> DEFINE none == <<>>
  <2>1. none \in {<<>>} \cup {<<a>> : a \in Apps}
    OBVIOUS
  <2>2. site' = [site EXCEPT !.adding = none]
    BY <1>4 DEF ModelInterrupted
  <2> HIDE DEF none
  <2>3. /\ site' \in Sites /\ site'.made = site.made /\ site'.mods = site.mods
        /\ site'.dirs = site.dirs /\ site'.adding = none
    BY <2>1, <2>2 DEF JourneyInv, Orderly, Sites
  <2>4. QED
    BY <1>1, <2>3 DEF JourneyInv, Orderly, none
<1>5. QED
  BY <1>1, <1>2, <1>3, <1>4

LEMMA WrittenType ==
    ASSUME code \in Shapes, code' \in Shapes
    PROVE  Written \in Seq(MigrationFiles)
<1> DEFINE n == NeverAccepted(Last(applied').plan)
           f == [op |-> "alter", before |-> Selected(code), after |-> Selected(code'), refused |-> n]
<1>1. n \in BOOLEAN
  BY DEF NeverAccepted
<1>2. Selected(code) \in Columns /\ Selected(code') \in Columns
  BY SelectedType
<1>3. Written = IF applied' = applied THEN <<>> ELSE <<f>>
  BY Zenon DEF Written
<1> HIDE DEF n
<1>4. f \in MigrationFiles
  BY <1>1, <1>2 DEF MigrationFiles
<1> HIDE DEF f
<1>5. QED
  BY <1>3, <1>4

LEMMA DayAtWork ==
    ASSUME JourneyInv, Work
    PROVE  WorkInv' /\ Orderly(site')
<1>1. WorkInv'
  BY WorkKeeps DEF JourneyInv, Work
<1>2. Written \in Seq(MigrationFiles)
  BY <1>1, WrittenType DEF JourneyInv, WorkInv, FilesTyped
<1> DEFINE s == IF server'.up THEN Opened(site) ELSE site
           list == s.pending \o Written
<1>3. Orderly(s)
  BY OpenedType DEF JourneyInv
<1>4. site' = [s EXCEPT !.pending = list]
  BY DEF Work
<1> HIDE DEF s
<1>5. list \in Seq(MigrationFiles)
  BY <1>2, <1>3 DEF Orderly, Sites
<1> HIDE DEF list
<1>6. QED
  BY <1>1, <1>3, <1>4, <1>5 DEF Orderly, Sites

LEMMA HintSays ==
    ASSUME JourneyInv, ProjectNext
    PROVE  hint' \in Voices
BY Zenon, VoicesSay DEF ProjectNext, Work, Scaffolding, InitKilled, StartOver, StartModel, RegisterModel,
     FinishModel, ModelInterrupted, ApplyMigrations, MigrateStatus, CreateUser, JourneyInv

LEMMA OldSiteOrderly ==
    ASSUME NEW c \in Shapes
    PROVE  /\ Orderly(OldSite(c)) /\ OldSite(c).tree = "whole" /\ OldSite(c).clash = {}
           /\ OldSite(c).adding = <<>> /\ OldSite(c).pending = <<>>
           /\ OldSite(c).mods = OldSite(c).made /\ OldSite(c).tables = Selected(c)
<1> DEFINE dirs == Directories(c)
           tables == Selected(c)
<1>1. OldSite(c) = [NoSite EXCEPT !.tree = "whole", !.dirs = dirs, !.mods = dirs, !.made = dirs,
                                  !.db = "core", !.tables = tables, !.admins = 1]
  BY DEF OldSite
<1>2. dirs \in SUBSET Apps /\ tables \in Columns /\ "whole" \in Trees
  BY SelectedType DEF Directories, Trees
<1>3. NoSite \in Sites
  BY NoSiteOrderly DEF Orderly
<1>4. NoSite.clash = {} /\ NoSite.adding = <<>> /\ NoSite.pending = <<>>
  BY DEF NoSite
<1> HIDE DEF dirs
<1>5. /\ OldSite(c) \in Sites /\ OldSite(c).tree = "whole" /\ OldSite(c).clash = NoSite.clash
      /\ OldSite(c).adding = NoSite.adding /\ OldSite(c).pending = NoSite.pending
      /\ OldSite(c).dirs = dirs /\ OldSite(c).mods = dirs /\ OldSite(c).made = dirs
      /\ OldSite(c).tables = tables
  <2> DEFINE s == [NoSite EXCEPT !.tree = "whole", !.dirs = dirs, !.mods = dirs, !.made = dirs]
  <2> HIDE DEF tables
  <2>1. /\ s \in Sites /\ s.tree = "whole" /\ s.dirs = dirs /\ s.mods = dirs /\ s.made = dirs
        /\ s.clash = NoSite.clash /\ s.adding = NoSite.adding /\ s.pending = NoSite.pending
    BY <1>2, <1>3 DEF Sites
  <2> DEFINE t == [s EXCEPT !.db = "core", !.tables = tables]
  <2>2. OldSite(c) = [t EXCEPT !.admins = 1]
    BY <1>1, <1>3 DEF Sites
  <2> HIDE DEF s
  <2>3. /\ t \in Sites /\ t.tree = "whole" /\ t.dirs = dirs /\ t.mods = dirs /\ t.made = dirs
        /\ t.clash = NoSite.clash /\ t.adding = NoSite.adding /\ t.pending = NoSite.pending
        /\ t.tables = tables
    BY <1>2, <2>1 DEF Sites
  <2> HIDE DEF t
  <2>4. QED
    BY <2>2, <2>3 DEF Sites
<1>6. QED
  BY <1>4, <1>5 DEF Orderly

LEMMA JourneyBegins ==
    ASSUME ProjectInit
    PROVE  JourneyInv
<1>1. WorkInv
  BY WorkingInit DEF ProjectInit
<1>2. Orderly(site)
  BY <1>1, NoSiteOrderly, OldSiteOrderly DEF ProjectInit, WorkInv, FilesTyped
<1>3. QED
  BY <1>1, <1>2, VoicesSay DEF JourneyInv, ProjectInit

LEMMA JourneyGoesOn ==
    ASSUME JourneyInv, [ProjectNext]_SiteVars
    PROVE  JourneyInv'
<1>1. CASE ProjectNext
  <2>1. WorkInv' /\ Orderly(site')
    BY <1>1, DayAtWork, SetUpKeeps, BrokenOff DEF ProjectNext
  <2>2. hint' \in Voices
    BY <1>1, HintSays
  <2>3. QED
    BY <2>1, <2>2 DEF JourneyInv, Orderly
<1>2. CASE UNCHANGED SiteVars
  <2>1. UNCHANGED vars /\ site' = site /\ hint' = hint
    BY <1>2 DEF SiteVars
  <2>2. QED
    BY <2>1, WorkStutters DEF JourneyInv, Orderly
<1>3. QED
  BY <1>1, <1>2

LEMMA Journeys == ProjectSpec => []JourneyInv
<1>1. ProjectInit => JourneyInv
  BY JourneyBegins
<1>2. JourneyInv /\ [ProjectNext]_SiteVars => JourneyInv'
  BY JourneyGoesOn
<1>3. QED
  BY <1>1, <1>2, PTL DEF ProjectSpec

-----------------------------------------------------------------------------
(* What each step makes of the project. *)

\* Two sites that differ in their tree, their database or their users only.
Alike(s, r) ==
    /\ r.dirs = s.dirs /\ r.mods = s.mods /\ r.made = s.made /\ r.clash = s.clash
    /\ r.adding = s.adding /\ r.pending = s.pending /\ r.tables = s.tables

LEMMA Scaffolded ==
    ASSUME JourneyInv, Scaffolding
    PROVE  /\ site.tree = "none" /\ site'.tree = "whole" /\ Alike(site, site')
           /\ code' = code /\ schema' = schema /\ hint' = "add model"
<1>1. site \in Sites
  BY DEF JourneyInv, Orderly
<1>2. PICK q \in NewProject(Here) : To(q)
  BY DEF Scaffolding
<1>3. Here.site.tree = "none" /\ q = [Here EXCEPT !.site.tree = "whole"]
  BY DEF NewProject
<1>4. /\ Here.site = site /\ q.site = [site EXCEPT !.tree = "whole"] /\ q.code = code
      /\ q.schema = schema
  BY <1>3 DEF Here
<1>5. site' = [site EXCEPT !.tree = "whole"] /\ code' = code /\ schema' = schema
  BY <1>2, <1>4 DEF To
<1>6. QED
  BY <1>1, <1>3, <1>4, <1>5 DEF Sites, Alike, Scaffolding

\* Killed in the middle of it.
LEMMA ScaffoldingKilled ==
    ASSUME JourneyInv, InitKilled
    PROVE  /\ site.tree = "none" /\ site'.tree \in {"bare", "rootless"} /\ Alike(site, site')
           /\ code' = code /\ schema' = schema /\ hint' = NoHint
<1>1. site \in Sites
  BY DEF JourneyInv, Orderly
<1>2. PICK tree \in {"bare", "rootless"} : site' = [site EXCEPT !.tree = tree]
  BY DEF InitKilled
<1>3. QED
  BY <1>1, <1>2 DEF InitKilled, Sites, Alike, vars

LEMMA ModelStarted ==
    ASSUME JourneyInv, NEW a \in Apps, StartModel(a)
    PROVE  /\ site.tree = "whole" /\ site.adding = <<>> /\ a \notin site.dirs
           /\ site'.tree = "whole" /\ site'.adding # <<>> /\ Head(site'.adding) = a
           /\ site'.dirs = site.dirs \cup {a}
           /\ site'.mods = site.mods /\ site'.made = site.made /\ site'.clash = site.clash
           /\ site'.pending = site.pending /\ site'.tables = site.tables
           /\ code' = code /\ schema' = schema /\ hint' = NoHint
<1>0. site \in Sites
  BY DEF JourneyInv, Orderly
<1> DEFINE dirs == site.dirs \cup {a}
           adding == <<a>>
<1>1. PICK q \in MakeDir(a, Here) : To([q EXCEPT !.site.adding = adding])
  BY DEF StartModel
<1>2. site.tree = "whole" /\ a \notin site.dirs /\ site.adding = <<>> /\ hint' = NoHint
  BY <1>1 DEF MakeDir, Here, StartModel, InDirectory
<1>3. q = [Here EXCEPT !.site.dirs = dirs]
  BY <1>1 DEF MakeDir, Here
<1>4. adding # <<>> /\ Head(adding) = a
  OBVIOUS
<1> HIDE DEF adding, dirs
<1>5. q.site = [site EXCEPT !.dirs = dirs] /\ q.code = code /\ q.schema = schema
  BY <1>3 DEF Here
<1>6. site' = [q.site EXCEPT !.adding = adding] /\ code' = q.code /\ schema' = q.schema
  <2>1. q = [site |-> q.site, code |-> q.code, schema |-> q.schema, up |-> q.up]
    BY <1>3 DEF Here
  <2>2. QED
    BY <1>1, <2>1 DEF To
<1>7. /\ site'.tree = "whole" /\ site'.mods = site.mods /\ site'.made = site.made
      /\ site'.clash = site.clash /\ site'.dirs = dirs
      /\ site'.adding = adding /\ site'.pending = site.pending /\ site'.tables = site.tables
  BY <1>0, <1>2, <1>5, <1>6 DEF Sites
<1>8. QED
  BY <1>2, <1>4, <1>5, <1>6, <1>7 DEF dirs

LEMMA ModelRegistered ==
    ASSUME JourneyInv, RegisterModel
    PROVE  LET a == Head(site.adding)
           IN /\ site.adding # <<>> /\ a \in Apps /\ a \notin site.mods /\ StructOf[a] \in Models
              /\ site'.tree = site.tree /\ site'.adding = site.adding /\ site'.dirs = site.dirs
              /\ site'.mods = site.mods \cup {a} /\ site'.made = site.made
              /\ site'.clash = site.clash \cup Clashes(a, Here)
              /\ site'.pending = site.pending /\ site'.tables = site.tables
              /\ code' = [code EXCEPT ![StructOf[a]] = Scaffold]
              /\ schema' = schema /\ hint' = hint
<1> DEFINE a == Head(site.adding)
           mods == site.mods \cup {a}
           clash == site.clash \cup Clashes(a, Here)
           m == StructOf[a]
           new == [code EXCEPT ![m] = Scaffold]
           s == [site EXCEPT !.mods = mods, !.clash = clash]
<1>0. site \in Sites
  BY DEF JourneyInv, Orderly
<1>1. site.adding # <<>> /\ a \notin site.mods /\ a \in Apps /\ hint' = hint
  BY <1>0 DEF RegisterModel, Sites
<1>2. m \in Models
  BY <1>1, AppsAssumption
<1>3. Register(a, Here) = [Here EXCEPT !.site = s, !.code = new]
  BY <1>0 DEF Register, Here, Sites
<1> HIDE DEF new, s
<1>4. Register(a, Here).site = s /\ Register(a, Here).code = new
      /\ Register(a, Here).schema = schema
  BY <1>3 DEF Here
<1>5. site' = s /\ code' = new /\ schema' = schema
  BY <1>4 DEF RegisterModel, To
<1> HIDE DEF a, clash, m, mods
<1>6. /\ s.tree = site.tree /\ s.mods = mods /\ s.made = site.made /\ s.clash = clash
      /\ s.dirs = site.dirs
      /\ s.adding = site.adding /\ s.pending = site.pending /\ s.tables = site.tables
  BY <1>0 DEF Sites, s
<1>7. QED
  BY <1>1, <1>2, <1>5, <1>6 DEF new, m, a, clash, mods

LEMMA ModelFinished ==
    ASSUME JourneyInv, FinishModel
    PROVE  LET a == Head(site.adding)
           IN /\ site.adding # <<>> /\ a \in Apps /\ a \in site.mods
              /\ site'.tree = site.tree /\ site'.adding = <<>> /\ site'.dirs = site.dirs
              /\ site'.mods = site.mods /\ site'.made = site.made \cup {a}
              /\ site'.clash = site.clash /\ site'.tables = site.tables
              /\ site'.pending = Append(site.pending, CreateTable(a))
              /\ code' = code /\ schema' = schema /\ hint' = "migrate apply"
<1> DEFINE a == Head(site.adding)
           list == Append(site.pending, CreateTable(a))
           made == site.made \cup {a}
           none == <<>>
           s == [site EXCEPT !.pending = list, !.made = made]
           t == [s EXCEPT !.adding = none]
           g == Generate(a, Here)
           q == [g EXCEPT !.site.adding = none]
<1>0. /\ site \in Sites /\ a \in site.mods /\ site.adding # <<>> /\ a \in Apps
      /\ hint' = "migrate apply"
  BY DEF JourneyInv, Orderly, FinishModel, Sites
<1>1. g = [Here EXCEPT !.site.pending = list, !.site.made = made]
  BY DEF Generate, Here
<1> HIDE DEF a, list, made, none
<1>2. /\ g.site = s /\ g.code = code /\ g.schema = schema
      /\ g = [site |-> g.site, code |-> g.code, schema |-> g.schema, up |-> g.up]
  BY <1>0, <1>1 DEF Here, Sites
<1> HIDE DEF g, s
<1>3. q.site = t /\ q.code = code /\ q.schema = schema
  BY <1>2
<1>4. To(q)
  BY DEF FinishModel, g, q, a, none
<1> HIDE DEF q
<1>5. site' = t /\ code' = code /\ schema' = schema
  BY <1>3, <1>4 DEF To
<1>6. /\ s \in [DOMAIN site -> {s[x] : x \in DOMAIN site}] /\ t = [s EXCEPT !.adding = none]
      /\ s = [site EXCEPT !.pending = list, !.made = made]
  BY <1>0 DEF s, Sites
<1>7. /\ t.tree = site.tree /\ t.mods = site.mods /\ t.made = made /\ t.clash = site.clash
      /\ t.dirs = site.dirs /\ t.adding = none /\ t.pending = list /\ t.tables = site.tables
  BY <1>0, <1>6 DEF Sites
<1>8. QED
  BY <1>0, <1>5, <1>7 DEF a, list, made, none

\* Killed, or without its markers.
LEMMA ModelBrokenOff ==
    ASSUME JourneyInv, ModelInterrupted
    PROVE  /\ site.adding # <<>> /\ site'.adding = <<>>
           /\ site'.tree = site.tree /\ site'.dirs = site.dirs /\ site'.mods = site.mods
           /\ site'.made = site.made /\ site'.clash = site.clash
           /\ site'.pending = site.pending /\ site'.tables = site.tables
           /\ code' = code /\ schema' = schema /\ hint' = hint
<1> DEFINE none == <<>>
<1>0. site \in Sites
  BY DEF JourneyInv, Orderly
<1>1. site' = [site EXCEPT !.adding = none] /\ site.adding # <<>> /\ hint' = hint
      /\ code' = code /\ schema' = schema
  BY DEF ModelInterrupted, vars
<1>2. none = <<>>
  OBVIOUS
<1> HIDE DEF none
<1>3. /\ site'.adding = none /\ site'.tree = site.tree /\ site'.dirs = site.dirs
      /\ site'.mods = site.mods /\ site'.made = site.made /\ site'.clash = site.clash
      /\ site'.pending = site.pending /\ site'.tables = site.tables
  BY <1>0, <1>1 DEF Sites
<1>4. QED
  BY <1>1, <1>2, <1>3

\* Every migration of the list is accepted, and they lead from t to the goal.
LeadsAll(list, t, goal) ==
    \E it \in [0..Len(list) -> Columns] :
        Leads(it, Len(list), list, t) /\ it[Len(list)] = goal

LEMMA LeadsAllNone ==
    ASSUME NEW t \in Columns
    PROVE  LeadsAll(<<>>, t, t)
<1> DEFINE it == [i \in 0..0 |-> t]
<1>1. it \in [0..0 -> Columns] /\ it[0] = t
  OBVIOUS
<1>2. Leads(it, 0, <<>>, t)
  BY <1>1 DEF Leads
<1> HIDE DEF it
<1>3. Len(<<>>) = 0
  OBVIOUS
<1>4. QED
  BY <1>1, <1>2, <1>3 DEF LeadsAll

LEMMA AllLedTo ==
    ASSUME NEW list, NEW t, NEW goal, LeadsAll(list, t, goal), list = <<>>
    PROVE  t = goal
<1>1. Len(list) = 0
  OBVIOUS
<1>2. PICK it : it[0] = t /\ it[0] = goal
  BY <1>1 DEF LeadsAll, Leads
<1>3. QED
  BY <1>2

LEMMA LeadsAllNext ==
    ASSUME NEW list \in Seq(MigrationFiles), NEW t \in Columns, NEW goal \in Columns,
           NEW next \in Columns, NEW m \in MigrationFiles, LeadsAll(list, t, goal),
           Accepted(m, goal), Effect(m, goal) = next
    PROVE  LeadsAll(Append(list, m), t, next)
<1> DEFINE longer == Append(list, m)
           k == Len(list)
<1>1. PICK it \in [0..k -> Columns] : Leads(it, k, list, t) /\ it[k] = goal
  BY DEF LeadsAll
<1>2. /\ k \in Nat /\ Len(longer) = k + 1 /\ longer[k + 1] = m
      /\ \A i \in 1..k : longer[i] = list[i]
  OBVIOUS
<1> HIDE DEF longer, k
<1> DEFINE on == [i \in 0..(k + 1) |-> IF i <= k THEN it[i] ELSE next]
<1>3. on \in [0..(k + 1) -> Columns]
  BY <1>1, <1>2
<1>4. on[0] = it[0] /\ on[k + 1] = next /\ \A i \in 0..k : on[i] = it[i]
  BY <1>1, <1>2
<1> HIDE DEF on
<1>5. ASSUME NEW i \in 1..(k + 1)
      PROVE  Accepted(longer[i], on[i - 1]) /\ on[i] = Effect(longer[i], on[i - 1])
  <2>1. CASE i <= k
    <3>1. i \in 1..k /\ i \in 0..k /\ i - 1 \in 0..k
      BY <1>2, <2>1
    <3>2. longer[i] = list[i] /\ on[i] = it[i] /\ on[i - 1] = it[i - 1]
      BY <1>2, <1>4, <3>1
    <3>3. QED
      BY <1>1, <3>1, <3>2 DEF Leads
  <2>2. CASE i = k + 1
    <3>1. k \in 0..k /\ i - 1 = k
      BY <1>2, <2>2
    <3>2. longer[i] = m /\ on[i] = next /\ on[i - 1] = goal
      BY <1>1, <1>2, <1>4, <2>2, <3>1
    <3>3. QED
      BY <3>2
  <2>3. QED
    BY <1>2, <2>1, <2>2
<1>6. Leads(on, k + 1, longer, t)
  BY <1>1, <1>4, <1>5 DEF Leads
<1>7. LeadsAll(longer, t, next)
  BY <1>2, <1>3, <1>4, <1>6 DEF LeadsAll
<1>8. QED
  BY <1>7 DEF longer

\* Then apply_with applies them all.
LEMMA RunsOut ==
    ASSUME NEW s \in Sites, NEW goal, LeadsAll(s.pending, s.tables, goal)
    PROVE  RunFiles(s).pending = <<>> /\ RunFiles(s).tables = goal
<1> DEFINE list == s.pending
           N == Len(list)
<1>0. list \in Seq(MigrationFiles) /\ N \in Nat /\ s.tables \in Columns
  BY DEF Sites
<1>1. PICK it \in [0..N -> Columns] : Leads(it, N, list, s.tables) /\ it[N] = goal
  BY DEF LeadsAll
<1>2. PICK h : GoesOn(h, Migrated(s), N, s, Running(s), list) /\ RunFiles(s) = h[1..N]
  BY RunFilesInTurn
<1> HIDE DEF list, N
<1> DEFINE Rest(r, n) == /\ Len(r.pending) = N - n /\ r.tables = it[n]
                         /\ \A i \in 1..(N - n) : r.pending[i] = list[n + i]
           T == {n \in 0..N : Rest(h[1..n], n)}
<1>3. 0 \in T
  <2>1. h[1..0] = s /\ it[0] = s.tables /\ s.pending = list /\ Len(list) = N
    BY <1>1, <1>2 DEF GoesOn, Leads, list, N
  <2>2. Rest(s, 0)
    BY <1>0, <2>1
  <2>3. QED
    BY <1>0, <2>1, <2>2
<1>4. ASSUME NEW n \in 0..N, n < N, n \in T PROVE n + 1 \in T
  <2> DEFINE r == h[1..n]
             m == list[n + 1]
  <2>1. r \in Migrated(s) /\ m \in MigrationFiles /\ h[1..(n + 1)] = Running(s)[<<r, m>>]
    BY <1>0, <1>2, <1>4 DEF GoesOn, N
  <2>2. h[1..(n + 1)] = RunFile(r, m)
    BY <2>1 DEF Running
  <2>3. r \in Sites /\ r.pending \in Seq(MigrationFiles) /\ Rest(r, n)
    BY <1>4, <2>1 DEF Migrated, Sites
  <2>4. r.pending # <<>> /\ Head(r.pending) = m /\ Len(r.pending) = N - n
    BY <1>0, <1>4, <2>3
  <2>5. Accepted(m, r.tables) /\ Effect(m, r.tables) = it[n + 1]
    <3>1. PICK k \in 1..N : k = n + 1
      BY <1>0, <1>4
    <3>2. Accepted(list[k], it[k - 1]) /\ it[k] = Effect(list[k], it[k - 1]) /\ k - 1 = n
      BY <1>1, <3>1 DEF Leads
    <3>3. QED
      BY <2>3, <3>1, <3>2
  <2> HIDE DEF r, m
  <2> DEFINE rest == Tail(r.pending)
             t == Effect(m, r.tables)
             x == [r EXCEPT !.tables = t, !.pending = rest]
  <2>6. RunFile(r, m) = x
    BY <2>4, <2>5 DEF RunFile
  <2>7. Len(rest) = N - (n + 1) /\ \A i \in 1..(N - (n + 1)) : rest[i] = list[n + 1 + i]
    <3>1. Len(rest) = N - (n + 1) /\ \A i \in 1..(N - (n + 1)) : rest[i] = r.pending[i + 1]
      BY <1>0, <1>4, <2>3, <2>4
    <3>2. ASSUME NEW i \in 1..(N - (n + 1)) PROVE rest[i] = list[n + 1 + i]
      <4>1. PICK j \in 1..(N - n) : j = i + 1
        BY <1>0, <1>4
      <4>2. rest[i] = r.pending[j] /\ n + 1 + i = n + j
        BY <1>0, <1>4, <3>1, <4>1
      <4>3. QED
        BY <2>3, <4>2
    <3>3. QED
      BY <3>1, <3>2
  <2> HIDE DEF rest, t
  <2>8. x.tables = t /\ x.pending = rest
    BY <2>3 DEF Sites
  <2> HIDE DEF x
  <2>9. Rest(x, n + 1)
    BY <2>5, <2>7, <2>8 DEF t
  <2>10. h[1..(n + 1)] = x
    BY <2>2, <2>6
  <2>11. Rest(h[1..(n + 1)], n + 1)
    BY <2>9, <2>10
  <2>12. QED
    BY <1>0, <1>4, <2>11
<1> HIDE DEF T
<1>5. 0..N \subseteq T
  BY <1>0, <1>3, <1>4, IntervalInduction
<1>6. N \in T
  BY <1>0, <1>5
<1>7. Rest(RunFiles(s), N) /\ RunFiles(s) \in Sites
  BY <1>2, <1>6, RunFilesType DEF T, Migrated
<1>8. RunFiles(s).pending \in Seq(MigrationFiles) /\ Len(RunFiles(s).pending) = 0
  BY <1>0, <1>7 DEF Sites
<1>9. QED
  BY <1>1, <1>7, <1>8

\* What MigrateApply makes of a place.
LEMMA Migrates ==
    ASSUME NEW p, Place(p), NEW r \in MigrateApply(p)
    PROVE  LET c == [p.site EXCEPT !.db = "core"]
           IN /\ c \in Sites /\ c.db = "core" /\ c.admins = p.site.admins /\ c.tree = p.site.tree
              /\ Alike(p.site, c)
              /\ r.site = RunFiles(c) /\ r.code = p.code /\ r.up = p.up
              /\ r.schema = p.schema \/ (p.site.tree = "whole" /\ r.schema = Dump(p.code))
              /\ \/ r.schema = Dump(p.code)
                 \/ p.site.pending = <<>> \/ r.site.pending # <<>> \/ Dumped(r) = {}
<1> DEFINE c == [p.site EXCEPT !.db = "core"]
           d == Connected(p)
           q == [d EXCEPT !.site = RunFiles(@)]
<1>1. p.site \in Sites /\ p = [site |-> p.site, code |-> p.code, schema |-> p.schema, up |-> p.up]
  BY DEF Place, Orderly
<1>2. c \in Sites /\ c.db = "core" /\ c.admins = p.site.admins /\ c.tree = p.site.tree /\ Alike(p.site, c)
  BY <1>1 DEF Sites, Alike
<1>3. d = [p EXCEPT !.site = c]
  BY <1>1 DEF Connected
<1> HIDE DEF c, d
<1>4. /\ q.site = RunFiles(c) /\ q.code = p.code /\ q.schema = p.schema /\ q.up = p.up
      /\ q = [site |-> q.site, code |-> q.code, schema |-> q.schema, up |-> q.up]
  <2>1. /\ d.site = c /\ d.code = p.code /\ d.schema = p.schema /\ d.up = p.up
        /\ d = [site |-> d.site, code |-> d.code, schema |-> d.schema, up |-> d.up]
    BY <1>1, <1>3
  <2>2. q = [d EXCEPT !.site = RunFiles(c)]
    BY <2>1
  <2> HIDE DEF q
  <2>3. QED
    BY <2>1, <2>2
<1>5. r = q \/ r \in Dumped(q)
  BY DEF MigrateApply, d
<1>6. p.site.pending # <<>> /\ q.site.pending = <<>> /\ Dumped(q) # {} => r \in Dumped(q)
  BY DEF MigrateApply, d
<1> HIDE DEF q
<1>7. CASE r \in Dumped(q)
  <2>1. r = [q EXCEPT !.schema = Dump(q.code)]
    BY <1>7 DEF Dumped
  <2>2. r.site = q.site /\ r.code = q.code /\ r.schema = Dump(q.code) /\ r.up = q.up
    BY <1>4, <2>1
  <2>3. q.site.tree = "whole"
    BY <1>7 DEF Dumped
  <2>4. RunFiles(c).tree = c.tree
    BY <1>2, RunFilesType DEF Migrated
  <2>5. QED
    BY <1>2, <1>4, <2>2, <2>3, <2>4 DEF c
<1>8. CASE r \notin Dumped(q)
  <2>1. r = q /\ (p.site.pending = <<>> \/ q.site.pending # <<>> \/ Dumped(q) = {})
    BY <1>5, <1>6, <1>8
  <2>2. QED
    BY <1>2, <1>4, <2>1 DEF c
<1>9. QED
  BY <1>7, <1>8

LEMMA MigrationsApplied ==
    ASSUME JourneyInv, ApplyMigrations
    PROVE  /\ site.adding = <<>>
           /\ site' \in Sites /\ site'.tree = site.tree /\ site'.dirs = site.dirs
           /\ site'.mods = site.mods /\ site'.made = site.made /\ site'.clash = site.clash
           /\ site'.adding = <<>> /\ (Hopeless(site.pending) => Hopeless(site'.pending))
           /\ \A goal \in Columns :
                /\ LeadsTo(site.pending, site.tables, goal) => LeadsTo(site'.pending, site'.tables, goal)
                /\ LeadsAll(site.pending, site.tables, goal) => site'.pending = <<>> /\ site'.tables = goal
           /\ code' = code
           /\ schema' = schema \/ (site.tree = "whole" /\ schema' = Dump(code))
           /\ \/ schema' = Dump(code) \/ site.pending = <<>> \/ site'.pending # <<>>
              \/ site.tree # "whole" \/ ~Compiles(code) \/ "struct" \in site.clash
           /\ hint' \in {NoHint, "run", "schema"}
           /\ hint' = "schema" => /\ site.pending # <<>>
                                  /\ site.tree # "whole" \/ ~Compiles(code) \/ "struct" \in site.clash
<1>0. Place(Here) /\ Here.site = site /\ Here.code = code /\ Here.schema = schema
  BY HereType DEF Here
<1>1. PICK r \in MigrateApply(Here) :
          /\ To(r)
          /\ hint' = CASE site.pending = <<>> \/ r.site.pending # <<>> -> NoHint
                       [] OTHER -> IF Dumped(r) = {} THEN "schema" ELSE "run"
  BY DEF ApplyMigrations
<1> DEFINE c == [site EXCEPT !.db = "core"]
<1>2. /\ c \in Sites /\ c.tree = site.tree /\ Alike(site, c)
      /\ r.site = RunFiles(c) /\ r.code = code
      /\ r.schema = schema \/ (site.tree = "whole" /\ r.schema = Dump(code))
      /\ \/ r.schema = Dump(code)
         \/ site.pending = <<>> \/ r.site.pending # <<>> \/ Dumped(r) = {}
  BY <1>0, Migrates
<1> HIDE DEF c
<1>3. RunFiles(c) \in Migrated(c)
  BY <1>2, RunFilesType
<1>4. site' = RunFiles(c) /\ r.site = site' /\ code' = code /\ schema' = r.schema
  BY <1>1, <1>2 DEF To
<1>5. site.adding = <<>>
  BY DEF ApplyMigrations, InDirectory
<1>6. /\ site' \in Sites /\ site'.tree = site.tree /\ site'.dirs = site.dirs
      /\ site'.mods = site.mods /\ site'.made = site.made /\ site'.clash = site.clash
      /\ site'.adding = <<>> /\ (Hopeless(site.pending) => Hopeless(site'.pending))
      /\ \A goal \in Columns : LeadsTo(site.pending, site.tables, goal) =>
                                   LeadsTo(site'.pending, site'.tables, goal)
  <2> DEFINE w == RunFiles(c)
  <2>0. w \in Migrated(c)
    BY <1>3
  <2> HIDE DEF w
  <2>1. /\ w \in Sites /\ w.tree = c.tree /\ w.dirs = c.dirs /\ w.mods = c.mods
        /\ w.made = c.made /\ w.clash = c.clash /\ w.adding = c.adding
        /\ (Hopeless(c.pending) => Hopeless(w.pending))
        /\ \A goal \in Columns : LeadsTo(c.pending, c.tables, goal) =>
                                     LeadsTo(w.pending, w.tables, goal)
    BY <2>0 DEF Migrated
  <2>2. site' = w
    BY <1>4 DEF w
  <2>3. QED
    BY <1>2, <1>5, <2>1, <2>2 DEF Alike
<1>7. ASSUME NEW goal \in Columns, LeadsAll(site.pending, site.tables, goal)
      PROVE  site'.pending = <<>> /\ site'.tables = goal
  BY <1>2, <1>4, <1>7, RunsOut DEF Alike
<1>8. Dumped(r) = {} => site.tree # "whole" \/ ~Compiles(code) \/ "struct" \in site.clash
  <2>1. ASSUME r.site.tree = "whole", Compiles(r.code), "struct" \notin r.site.clash
        PROVE  Dumped(r) # {}
    <3>1. [r EXCEPT !.schema = Dump(r.code)] \in Dumped(r)
      BY <2>1 DEF Dumped
    <3>2. QED
      BY <3>1
  <2>2. QED
    BY <1>2, <1>4, <1>6, <2>1
<1>9. /\ hint' \in {NoHint, "run", "schema"}
      /\ hint' = "schema" => site.pending # <<>> /\ Dumped(r) = {}
  BY <1>1, Zenon DEF NoHint
<1>10. QED
  BY <1>2, <1>4, <1>5, <1>6, <1>7, <1>8, <1>9

\* A user is made, or the migrations are listed.
LEMMA OnlyConnected ==
    ASSUME JourneyInv, MigrateStatus \/ \E role \in {"admin", "user"} : CreateUser(role)
    PROVE  /\ site'.tree = site.tree /\ Alike(site, site') /\ site.adding = <<>>
           /\ code' = code /\ schema' = schema /\ hint' \in {NoHint, "run"}
<1>0. site \in Sites
  BY DEF JourneyInv, Orderly
<1>1. CASE MigrateStatus
  <2> DEFINE db == IF site.db = "none" THEN "file" ELSE site.db
  <2>1. site' = [site EXCEPT !.db = db] /\ code' = code /\ schema' = schema
        /\ hint' = NoHint /\ site.adding = <<>>
    BY <1>1 DEF MigrateStatus, InDirectory, To, Here, Opened
  <2> HIDE DEF db
  <2>2. QED
    BY <1>0, <2>1 DEF Sites, Alike
<1>2. ASSUME NEW role, CreateUser(role)
      PROVE  /\ site'.tree = site.tree /\ Alike(site, site') /\ site.adding = <<>>
             /\ code' = code /\ schema' = schema /\ hint' = "run"
  <2> DEFINE c == Connected(Here)
             n == IF role = "admin" THEN 1 ELSE c.site.admins
  <2>1. PICK q \in UserCreate(Here, role) : To(q)
    BY <1>2 DEF CreateUser
  <2>2. q = [c EXCEPT !.site.admins = n]
    BY <2>1 DEF UserCreate
  <2>3. c.site = [site EXCEPT !.db = "core"] /\ c.code = code /\ c.schema = schema
        /\ c = [site |-> c.site, code |-> c.code, schema |-> c.schema, up |-> c.up]
    BY DEF Connected, Here
  <2> HIDE DEF c, n
  <2>4. q.site = [c.site EXCEPT !.admins = n] /\ q.code = code /\ q.schema = schema
    BY <2>2, <2>3
  <2>5. site' = [c.site EXCEPT !.admins = n] /\ code' = code /\ schema' = schema
    BY <2>1, <2>4 DEF To
  <2>6. site'.tree = site.tree /\ Alike(site, site')
    BY <1>0, <2>3, <2>5 DEF Sites, Alike
  <2>7. QED
    BY <1>2, <2>5, <2>6 DEF CreateUser, InDirectory
<1>3. QED
  BY <1>1, <1>2

\* Only what was written changes the structs.
LEMMA StructsStay ==
    ASSUME WorkInv, Next, applied' = applied
    PROVE  code' = code
<1>1. ASSUME NEW plan, NEW c, NEW force, NEW shown, Execute(plan, c, force, shown) PROVE FALSE
  <2>1. applied' = Append(applied, Recorded(plan, c, force, shown)) /\ applied \in Seq(Entry)
    BY <1>1 DEF Execute, Recorded, WorkInv, PeopleTyped
  <2>2. Len(applied') = Len(applied) + 1 /\ Len(applied) \in Nat
    BY <2>1
  <2>3. QED
    BY <2>2
<1>2. QED
  BY <1>1, Writers

\* The schema file is written by a dump, and by nothing else.
LEMMA SchemaWriters ==
    ASSUME Next
    PROVE  schema' = schema \/ DumpSchema
BY DEF Next, InTerminal, InBrowser, AiPlan, AiApply, Change, Confirm, Leave, DumpSchema, EditContext,
       Start, Stop, OpenReview, PostApply, FinishApply, RefuseApply, ReadSchema, StoreSchema, Execute,
       project

LEMMA WorkDone ==
    ASSUME JourneyInv, Work
    PROVE  /\ site.tree = "whole" /\ site.adding = <<>>
           /\ site'.tree = "whole" /\ site'.adding = <<>> /\ site'.dirs = site.dirs
           /\ site'.mods = site.mods /\ site'.made = site.made /\ site'.clash = site.clash
           /\ site'.pending = site.pending \o Written /\ site'.tables = site.tables
           /\ applied' = applied => code' = code
           /\ schema' = schema \/ (Compiles(code) /\ schema' = Dump(code))
           /\ hint' = NoHint \/ (hint' = "migrate apply" /\ Written # <<>>)
<1> DEFINE s == IF server'.up THEN Opened(site) ELSE site
           list == site.pending \o Written
           db == IF site.db = "none" THEN "file" ELSE site.db
<1>0. site \in Sites /\ site.tree = "whole" /\ site.adding = <<>>
  BY DEF JourneyInv, Orderly, Work
<1>1. /\ s.tree = site.tree /\ s.dirs = site.dirs /\ s.mods = site.mods /\ s.made = site.made
      /\ s.clash = site.clash /\ s.adding = site.adding /\ s.pending = site.pending
      /\ s.tables = site.tables /\ s \in Sites
  <2>1. Opened(site) = [site EXCEPT !.db = db] /\ db \in {"none", "file", "core"}
    BY <1>0 DEF Opened, Sites
  <2> HIDE DEF db
  <2>2. QED
    BY <1>0, <2>1 DEF Sites
<1>2. site' = [s EXCEPT !.pending = list]
  <2>1. site' = [s EXCEPT !.pending = s.pending \o Written]
    BY DEF Work
  <2> HIDE DEF s
  <2>2. QED
    BY <1>1, <2>1
<1> HIDE DEF s, list
<1>3. /\ site'.tree = site.tree /\ site'.dirs = site.dirs /\ site'.mods = site.mods
      /\ site'.made = site.made /\ site'.clash = site.clash /\ site'.adding = site.adding
      /\ site'.pending = list /\ site'.tables = site.tables
  BY <1>1, <1>2 DEF Sites
<1>4. applied' = applied => code' = code
  BY StructsStay DEF JourneyInv, Work
<1>5. schema' = schema \/ (Compiles(code) /\ schema' = Dump(code))
  BY SchemaWriters DEF Work, DumpSchema
<1>6. hint' = NoHint \/ (hint' = "migrate apply" /\ Written # <<>>)
  BY Zenon DEF Work
<1>7. QED
  BY <1>0, <1>3, <1>4, <1>5, <1>6 DEF list

-----------------------------------------------------------------------------
(* The migrations that wait lead to the columns that the structs select. *)

\* The model that is being added is registered, and has no migration yet.
HalfWay(s) == s.adding # <<>> /\ Head(s.adding) \in s.mods

\* One that was broken off there.
Lost(s) == \E a \in s.mods \ s.made : s.adding = <<>> \/ Head(s.adding) # a

\* Half-way they lead to what the structs were before the scaffold was written.
Leading(s, c) ==
    IF HalfWay(s)
    THEN \E F \in SUBSET Fields :
            LeadsTo(s.pending, s.tables, Selected([c EXCEPT ![StructOf[Head(s.adding)]] = F]))
    ELSE LeadsTo(s.pending, s.tables, Selected(c))

Ready(s, c) ==
    /\ s.tree # "whole" => \A m \in Models : c[m] = NoModel
    /\ s.adding # <<>> => s.tree = "whole"
    /\ HalfWay(s) => Head(s.adding) \notin s.made /\ c[StructOf[Head(s.adding)]] = Scaffold
    /\ Lost(s) \/ Leading(s, c)

\* What is not looked at may change.
LEMMA ReadySame ==
    ASSUME NEW s, NEW r, NEW c, Ready(s, c), r.tree = s.tree, r.mods = s.mods, r.made = s.made,
           r.adding = s.adding, r.pending = s.pending, r.tables = s.tables
    PROVE  Ready(r, c)
BY DEF Ready, Lost, Leading, HalfWay

\* A table of its own is added to those of the others.
LEMMA OneMoreStruct ==
    ASSUME NEW c \in Shapes, NEW a \in Apps, NEW F \in SUBSET Fields, c[StructOf[a]] = Scaffold,
           Accepted(CreateTable(a), Selected([c EXCEPT ![StructOf[a]] = F]))
    PROVE  Effect(CreateTable(a), Selected([c EXCEPT ![StructOf[a]] = F])) = Selected(c)
<1> DEFINE n == StructOf[a]
           u == Slug[n]
           old == [c EXCEPT ![n] = F]
           of(d, v) == UNION {NamesOf(d[m]) : m \in {k \in Models : Slug[k] = v}}
<1>1. n \in Models /\ u \in Tables
  BY AppsAssumption DEF Tables
<1>2. \A m \in Models : m # n => old[m] = c[m]
  BY DEF Shapes
<1>3. /\ Selected(c) = [v \in Tables |-> of(c, v)]
      /\ Selected(old) = [v \in Tables |-> of(old, v)]
  BY DEF Selected
<1>4. CreateTable(a).op = "create" /\ CreateTable(a).table = u
      /\ CreateTable(a).columns = NamesOf(Scaffold)
  BY DEF CreateTable
<1>5. of(old, u) = {}
  BY <1>1, <1>3, <1>4, ZenonT(40) DEF Accepted
<1>6. Effect(CreateTable(a), Selected(old)) = [Selected(old) EXCEPT ![u] = NamesOf(Scaffold)]
  BY <1>4 DEF Effect
<1>7. c[n] = Scaffold
  OBVIOUS
<1> HIDE DEF u, n, old
<1>8. of(c, u) = NamesOf(Scaffold)
  <2>1. \A m \in Models : Slug[m] = u /\ m # n => NamesOf(c[m]) = {}
    BY <1>2, <1>5
  <2>2. n \in {k \in Models : Slug[k] = u}
    BY <1>1 DEF u
  <2>3. QED
    BY <1>7, <2>1, <2>2
<1>9. ASSUME NEW v \in Tables, v # u PROVE of(c, v) = of(old, v)
  <2>1. \A m \in {k \in Models : Slug[k] = v} : m # n
    BY <1>9 DEF u
  <2>2. \A m \in {k \in Models : Slug[k] = v} : old[m] = c[m]
    BY <1>2, <2>1
  <2>3. QED
    BY <2>2
<1>10. [Selected(old) EXCEPT ![u] = NamesOf(Scaffold)] = Selected(c)
  BY <1>1, <1>3, <1>8, <1>9, ZenonT(40)
<1>11. QED
  BY <1>6, <1>10 DEF old, n

LEMMA NoTables ==
    ASSUME NEW c \in Shapes, \A m \in Models : c[m] = NoModel
    PROVE  Selected(c) = [u \in Tables |-> {}]
<1>1. \A m \in Models : NamesOf(c[m]) = {}
  BY DEF NamesOf, NoModel
<1>2. \A u \in Tables : UNION {NamesOf(c[m]) : m \in {n \in Models : Slug[n] = u}} = {}
  BY <1>1
<1>3. QED
  BY <1>2 DEF Selected

LEMMA NothingYet ==
    ASSUME NEW c \in Shapes, \A m \in Models : c[m] = NoModel
    PROVE  Ready(NoSite, c)
<1>1. /\ NoSite.adding = <<>> /\ NoSite.pending = <<>>
      /\ NoSite.tables = [u \in Tables |-> {}]
  BY DEF NoSite
<1>2. LeadsTo(<<>>, NoSite.tables, Selected(c))
  BY <1>1, NoTables, SelectedType, LeadsToNone
<1>3. QED
  BY <1>1, <1>2 DEF Ready, Leading, HalfWay

LEMMA ReadyInit ==
    ASSUME ProjectInit, JourneyInv
    PROVE  Ready(site, code)
<1>0. code \in Shapes /\ day \in Days /\ code = day.code
  BY DEF JourneyInv, WorkInv, FilesTyped, ProjectInit, Init
<1>1. CASE day.apps # {}
  BY <1>0, <1>1, NothingYet, AppsAssumption DEF ProjectInit
<1>2. CASE day.apps = {}
  <2>1. /\ site.adding = <<>> /\ site.pending = <<>> /\ site.tree = "whole"
        /\ site.tables = Selected(code)
    BY <1>0, <1>2, OldSiteOrderly DEF ProjectInit
  <2>2. LeadsTo(<<>>, Selected(code), Selected(code))
    BY <1>0, SelectedType, LeadsToNone
  <2>3. QED
    BY <2>1, <2>2 DEF Ready, Leading, HalfWay
<1>3. QED
  BY <1>1, <1>2

LEMMA ScaffoldingReady ==
    ASSUME JourneyInv, Ready(site, code), Scaffolding
    PROVE  Ready(site', code')
BY Scaffolded DEF Alike, Ready, Lost, Leading, HalfWay

LEMMA StartModelReady ==
    ASSUME JourneyInv, Ready(site, code), NEW a \in Apps, StartModel(a)
    PROVE  Ready(site', code')
<1>1. site.mods \subseteq site.dirs
  BY DEF JourneyInv, Orderly
<1>2. /\ site.adding = <<>> /\ a \notin site.dirs
      /\ site'.tree = "whole" /\ site'.mods = site.mods /\ site'.made = site.made
      /\ site'.adding # <<>> /\ Head(site'.adding) = a
      /\ site'.pending = site.pending /\ site'.tables = site.tables /\ code' = code
  BY ModelStarted
<1>3. a \notin site.mods
  BY <1>1, <1>2
<1>4. ~HalfWay(site) /\ ~HalfWay(site')
  BY <1>2, <1>3 DEF HalfWay
<1>5. Lost(site) => Lost(site')
  BY <1>2, <1>3 DEF Lost
<1>6. Leading(site, code) => Leading(site', code')
  BY <1>2, <1>4 DEF Leading
<1>7. QED
  BY <1>2, <1>4, <1>5, <1>6 DEF Ready

LEMMA RegisterReady ==
    ASSUME JourneyInv, Ready(site, code), RegisterModel
    PROVE  Ready(site', code')
<1> DEFINE a == Head(site.adding)
           m == StructOf[a]
<1>0. site.made \subseteq site.mods /\ code \in Shapes
  BY DEF JourneyInv, Orderly, WorkInv, FilesTyped
<1>1. /\ site.adding # <<>> /\ a \in Apps /\ a \notin site.mods /\ m \in Models
      /\ site'.tree = site.tree /\ site'.mods = site.mods \cup {a} /\ site'.made = site.made
      /\ site'.adding = site.adding /\ site'.pending = site.pending
      /\ site'.tables = site.tables /\ code' = [code EXCEPT ![m] = Scaffold]
  BY ModelRegistered
<1> HIDE DEF a, m
<1>2. ~HalfWay(site) /\ HalfWay(site') /\ Head(site'.adding) = a /\ a \notin site'.made
  BY <1>0, <1>1 DEF HalfWay, a
<1>3. code'[m] = Scaffold /\ [code' EXCEPT ![m] = code[m]] = code /\ code[m] \in SUBSET Fields
  BY <1>0, <1>1 DEF Shapes
<1>4. Lost(site) => Lost(site')
  BY <1>1 DEF Lost
<1>5. Leading(site, code) => Leading(site', code')
  BY <1>1, <1>2, <1>3 DEF Leading, m
<1>6. site'.tree = "whole"
  BY <1>1 DEF Ready
<1>7. QED
  BY <1>2, <1>3, <1>4, <1>5, <1>6 DEF Ready, m

LEMMA FinishReady ==
    ASSUME JourneyInv, Ready(site, code), FinishModel
    PROVE  Ready(site', code')
<1> DEFINE a == Head(site.adding)
           f == CreateTable(a)
           list == Append(site.pending, f)
<1>0. site \in Sites /\ code \in Shapes
  BY DEF JourneyInv, Orderly, WorkInv, FilesTyped
<1>1. /\ site.adding # <<>> /\ a \in Apps /\ a \in site.mods
      /\ site'.tree = site.tree /\ site'.mods = site.mods /\ site'.made = site.made \cup {a}
      /\ site'.adding = <<>> /\ site'.pending = list /\ site'.tables = site.tables
      /\ code' = code
  BY ModelFinished
<1>2. f \in MigrationFiles
  BY <1>1, CreateTableType
<1> HIDE DEF a, f, list
<1>3. HalfWay(site) /\ ~HalfWay(site')
  BY <1>1 DEF HalfWay, a
<1>4. Lost(site) => Lost(site')
  BY <1>1 DEF Lost, a
<1>5. ASSUME Leading(site, code) PROVE LeadsTo(list, site.tables, Selected(code))
  <2> DEFINE m == StructOf[a]
  <2>1. PICK F \in SUBSET Fields :
            LeadsTo(site.pending, site.tables, Selected([code EXCEPT ![m] = F]))
    BY <1>3, <1>5 DEF Leading, a
  <2> DEFINE old == [code EXCEPT ![m] = F]
  <2>2. old \in Shapes
    BY <1>0 DEF Shapes
  <2>3. code[m] = Scaffold
    BY <1>3 DEF Ready, a
  <2>4. Accepted(f, Selected(old)) => Effect(f, Selected(old)) = Selected(code)
    BY <1>0, <1>1, <2>3, OneMoreStruct DEF f
  <2> HIDE DEF old
  <2>5. Selected(old) \in Columns /\ Selected(code) \in Columns
    BY <1>0, <2>2, SelectedType
  <2>6. site.pending \in Seq(MigrationFiles) /\ site.tables \in Columns
    BY <1>0 DEF Sites
  <2>7. LeadsTo(site.pending, site.tables, Selected(old))
    BY <2>1 DEF old
  <2>8. QED
    BY <1>2, <2>4, <2>5, <2>6, <2>7, LeadsToNext DEF list
<1>6. Leading(site, code) => Leading(site', code')
  BY <1>1, <1>3, <1>5 DEF Leading
<1>7. site'.tree # "whole" => \A m \in Models : code'[m] = NoModel
  BY <1>1 DEF Ready
<1>8. QED
  BY <1>1, <1>3, <1>4, <1>6, <1>7 DEF Ready

\* Killed, or started over.
LEMMA BrokenOffReady ==
    ASSUME JourneyInv, Ready(site, code), InitKilled \/ StartOver \/ ModelInterrupted
    PROVE  Ready(site', code')
<1>1. CASE InitKilled
  BY <1>1, ScaffoldingKilled DEF Alike, Ready, Lost, Leading, HalfWay
<1>2. CASE StartOver
  <2>1. code \in Shapes /\ code' = code /\ \A m \in Models : code[m] = NoModel
    BY <1>2 DEF StartOver, Ready, JourneyInv, WorkInv, FilesTyped, vars
  <2>2. QED
    BY <1>2, <2>1, NothingYet DEF StartOver
<1>3. CASE ModelInterrupted
  <2> DEFINE a == Head(site.adding)
  <2>1. /\ site.adding # <<>> /\ site'.adding = <<>>
        /\ site'.tree = site.tree /\ site'.mods = site.mods /\ site'.made = site.made
        /\ site'.pending = site.pending /\ site'.tables = site.tables /\ code' = code
    BY <1>3, ModelBrokenOff
  <2>2. ~HalfWay(site')
    BY <2>1 DEF HalfWay
  <2>3. CASE HalfWay(site)
    <3>1. a \in site'.mods \ site'.made
      BY <2>1, <2>3 DEF Ready, HalfWay
    <3>2. Lost(site')
      BY <2>1, <3>1 DEF Lost
    <3>3. QED
      BY <2>1, <2>2, <3>2 DEF Ready
  <2>4. CASE ~HalfWay(site)
    <3>1. Lost(site) => Lost(site')
      BY <2>1 DEF Lost
    <3>2. Leading(site, code) => Leading(site', code')
      BY <2>1, <2>2, <2>4 DEF Leading
    <3>3. QED
      BY <2>1, <2>2, <3>1, <3>2 DEF Ready
  <2>5. QED
    BY <2>3, <2>4
<1>4. QED
  BY <1>1, <1>2, <1>3

LEMMA ApplyReady ==
    ASSUME JourneyInv, Ready(site, code), ApplyMigrations
    PROVE  Ready(site', code')
<1>1. /\ site.adding = <<>> /\ site'.adding = <<>> /\ site'.tree = site.tree
      /\ site'.mods = site.mods /\ site'.made = site.made /\ code' = code
      /\ \A goal \in Columns : LeadsTo(site.pending, site.tables, goal) =>
                                  LeadsTo(site'.pending, site'.tables, goal)
  BY MigrationsApplied
<1>2. Selected(code) \in Columns
  BY SelectedType DEF JourneyInv, WorkInv, FilesTyped
<1>3. QED
  BY <1>1, <1>2 DEF Ready, Lost, Leading, HalfWay

LEMMA UserReady ==
    ASSUME JourneyInv, Ready(site, code), MigrateStatus \/ \E role \in {"admin", "user"} : CreateUser(role)
    PROVE  Ready(site', code')
BY OnlyConnected, ReadySame DEF Alike

\* What a plan writes leads from the structs that were to those that are.
LEMMA WrittenLeads ==
    ASSUME JourneyInv, WorkInv', applied' # applied
    PROVE  \E f \in MigrationFiles :
               /\ Written = <<f>> /\ f.op = "alter"
               /\ Effect(f, Selected(code)) = Selected(code')
               /\ ~f.refused => Accepted(f, Selected(code))
<1> DEFINE n == NeverAccepted(Last(applied').plan)
           f == [op |-> "alter", before |-> Selected(code), after |-> Selected(code'), refused |-> n]
<1>0. Selected(code) \in Columns /\ Selected(code') \in Columns
  BY SelectedType DEF JourneyInv, WorkInv, FilesTyped
<1>1. Written = <<f>>
  BY Zenon DEF Written
<1>2. n \in BOOLEAN
  BY DEF NeverAccepted
<1>3. f.op = "alter" /\ f.before = Selected(code) /\ f.after = Selected(code')
  OBVIOUS
<1> HIDE DEF n
<1>4. f \in MigrationFiles
  BY <1>0, <1>2 DEF MigrationFiles
<1> HIDE DEF f
<1>5. Effect(f, Selected(code)) = Selected(code')
  <2>1. Effect(f, Selected(code)) = [u \in Tables |->
            IF f.before[u] # f.after[u] THEN f.after[u] ELSE Selected(code)[u]]
    BY <1>3 DEF Effect
  <2>2. \A u \in Tables : (IF f.before[u] # f.after[u] THEN f.after[u] ELSE Selected(code)[u])
                              = Selected(code')[u]
    BY <1>3
  <2>3. QED
    BY <1>0, <2>1, <2>2 DEF Columns
<1>6. ~f.refused => Accepted(f, Selected(code))
  BY <1>3 DEF Accepted
<1>7. QED
  BY <1>1, <1>3, <1>4, <1>5, <1>6

LEMMA WorkReady ==
    ASSUME JourneyInv, Ready(site, code), Work, WorkInv'
    PROVE  Ready(site', code')
<1>0. /\ site \in Sites /\ code \in Shapes /\ code' \in Shapes
  BY DEF JourneyInv, Orderly, WorkInv, FilesTyped
<1>1. /\ site.tree = "whole" /\ site.adding = <<>> /\ site'.tree = "whole" /\ site'.adding = <<>>
      /\ site'.mods = site.mods /\ site'.made = site.made
      /\ site'.pending = site.pending \o Written /\ site'.tables = site.tables
      /\ applied' = applied => code' = code
  BY WorkDone
<1>2. Selected(code) \in Columns /\ Selected(code') \in Columns
  BY <1>0, SelectedType
<1>3. site.pending \in Seq(MigrationFiles) /\ site.tables \in Columns
  BY <1>0 DEF Sites
<1>4. ASSUME LeadsTo(site.pending, site.tables, Selected(code))
      PROVE  LeadsTo(site'.pending, site.tables, Selected(code'))
  <2>1. CASE applied' = applied
    <3>1. Written = <<>>
      BY <2>1 DEF Written
    <3>2. site'.pending = site.pending
      BY <1>1, <1>3, <3>1
    <3>3. QED
      BY <1>1, <1>4, <2>1, <3>2
  <2>2. CASE applied' # applied
    <3>1. PICK f \in MigrationFiles :
              Written = <<f>> /\ Effect(f, Selected(code)) = Selected(code')
      BY <2>2, WrittenLeads
    <3>2. site'.pending = Append(site.pending, f)
      BY <1>1, <1>3, <3>1
    <3>3. QED
      BY <1>2, <1>3, <1>4, <3>1, <3>2, LeadsToNext
  <2>3. QED
    BY <2>1, <2>2
<1>5. QED
  BY <1>1, <1>4 DEF Ready, Lost, Leading, HalfWay

LEMMA ReadyGoesOn ==
    ASSUME JourneyInv, Ready(site, code), [ProjectNext]_SiteVars
    PROVE  Ready(site', code')
<1>1. CASE Work
  BY <1>1, DayAtWork, WorkReady
<1>2. CASE \E a \in day.apps : StartModel(a)
  <2>1. PICK a \in Apps : StartModel(a)
    BY <1>2, AppsAssumption DEF JourneyInv, WorkInv, FilesTyped
  <2>2. QED
    BY <2>1, StartModelReady
<1>3. CASE UNCHANGED SiteVars
  <2>1. site' = site /\ code' = code
    BY <1>3 DEF SiteVars, vars
  <2>2. QED
    BY <2>1
<1>4. QED
  BY <1>1, <1>2, <1>3, ScaffoldingReady, RegisterReady, FinishReady, BrokenOffReady, ApplyReady,
     UserReady DEF ProjectNext

\* In every project the migrations that wait lead from the tables to the structs,
\* but for a model that was registered and never got its migration.
ReadyNow == Ready(site, code)

LEMMA AlwaysReady == ProjectSpec => []ReadyNow
<1>1. ProjectInit => ReadyNow
  BY JourneyBegins, ReadyInit DEF ReadyNow
<1>2. JourneyInv /\ ReadyNow /\ [ProjectNext]_SiteVars => ReadyNow'
  BY ReadyGoesOn DEF ReadyNow
<1>3. QED
  BY <1>1, <1>2, Journeys, PTL DEF ProjectSpec

-----------------------------------------------------------------------------
(* What the developer is told leads on. *)

\* Nothing stands in the way of the migrations that wait.
Unharmed(s) == s.clash = {} /\ ~Hopeless(s.pending) /\ ~Lost(s)

\* The structs as they were before the scaffold of the model that is being added.
Before(s, c) == [c EXCEPT ![StructOf[Head(s.adding)]] = NoModel]

\* They are all accepted.
Smooth(s, c) ==
    Unharmed(s) =>
        IF HalfWay(s)
        THEN /\ LeadsAll(s.pending, s.tables, Selected(Before(s, c)))
             /\ Selected(Before(s, c))[Slug[StructOf[Head(s.adding)]]] = {}
        ELSE LeadsAll(s.pending, s.tables, Selected(c))

\* Then the schema file asks for no column that is not there.
Fits(s, c, f) ==
    Unharmed(s) /\ s.pending = <<>> /\ Compiles(c) =>
        f = Missing \/ \A m \in Models \ Core : NamesOf(f[m]) \subseteq s.tables[Slug[m]]

\* Before the scaffold is whole there is nothing else.
Early(s, f) == s.tree # "whole" => f = Missing /\ s.dirs = {} /\ s.pending = <<>>

\* The hint of the last command is still of use.
Said(s, c, h) ==
    /\ h \in {NoHint, "add model", "migrate apply", "schema", "run"}
    /\ s.adding # <<>> => h = NoHint
    /\ h = "add model" => s.tree = "whole" /\ s.dirs = {}
    /\ h = "migrate apply" => s.pending # <<>>
    /\ h = "schema" => "struct" \in s.clash \/ ~Compiles(c)

Advisory(s, c, f, h) == Smooth(s, c) /\ Fits(s, c, f) /\ Early(s, f) /\ Said(s, c, h)

\* What is dumped asks for the columns that the structs select.
LEMMA DumpFits ==
    ASSUME NEW c \in Shapes, NEW m \in Models \ Core
    PROVE  NamesOf(Dump(c)[m]) \subseteq Selected(c)[Slug[m]]
<1>1. Dump(c)[m] = c[m] /\ Slug[m] \in Tables
  BY DEF Dump, Tables
<1>2. Selected(c)[Slug[m]] = UNION {NamesOf(c[n]) : n \in {k \in Models : Slug[k] = Slug[m]}}
  BY <1>1 DEF Selected
<1>3. m \in {k \in Models : Slug[k] = Slug[m]}
  OBVIOUS
<1>4. QED
  BY <1>1, <1>2, <1>3

LEMMA NoHintIsNone ==
    NoHint \notin {"add model", "migrate apply", "schema", "run"}
BY DEF NoHint

\* What is not looked at may change.
LEMMA AdvisorySame ==
    ASSUME NEW s, NEW r, NEW c, NEW f, NEW h, Advisory(s, c, f, h), Alike(s, r), r.tree = s.tree
    PROVE  Advisory(r, c, f, h)
BY DEF Advisory, Alike, Smooth, Fits, Early, Said, Unharmed, Lost, HalfWay, Before

LEMMA AdvisoryInit ==
    ASSUME ProjectInit, JourneyInv
    PROVE  Advisory(site, code, schema, hint)
<1>0. code \in Shapes /\ day \in Days /\ code = day.code /\ schema \in {Missing, Dump(code)}
      /\ hint = NoHint /\ Selected(code) \in Columns
  BY SelectedType DEF JourneyInv, WorkInv, FilesTyped, ProjectInit, Init
<1>1. CASE day.apps # {}
  <2>1. site = NoSite /\ schema = Missing /\ \A m \in Models : code[m] = NoModel
    BY <1>0, <1>1, AppsAssumption DEF ProjectInit
  <2>2. /\ site.adding = <<>> /\ site.pending = <<>> /\ site.dirs = {} /\ site.tree = "none"
        /\ site.tables = Selected(code)
    BY <1>0, <2>1, NoTables DEF NoSite
  <2>3. LeadsAll(site.pending, site.tables, Selected(code))
    BY <1>0, <2>2, LeadsAllNone
  <2>4. QED
    BY <1>0, <2>1, <2>2, <2>3, NoHintIsNone
       DEF Advisory, Smooth, Fits, Early, Said, HalfWay
<1>2. CASE day.apps = {}
  <2>1. /\ site.adding = <<>> /\ site.pending = <<>> /\ site.tree = "whole"
        /\ site.tables = Selected(code)
    BY <1>0, <1>2, OldSiteOrderly DEF ProjectInit
  <2>2. LeadsAll(site.pending, site.tables, Selected(code))
    BY <1>0, <2>1, LeadsAllNone
  <2>3. Fits(site, code, schema)
    BY <1>0, <2>1, DumpFits DEF Fits
  <2>4. QED
    BY <1>0, <2>1, <2>2, <2>3, NoHintIsNone DEF Advisory, Smooth, Early, Said, HalfWay
<1>3. QED
  BY <1>1, <1>2

LEMMA ScaffoldingAdvisory ==
    ASSUME JourneyInv, ReadyNow, Advisory(site, code, schema, hint), Scaffolding
    PROVE  Advisory(site', code', schema', hint')
<1>1. /\ site.tree = "none" /\ site'.tree = "whole" /\ Alike(site, site')
      /\ code' = code /\ schema' = schema /\ hint' = "add model"
  BY Scaffolded
<1>2. site'.adding = <<>> /\ site'.dirs = {}
  BY <1>1 DEF ReadyNow, Ready, Alike, Advisory, Early
<1>3. Said(site', code', hint')
  BY <1>1, <1>2, NoHintIsNone DEF Said
<1>4. Early(site', schema')
  BY <1>1 DEF Early
<1>5. Smooth(site', code') /\ Fits(site', code', schema')
  BY <1>1 DEF Advisory, Alike, Smooth, Fits, Unharmed, Lost, HalfWay, Before
<1>6. QED
  BY <1>3, <1>4, <1>5 DEF Advisory

LEMMA StartModelAdvisory ==
    ASSUME JourneyInv, Advisory(site, code, schema, hint), NEW a \in Apps, StartModel(a)
    PROVE  Advisory(site', code', schema', hint')
<1>1. site.mods \subseteq site.dirs
  BY DEF JourneyInv, Orderly
<1>2. /\ site.adding = <<>> /\ a \notin site.dirs
      /\ site'.tree = "whole" /\ site'.mods = site.mods /\ site'.made = site.made
      /\ site'.clash = site.clash /\ site'.adding # <<>> /\ Head(site'.adding) = a
      /\ site'.pending = site.pending /\ site'.tables = site.tables /\ code' = code
      /\ schema' = schema /\ hint' = NoHint
  BY ModelStarted
<1>3. a \notin site.mods
  BY <1>1, <1>2
<1>4. ~HalfWay(site) /\ ~HalfWay(site')
  BY <1>2, <1>3 DEF HalfWay
<1>5. Unharmed(site') => Unharmed(site)
  BY <1>2, <1>3 DEF Unharmed, Lost
<1>6. Smooth(site', code')
  BY <1>2, <1>4, <1>5 DEF Advisory, Smooth
<1>7. Fits(site', code', schema')
  BY <1>2, <1>5 DEF Advisory, Fits
<1>8. Early(site', schema') /\ Said(site', code', hint')
  BY <1>2, NoHintIsNone DEF Early, Said
<1>9. QED
  BY <1>6, <1>7, <1>8 DEF Advisory

\* A scaffold that stands alone has taken the place of no struct and no table.
LEMMA RegisterAdvisory ==
    ASSUME JourneyInv, ReadyNow, Advisory(site, code, schema, hint), RegisterModel
    PROVE  Advisory(site', code', schema', hint')
<1> DEFINE a == Head(site.adding)
           m == StructOf[a]
<1>0. code \in Shapes /\ schema \in Shapes \cup {Missing}
  BY DEF JourneyInv, WorkInv, FilesTyped
<1>1. /\ site.adding # <<>> /\ a \in Apps /\ a \notin site.mods /\ m \in Models
      /\ site'.tree = site.tree /\ site'.adding = site.adding /\ site'.dirs = site.dirs
      /\ site'.mods = site.mods \cup {a} /\ site'.made = site.made
      /\ site'.clash = site.clash \cup Clashes(a, Here)
      /\ site'.pending = site.pending /\ site'.tables = site.tables
      /\ code' = [code EXCEPT ![m] = Scaffold]
      /\ schema' = schema /\ hint' = hint
  BY ModelRegistered
<1>2. Clashes(a, Here) = {} => code[m] = NoModel /\ Selected(code)[Slug[m]] = {}
  <2>1. code[m] # NoModel => "struct" \in Clashes(a, Here)
    BY DEF Clashes, Here
  <2>2. Selected(code)[Slug[m]] # {} => "table" \in Clashes(a, Here)
    BY DEF Clashes, Here
  <2>3. QED
    BY <2>1, <2>2
<1> HIDE DEF a, m
<1>3. ~HalfWay(site) /\ HalfWay(site') /\ Head(site'.adding) = a
  BY <1>1 DEF HalfWay, a
<1>4. site.tree = "whole" /\ hint = NoHint
  BY <1>1 DEF ReadyNow, Ready, Advisory, Said
<1>5. Unharmed(site') => Unharmed(site) /\ Clashes(a, Here) = {}
  BY <1>1 DEF Unharmed, Lost
<1>6. Unharmed(site') => Before(site', code') = code
  <2>1. SUFFICES ASSUME Unharmed(site') PROVE [code' EXCEPT ![m] = NoModel] = code
    BY <1>3 DEF Before, m
  <2>2. code[m] = NoModel
    BY <1>2, <1>5, <2>1
  <2>3. QED
    BY <1>0, <1>1, <2>2 DEF Shapes
<1>7. Smooth(site', code')
  BY <1>1, <1>2, <1>3, <1>5, <1>6 DEF Advisory, Smooth, m
<1>8. Fits(site', code', schema')
  <2>1. SUFFICES ASSUME Unharmed(site'), site'.pending = <<>>, Compiles(code')
                 PROVE  schema' = Missing \/
                            \A n \in Models \ Core : NamesOf(schema'[n]) \subseteq site'.tables[Slug[n]]
    BY DEF Fits
  <2>2. code[m] = NoModel
    BY <1>2, <1>5, <2>1
  <2>3. \A n \in Models : code[n] # NoModel => code'[n] = code[n]
    BY <1>0, <1>1, <2>2 DEF Shapes
  <2>4. Compiles(code)
    BY <2>1, <2>3 DEF Compiles
  <2>5. QED
    BY <1>1, <1>5, <2>1, <2>4 DEF Advisory, Fits
<1>9. Early(site', schema') /\ Said(site', code', hint')
  BY <1>1, <1>4, NoHintIsNone DEF Early, Said
<1>10. QED
  BY <1>7, <1>8, <1>9 DEF Advisory

\* Its migration is accepted where the others lead to.
LEMMA FinishAdvisory ==
    ASSUME JourneyInv, ReadyNow, Advisory(site, code, schema, hint), FinishModel
    PROVE  Advisory(site', code', schema', hint')
<1> DEFINE a == Head(site.adding)
           f == CreateTable(a)
           list == Append(site.pending, f)
           old == Before(site, code)
<1>0. /\ site \in Sites /\ code \in Shapes /\ site.pending \in Seq(MigrationFiles)
      /\ site.tables \in Columns
  BY DEF JourneyInv, Orderly, WorkInv, FilesTyped, Sites
<1>1. /\ site.adding # <<>> /\ a \in Apps /\ a \in site.mods
      /\ site'.tree = site.tree /\ site'.adding = <<>> /\ site'.dirs = site.dirs
      /\ site'.mods = site.mods /\ site'.made = site.made \cup {a}
      /\ site'.clash = site.clash /\ site'.tables = site.tables
      /\ site'.pending = list
      /\ code' = code /\ schema' = schema /\ hint' = "migrate apply"
  BY ModelFinished
<1>2. f \in MigrationFiles /\ f.op = "create" /\ f.table = Slug[StructOf[a]]
  BY <1>1, CreateTableType DEF CreateTable
<1>3. old = [code EXCEPT ![StructOf[a]] = NoModel]
  BY DEF Before
<1> HIDE DEF a, f, list, old
<1>4. HalfWay(site) /\ ~HalfWay(site') /\ site.tree = "whole"
  BY <1>1 DEF HalfWay, a, ReadyNow, Ready
<1>5. list # <<>> /\ list \in Seq(MigrationFiles) /\ (Hopeless(site.pending) => Hopeless(list))
  <2>1. list # <<>> /\ list \in Seq(MigrationFiles)
        /\ \A i \in DOMAIN site.pending : i \in DOMAIN list /\ list[i] = site.pending[i]
    BY <1>0, <1>2 DEF list
  <2>2. QED
    BY <2>1 DEF Hopeless
<1>6. Unharmed(site') => Unharmed(site)
  BY <1>1, <1>5 DEF Unharmed, Lost, a
<1>7. ASSUME Unharmed(site') PROVE LeadsAll(list, site.tables, Selected(code))
  <2>1. LeadsAll(site.pending, site.tables, Selected(old))
        /\ Selected(old)[Slug[StructOf[a]]] = {}
    BY <1>4, <1>6, <1>7 DEF Advisory, Smooth, old, a
  <2>2. code[StructOf[a]] = Scaffold
    BY <1>4 DEF ReadyNow, Ready, a
  <2>3. Accepted(f, Selected(old))
    BY <1>2, <2>1 DEF Accepted
  <2>4. NoModel \in SUBSET Fields /\ old \in Shapes
    BY <1>0, <1>3 DEF Shapes, NoModel
  <2>5. Effect(f, Selected(old)) = Selected(code)
    BY <1>0, <1>1, <1>3, <2>2, <2>3, <2>4, OneMoreStruct DEF f
  <2>6. Selected(old) \in Columns /\ Selected(code) \in Columns
    BY <1>0, <2>4, SelectedType
  <2>7. QED
    BY <1>0, <1>2, <2>1, <2>3, <2>5, <2>6, LeadsAllNext DEF list
<1>8. Smooth(site', code')
  BY <1>1, <1>4, <1>7 DEF Smooth
<1>9. Fits(site', code', schema') /\ Early(site', schema')
  BY <1>1, <1>4, <1>5 DEF Fits, Early
<1>10. Said(site', code', hint')
  BY <1>1, <1>5, NoHintIsNone DEF Said
<1>11. QED
  BY <1>8, <1>9, <1>10 DEF Advisory

\* Killed, or started over.
LEMMA BrokenOffAdvisory ==
    ASSUME JourneyInv, ReadyNow, Advisory(site, code, schema, hint),
           InitKilled \/ StartOver \/ ModelInterrupted
    PROVE  Advisory(site', code', schema', hint')
<1>1. CASE InitKilled
  <2>1. /\ site.tree = "none" /\ site'.tree # "whole" /\ Alike(site, site')
        /\ code' = code /\ schema' = schema /\ hint' = NoHint
    BY <1>1, ScaffoldingKilled
  <2>2. Smooth(site', code') /\ Fits(site', code', schema')
    BY <2>1 DEF Advisory, Alike, Smooth, Fits, Unharmed, Lost, HalfWay, Before
  <2>3. Early(site', schema') /\ Said(site', code', hint')
    BY <2>1, NoHintIsNone DEF Advisory, Alike, Early, Said
  <2>4. QED
    BY <2>2, <2>3 DEF Advisory
<1>2. CASE StartOver
  <2>1. /\ site.tree # "whole" /\ site' = NoSite /\ code' = code /\ schema' = schema
        /\ hint' = NoHint /\ code \in Shapes
    BY <1>2 DEF StartOver, vars, JourneyInv, WorkInv, FilesTyped
  <2>2. schema = Missing /\ \A m \in Models : code[m] = NoModel
    BY <2>1 DEF Advisory, Early, ReadyNow, Ready
  <2>3. /\ NoSite.adding = <<>> /\ NoSite.pending = <<>> /\ NoSite.dirs = {}
        /\ NoSite.tables = Selected(code)
    BY <2>1, <2>2, NoTables DEF NoSite
  <2>4. Selected(code) \in Columns
    BY <2>1, SelectedType
  <2>5. LeadsAll(NoSite.pending, NoSite.tables, Selected(code))
    BY <2>3, <2>4, LeadsAllNone
  <2>6. QED
    BY <2>1, <2>2, <2>3, <2>5, NoHintIsNone
       DEF Advisory, Smooth, Fits, Early, Said, HalfWay
<1>3. CASE ModelInterrupted
  <2>1. /\ site.adding # <<>> /\ site'.adding = <<>>
        /\ site'.tree = site.tree /\ site'.dirs = site.dirs /\ site'.mods = site.mods
        /\ site'.made = site.made /\ site'.clash = site.clash
        /\ site'.pending = site.pending /\ site'.tables = site.tables
        /\ code' = code /\ schema' = schema /\ hint' = hint
    BY <1>3, ModelBrokenOff
  <2>2. HalfWay(site) => Lost(site')
    BY <2>1 DEF ReadyNow, Ready, HalfWay, Lost
  <2>3. Unharmed(site') => Unharmed(site) /\ ~HalfWay(site)
    BY <2>1, <2>2 DEF Unharmed, Lost
  <2>4. Smooth(site', code') /\ Fits(site', code', schema')
    BY <2>1, <2>3 DEF Advisory, Smooth, Fits, HalfWay
  <2>5. Early(site', schema') /\ Said(site', code', hint')
    BY <2>1 DEF Advisory, Early, Said
  <2>6. QED
    BY <2>4, <2>5 DEF Advisory
<1>4. QED
  BY <1>1, <1>2, <1>3

\* What waits is applied to the last file, and the schema is dumped.
LEMMA ApplyAdvisory ==
    ASSUME JourneyInv, Advisory(site, code, schema, hint), ApplyMigrations
    PROVE  Advisory(site', code', schema', hint')
<1>0. /\ site \in Sites /\ code \in Shapes /\ site.tables \in Columns
      /\ Selected(code) \in Columns
  BY SelectedType DEF JourneyInv, Orderly, WorkInv, FilesTyped, Sites
<1>1. /\ site.adding = <<>>
      /\ site'.tree = site.tree /\ site'.dirs = site.dirs
      /\ site'.mods = site.mods /\ site'.made = site.made /\ site'.clash = site.clash
      /\ site'.adding = <<>> /\ (Hopeless(site.pending) => Hopeless(site'.pending))
      /\ \A goal \in Columns :
            LeadsAll(site.pending, site.tables, goal) => site'.pending = <<>> /\ site'.tables = goal
      /\ code' = code
      /\ schema' = schema \/ (site.tree = "whole" /\ schema' = Dump(code))
      /\ \/ schema' = Dump(code) \/ site.pending = <<>> \/ site'.pending # <<>>
         \/ site.tree # "whole" \/ ~Compiles(code) \/ "struct" \in site.clash
      /\ hint' \in {NoHint, "run", "schema"}
      /\ hint' = "schema" => /\ site.pending # <<>>
                             /\ site.tree # "whole" \/ ~Compiles(code) \/ "struct" \in site.clash
  BY MigrationsApplied
<1>2. ~HalfWay(site) /\ ~HalfWay(site')
  BY <1>1 DEF HalfWay
<1>3. Unharmed(site') => Unharmed(site)
  BY <1>1 DEF Unharmed, Lost
<1>4. Unharmed(site) => /\ LeadsAll(site.pending, site.tables, Selected(code))
                        /\ site'.pending = <<>> /\ site'.tables = Selected(code)
  BY <1>0, <1>1, <1>2 DEF Advisory, Smooth
<1>5. Smooth(site', code')
  <2>1. ASSUME Unharmed(site') PROVE LeadsAll(site'.pending, site'.tables, Selected(code))
    BY <1>0, <1>3, <1>4, <2>1, LeadsAllNone
  <2>2. QED
    BY <1>1, <1>2, <2>1 DEF Smooth
<1>6. Fits(site', code', schema')
  <2>1. SUFFICES ASSUME Unharmed(site'), Compiles(code), schema' # Missing
                 PROVE  \A m \in Models \ Core : NamesOf(schema'[m]) \subseteq site'.tables[Slug[m]]
    BY <1>1 DEF Fits
  <2>2. CASE schema' = Dump(code)
    BY <1>0, <1>3, <1>4, <2>1, <2>2, DumpFits
  <2>3. CASE schema' # Dump(code)
    <3>1. "struct" \notin site.clash /\ site'.pending = <<>>
      BY <1>1, <1>3, <1>4, <2>1 DEF Unharmed
    <3>2. site.pending = <<>>
      BY <1>1, <2>1, <2>3, <3>1 DEF Advisory, Early
    <3>3. site.tables = Selected(code)
      BY <1>3, <1>4, <2>1, <3>2, AllLedTo
    <3>4. site'.tables = site.tables /\ schema' = schema
      BY <1>1, <1>3, <1>4, <2>1, <2>3, <3>3
    <3>5. QED
      BY <1>3, <2>1, <3>2, <3>4 DEF Advisory, Fits
  <2>4. QED
    BY <2>2, <2>3
<1>7. Early(site', schema')
  <2>1. SUFFICES ASSUME site.tree # "whole" PROVE site'.pending = <<>>
    BY <1>1 DEF Advisory, Early
  <2>2. LeadsAll(site.pending, site.tables, site.tables)
    BY <1>0, <2>1, LeadsAllNone DEF Advisory, Early
  <2>3. QED
    BY <1>0, <1>1, <2>2
<1>8. Said(site', code', hint')
  <2>1. hint' = "schema" => "struct" \in site'.clash \/ ~Compiles(code')
    BY <1>1 DEF Advisory, Early
  <2>2. QED
    BY <1>1, <2>1, NoHintIsNone DEF Said
<1>9. QED
  BY <1>5, <1>6, <1>7, <1>8 DEF Advisory

LEMMA UserAdvisory ==
    ASSUME JourneyInv, Advisory(site, code, schema, hint),
           MigrateStatus \/ \E role \in {"admin", "user"} : CreateUser(role)
    PROVE  Advisory(site', code', schema', hint')
<1>1. /\ site'.tree = site.tree /\ Alike(site, site') /\ site.adding = <<>>
      /\ code' = code /\ schema' = schema /\ hint' \in {NoHint, "run"}
  BY OnlyConnected
<1>2. Advisory(site', code', schema', hint)
  BY <1>1, AdvisorySame
<1>3. Said(site', code', hint')
  BY <1>1, NoHintIsNone DEF Alike, Said
<1>4. QED
  BY <1>2, <1>3 DEF Advisory

LEMMA HopelessJoined ==
    ASSUME NEW s \in Seq(MigrationFiles), NEW t \in Seq(MigrationFiles)
    PROVE  Hopeless(s) \/ Hopeless(t) => Hopeless(s \o t)
<1> DEFINE list == s \o t
<1>1. /\ Len(list) = Len(s) + Len(t) /\ Len(s) \in Nat /\ Len(t) \in Nat
      /\ DOMAIN s = 1..Len(s) /\ DOMAIN t = 1..Len(t)
  OBVIOUS
<1>2. DOMAIN list = 1..Len(list)
  <2>1. list \in Seq(MigrationFiles)
    OBVIOUS
  <2> HIDE DEF list
  <2>2. QED
    BY <2>1
<1>3. \A i \in 1..Len(s) : list[i] = s[i]
  OBVIOUS
<1>4. \A i \in 1..Len(t) : list[Len(s) + i] = t[i]
  OBVIOUS
<1> HIDE DEF list
<1>5. /\ \A i \in DOMAIN s : i \in DOMAIN list /\ list[i] = s[i]
      /\ \A i \in DOMAIN t : Len(s) + i \in DOMAIN list /\ list[Len(s) + i] = t[i]
  BY <1>1, <1>3, <1>4, <1>2
<1>6. Hopeless(s) => Hopeless(list)
  BY <1>5 DEF Hopeless
<1>7. Hopeless(t) => Hopeless(list)
  BY <1>5 DEF Hopeless
<1>8. QED
  BY <1>6, <1>7 DEF list

\* The migrations of a plan are accepted where the others lead to.
LEMMA WorkAdvisory ==
    ASSUME JourneyInv, Advisory(site, code, schema, hint), Work, WorkInv'
    PROVE  Advisory(site', code', schema', hint')
<1>0. /\ site \in Sites /\ code \in Shapes /\ code' \in Shapes
      /\ Selected(code) \in Columns /\ Selected(code') \in Columns
      /\ site.pending \in Seq(MigrationFiles) /\ site.tables \in Columns
      /\ Written \in Seq(MigrationFiles)
  BY SelectedType, WrittenType DEF JourneyInv, Orderly, WorkInv, FilesTyped, Sites
<1>1. /\ site.tree = "whole" /\ site.adding = <<>>
      /\ site'.tree = "whole" /\ site'.adding = <<>> /\ site'.dirs = site.dirs
      /\ site'.mods = site.mods /\ site'.made = site.made /\ site'.clash = site.clash
      /\ site'.pending = site.pending \o Written /\ site'.tables = site.tables
      /\ applied' = applied => code' = code
      /\ schema' = schema \/ (Compiles(code) /\ schema' = Dump(code))
      /\ hint' = NoHint \/ (hint' = "migrate apply" /\ Written # <<>>)
  BY WorkDone
<1>2. ~HalfWay(site) /\ ~HalfWay(site')
  BY <1>1 DEF HalfWay
<1>3. /\ Hopeless(site.pending) => Hopeless(site'.pending)
      /\ Hopeless(Written) => Hopeless(site'.pending)
  BY <1>0, <1>1, HopelessJoined
<1>4. Unharmed(site') => Unharmed(site) /\ ~Hopeless(Written)
  BY <1>1, <1>3 DEF Unharmed, Lost
<1>5. /\ site'.pending = site.pending \o Written /\ site.pending \in Seq(MigrationFiles)
      /\ Written \in Seq(MigrationFiles)
  BY <1>0, <1>1
<1>6. Written = <<>> => site'.pending = site.pending
  BY <1>5
<1>7. Written # <<>> => site'.pending # <<>>
  <2> DEFINE w == Written
  <2>1. w \in Seq(MigrationFiles) /\ site'.pending = site.pending \o w
    BY <1>5
  <2> HIDE DEF w
  <2>2. w # <<>> => site'.pending # <<>>
    BY <1>5, <2>1
  <2>3. QED
    BY <2>2 DEF w
<1>8. ASSUME Unharmed(site') PROVE LeadsAll(site'.pending, site.tables, Selected(code'))
  <2>1. LeadsAll(site.pending, site.tables, Selected(code))
    BY <1>2, <1>4, <1>8 DEF Advisory, Smooth
  <2>2. CASE applied' = applied
    <3>1. Written = <<>>
      BY <2>2 DEF Written
    <3>2. QED
      BY <1>1, <1>6, <2>1, <2>2, <3>1
  <2>3. CASE applied' # applied
    <3>1. PICK f \in MigrationFiles :
              /\ Written = <<f>> /\ f.op = "alter" /\ Effect(f, Selected(code)) = Selected(code')
              /\ ~f.refused => Accepted(f, Selected(code))
      BY <2>3, WrittenLeads
    <3>2. ~f.refused
      <4>1. f.refused => Hopeless(<<f>>)
        <5>1. 1 \in DOMAIN <<f>> /\ <<f>>[1] = f
          OBVIOUS
        <5>2. QED
          BY <3>1, <5>1 DEF Hopeless
      <4>2. QED
        BY <1>4, <1>8, <3>1, <4>1
    <3>3. site'.pending = Append(site.pending, f)
      BY <1>5, <3>1
    <3>4. QED
      BY <1>0, <2>1, <3>1, <3>2, <3>3, LeadsAllNext
  <2>4. QED
    BY <2>2, <2>3
<1>9. Smooth(site', code')
  BY <1>1, <1>2, <1>8 DEF Smooth
<1>10. Fits(site', code', schema')
  <2>1. SUFFICES ASSUME Unharmed(site'), site'.pending = <<>>, Compiles(code'), schema' # Missing
                 PROVE  \A m \in Models \ Core : NamesOf(schema'[m]) \subseteq site'.tables[Slug[m]]
    BY DEF Fits
  <2>2. Written = <<>> /\ site.pending = <<>> /\ code' = code
    <3>1. Written = <<>>
      BY <1>7, <2>1
    <3>2. applied' = applied
      <4>1. ASSUME NEW f PROVE <<f>> # <<>>
        OBVIOUS
      <4>2. QED
        BY <3>1, <4>1, WrittenLeads
    <3>3. QED
      BY <1>1, <1>6, <2>1, <3>1, <3>2
  <2>3. CASE schema' = Dump(code)
    <3>1. site.tables = Selected(code)
      BY <1>2, <1>4, <2>1, <2>2, AllLedTo DEF Advisory, Smooth
    <3>2. QED
      BY <1>0, <1>1, <2>3, <3>1, DumpFits
  <2>4. CASE schema' = schema
    BY <1>1, <1>4, <2>1, <2>2, <2>4 DEF Advisory, Fits
  <2>5. QED
    BY <1>1, <2>3, <2>4
<1>11. Early(site', schema') /\ Said(site', code', hint')
  BY <1>1, <1>7, NoHintIsNone DEF Early, Said
<1>12. QED
  BY <1>9, <1>10, <1>11 DEF Advisory

LEMMA AdvisoryGoesOn ==
    ASSUME JourneyInv, ReadyNow, Advisory(site, code, schema, hint), [ProjectNext]_SiteVars
    PROVE  Advisory(site', code', schema', hint')
<1>1. CASE Work
  BY <1>1, DayAtWork, WorkAdvisory
<1>2. CASE \E a \in day.apps : StartModel(a)
  <2>1. PICK a \in Apps : StartModel(a)
    BY <1>2, AppsAssumption DEF JourneyInv, WorkInv, FilesTyped
  <2>2. QED
    BY <2>1, StartModelAdvisory
<1>3. CASE UNCHANGED SiteVars
  <2>1. site' = site /\ code' = code /\ schema' = schema /\ hint' = hint
    BY <1>3 DEF SiteVars, vars
  <2>2. QED
    BY <2>1
<1>4. QED
  BY <1>1, <1>2, <1>3, ScaffoldingAdvisory, RegisterAdvisory, FinishAdvisory, BrokenOffAdvisory,
     ApplyAdvisory, UserAdvisory DEF ProjectNext

\* In every project the migrations that wait are all accepted, the schema file
\* fits the tables once they are, and the last hint is still of use.
AdvisoryNow == Advisory(site, code, schema, hint)

LEMMA AlwaysAdvisory == ProjectSpec => []AdvisoryNow
<1>1. ProjectInit => AdvisoryNow
  BY JourneyBegins, AdvisoryInit DEF AdvisoryNow
<1>2. JourneyInv /\ ReadyNow /\ AdvisoryNow /\ [ProjectNext]_SiteVars => AdvisoryNow'
  BY AdvisoryGoesOn DEF AdvisoryNow
<1>3. QED
  BY <1>1, <1>2, Journeys, AlwaysReady, PTL DEF ProjectSpec

-----------------------------------------------------------------------------
(* What holds of every project. *)

LEMMA PeopleSeePlans ==
    ASSUME JourneyInv
    PROVE  TypeOK
<1>1. ASSUME server.up
      PROVE  /\ server.compiled \in Shapes /\ server.cache \in Shapes \cup {Missing, Unread}
             /\ server.context \in Contexts \cup {Unread}
  BY <1>1, LoadedType DEF JourneyInv, WorkInv, PeopleTyped, Servers
<1>2. ASSUME NEW t \in Terminals, terminal[t] # Idle
      PROVE  terminal[t].shown.plan \in Seq(Steps) /\ terminal[t].context \in Contexts
  <2>1. terminal[t] \in Waiting
    BY <1>2 DEF JourneyInv, WorkInv, PeopleTyped
  <2>2. QED
    BY <2>1 DEF Waiting, Shown
<1>3. ASSUME NEW a \in Admins
      PROVE  /\ admin[a].at = "page" => admin[a].shown.plan \in Seq(Steps)
             /\ admin[a].at = "planned" => admin[a].plan \in Seq(Steps)
  <2>1. admin[a] \in Browsing
    BY DEF JourneyInv, WorkInv, PeopleTyped, Browsing
  <2>2. CASE admin[a] \in Pages
    BY <2>2 DEF Pages, Shown
  <2>3. CASE admin[a] \notin Pages
    BY <2>1, <2>3 DEF Browsing, Idle, Requests, Readings
  <2>4. QED
    BY <2>2, <2>3
<1>4. ASSUME NEW i \in DOMAIN applied PROVE applied[i].plan \in Seq(Steps)
  <2>1. applied[i] \in Entry
    BY DEF JourneyInv, WorkInv, PeopleTyped
  <2>2. QED
    BY <2>1 DEF Entry
<1>5. QED
  BY <1>1, <1>2, <1>3, <1>4 DEF TypeOK, JourneyInv, WorkInv, FilesTyped, Tables

\* Everything that is kept, shown or written on the way of a project has its
\* type, from an empty directory on: the planner makes typed steps only, plans of
\* any length leave typed structs, and migrations typed tables.
THEOREM Typing == ProjectSpec => []ProjectTypeOK
<1>1. JourneyInv => ProjectTypeOK
  <2>1. SUFFICES ASSUME JourneyInv PROVE ProjectTypeOK
    OBVIOUS
  <2>2. site \in Sites /\ site.made \subseteq site.mods /\ site.mods \subseteq site.dirs
    BY <2>1 DEF JourneyInv, Orderly
  <2>3. \A i \in DOMAIN site.pending : site.pending[i].op \in {"create", "alter"}
    <3>1. \A i \in DOMAIN site.pending : site.pending[i] \in MigrationFiles
      BY <2>2 DEF Sites
    <3>2. QED
      BY <3>1 DEF MigrationFiles
  <2>4. TypeOK /\ hint \in Commands \cup {NoHint}
    BY <2>1, PeopleSeePlans, Zenon DEF JourneyInv, Voices
  <2>5. QED
    BY <2>2, <2>3, <2>4 DEF ProjectTypeOK, Sites, Columns
<1>2. QED
  BY <1>1, Journeys, PTL

\* Nobody's yes is taken for another plan: what is written has the steps that
\* were shown, is no riskier, and removes nothing without --force.
THEOREM AsShown == ProjectSpec => []AppliedAsShown
<1>1. JourneyInv => AppliedAsShown
  BY DEF JourneyInv, WorkInv
<1>2. QED
  BY <1>1, Journeys, PTL

\* A plan that is written keeps every field of personal data, and whatever else
\* it takes from a struct was announced to the one who said yes, for plans of
\* any length whose steps rename, replace and remove what earlier ones have made.
THEOREM Unseen == ProjectSpec => NothingLostUnseen
<1>1. JourneyInv /\ [ProjectNext]_SiteVars =>
          /\ [applied' # applied => KeepsPii(Last(applied'))]_vars
          /\ [applied' # applied => Warned(Last(applied'))]_vars
  <2>1. SUFFICES ASSUME JourneyInv, [ProjectNext]_SiteVars, applied' # applied
                 PROVE  KeepsPii(Last(applied')) /\ Warned(Last(applied'))
    OBVIOUS
  <2>2. ~UNCHANGED vars
    BY <2>1 DEF vars
  <2>3. Work
    BY <2>1 DEF ProjectNext, SiteVars, vars, Scaffolding, InitKilled, StartOver, StartModel,
       RegisterModel, FinishModel, ModelInterrupted, ApplyMigrations, MigrateStatus, CreateUser, To
  <2>4. QED
    BY <2>1, <2>3, WrittenKeeps DEF Work, JourneyInv
<1>2. QED
  BY <1>1, Journeys, PTL DEF ProjectSpec, NothingLostUnseen, PiiStays, LossesWarned

\* A sentence never becomes a plan that its own review refuses, that is Critical
\* but for personal data, or that changes a model of the framework.
THEOREM Planned == ProjectSpec => []PlannedIsAllowed
<1>1. JourneyInv => PlannedIsAllowed
  <2>1. SUFFICES ASSUME JourneyInv, schema # Missing,
                        NEW w \in day.sentences \cup day.saves,
                        NEW plan \in GeneratePlan(w, schema, context)
                 PROVE  LET review == Review(plan, schema, PiiFields(context))
                        IN /\ review.valid
                           /\ review.risk = Critical =>
                                \E s \in Range(plan) : TouchesPii(s, PiiFields(context))
                           /\ \A s \in Range(plan) : s.model \notin Core
    BY DEF PlannedIsAllowed
  <2>2. w \in Sentences /\ schema \in Shapes
    BY <2>1, DaysAssumption DEF JourneyInv, WorkInv, FilesTyped
  <2>3. QED
    BY <2>2, Allowed
<1>2. QED
  BY <1>1, Journeys, PTL
-----------------------------------------------------------------------------
(* A project in which the doctor finds nothing. *)

Findable ==
    [finding : {"models", "database", "schema", "pending", "mismatch", "admin", "auth tables", "port"},
     fix : {"add model", "migrate apply", "schema", "user create", "stop"}]

LEMMA NothingJoined ==
    ASSUME NEW s \in Seq(Findable), NEW t \in Seq(Findable), s \o t = <<>>
    PROVE  s = <<>> /\ t = <<>>
<1>1. Len(s \o t) = Len(s) + Len(t)
  OBVIOUS
<1>2. Len(s) = 0 /\ Len(t) = 0
  BY <1>1
<1>3. QED
  BY <1>2

LEMMA CheckType ==
    ASSUME NEW bad, NEW finding, NEW fix, [finding |-> finding, fix |-> fix] \in Findable
    PROVE  Check(bad, finding, fix) \in Seq(Findable)
<1>1. CASE bad
  BY <1>1 DEF Check
<1>2. CASE ~bad
  BY <1>2 DEF Check
<1>3. QED
  BY <1>1, <1>2

\* The doctor is silent only when no check of its found anything.
LEMMA Silent ==
    ASSUME NEW p, Doctor(p) = <<>>
    PROVE  /\ p.site.db \notin {"none", "file"} /\ p.site.pending = <<>>
           /\ ~(p.site.db = "core" /\ p.site.admins = 0)
<1> DEFINE none == Check(p.site.dirs = {}, "models", "add model")
           database == Check(~HasDb(p), "database", "migrate apply")
           schemas == Check(p.schema = Missing, "schema", "schema")
           port == Check(p.up, "port", "stop")
           waiting == Check(p.site.pending # <<>>, "pending", "migrate apply")
           mismatch == Check(Mismatch(p), "mismatch", "migrate apply")
           nobody == Check(p.site.db = "core" /\ p.site.admins = 0, "admin", "user create")
           file == Check(p.site.db = "file", "auth tables", "migrate apply")
<1>1. \A bad, finding, fix : Check(bad, finding, fix) = <<>> => ~bad
  BY DEF Check
<1>2. /\ none \in Seq(Findable) /\ database \in Seq(Findable) /\ schemas \in Seq(Findable)
      /\ port \in Seq(Findable) /\ waiting \in Seq(Findable) /\ mismatch \in Seq(Findable)
      /\ nobody \in Seq(Findable) /\ file \in Seq(Findable)
  <2>1. /\ [finding |-> "models", fix |-> "add model"] \in Findable
        /\ [finding |-> "database", fix |-> "migrate apply"] \in Findable
        /\ [finding |-> "schema", fix |-> "schema"] \in Findable
        /\ [finding |-> "port", fix |-> "stop"] \in Findable
        /\ [finding |-> "pending", fix |-> "migrate apply"] \in Findable
        /\ [finding |-> "mismatch", fix |-> "migrate apply"] \in Findable
        /\ [finding |-> "admin", fix |-> "user create"] \in Findable
        /\ [finding |-> "auth tables", fix |-> "migrate apply"] \in Findable
    BY DEF Findable
  <2>2. QED
    BY <2>1, CheckType
<1>3. InProject(p)
  BY <1>1 DEF Doctor
<1>4. Doctor(p) = none \o database \o schemas \o DatabaseChecks(p) \o port
  BY <1>3 DEF Doctor
<1>5. DatabaseChecks(p) = IF ~HasDb(p) THEN <<>> ELSE waiting \o mismatch \o nobody \o file
  BY DEF DatabaseChecks
<1> HIDE DEF none, database, schemas, port, waiting, mismatch, nobody, file
<1>6. DatabaseChecks(p) \in Seq(Findable)
  BY <1>2, <1>5
<1>7. none \o database \o schemas \o DatabaseChecks(p) = <<>>
  <2>1. none \o database \o schemas \in Seq(Findable)
    BY <1>2
  <2>2. none \o database \o schemas \o DatabaseChecks(p) \in Seq(Findable)
    BY <2>1, <1>6
  <2>3. QED
    BY <2>2, <1>2, <1>4, NothingJoined
<1>8. DatabaseChecks(p) = <<>> /\ none \o database \o schemas = <<>>
  <2>1. none \o database \o schemas \in Seq(Findable)
    BY <1>2
  <2>2. QED
    BY <2>1, <1>6, <1>7, NothingJoined
<1>9. database = <<>>
  <2>1. none \o database \in Seq(Findable)
    BY <1>2
  <2>2. none \o database = <<>>
    BY <2>1, <1>2, <1>8, NothingJoined
  <2>3. QED
    BY <2>2, <1>2, NothingJoined
<1>10. HasDb(p)
  BY <1>1, <1>9 DEF database
<1>11. waiting \o mismatch \o nobody = <<>> /\ file = <<>>
  <2>1. waiting \o mismatch \o nobody \in Seq(Findable)
    BY <1>2
  <2>2. QED
    BY <2>1, <1>2, <1>5, <1>8, <1>10, NothingJoined
<1>12. waiting \o mismatch = <<>> /\ nobody = <<>>
  <2>1. waiting \o mismatch \in Seq(Findable)
    BY <1>2
  <2>2. QED
    BY <2>1, <1>2, <1>11, NothingJoined
<1>13. waiting = <<>>
  BY <1>2, <1>12, NothingJoined
<1>14. p.site.pending = <<>> /\ ~(p.site.db = "core" /\ p.site.admins = 0) /\ p.site.db # "file"
  BY <1>1, <1>11, <1>12, <1>13 DEF waiting, nobody, file
<1>15. QED
  BY <1>10, <1>14 DEF HasDb

\* When the doctor finds nothing, the server selects only columns the tables have
\* and somebody can sign in: after any plans, renames, killed commands and refused
\* migrations, however old the schema file is that the doctor compares.
THEOREM Healthy == ProjectSpec => []HealthyMeansServed
<1>1. ASSUME JourneyInv, ReadyNow
      PROVE  HealthyMeansServed
  <2> SUFFICES ASSUME Doctor(Here) = <<>>, ~NeverMigrated
               PROVE  site.admins > 0 /\ \A u \in Tables : Selected(code)[u] \subseteq site.tables[u]
    BY DEF HealthyMeansServed, Tables
  <2>1. site \in Sites /\ Ready(site, code)
    BY <1>1 DEF JourneyInv, Orderly, ReadyNow
  <2>2. Here.site = site
    BY DEF Here
  <2>3. /\ site.db \notin {"none", "file"} /\ site.pending = <<>>
        /\ ~(site.db = "core" /\ site.admins = 0)
    BY <2>2, Silent
  <2>4. site.admins > 0
    BY <2>1, <2>3 DEF Sites
  <2>5. site.mods \ site.made = {}
    BY DEF NeverMigrated
  <2>6. ~Lost(site) /\ ~HalfWay(site)
    BY <2>1, <2>5 DEF Ready, Lost, HalfWay
  <2>7. LeadsTo(<<>>, site.tables, Selected(code))
    BY <2>1, <2>3, <2>6 DEF Ready, Leading
  <2>8. site.tables = Selected(code)
    BY <2>7, LedTo
  <2>9. QED
    BY <2>4, <2>8
<1>2. QED
  BY <1>1, AlwaysReady, Journeys, PTL
-----------------------------------------------------------------------------
(* What the doctor finds, and what the command it names makes of it. *)

\* Why a check names a command.
Due(p, finding, fix) ==
    \/ finding = "structure" /\ fix = "init" /\ ~InProject(p)
    \/ /\ InProject(p)
       /\ \/ finding = "models" /\ fix = "add model" /\ p.site.dirs = {}
          \/ finding = "database" /\ fix = "migrate apply" /\ ~HasDb(p)
          \/ finding = "schema" /\ fix = "schema" /\ p.schema = Missing
          \/ finding = "pending" /\ fix = "migrate apply" /\ p.site.pending # <<>>
          \/ finding = "mismatch" /\ fix = "migrate apply" /\ Mismatch(p)
          \/ finding = "admin" /\ fix = "user create" /\ p.site.db = "core" /\ p.site.admins = 0
          \/ finding = "auth tables" /\ fix = "migrate apply" /\ p.site.db = "file"
          \/ finding = "port" /\ fix = "stop" /\ p.up

Advice ==
    [finding : {"structure", "models", "database", "schema", "pending", "mismatch", "admin",
                "auth tables", "port"},
     fix : {"init", "add model", "migrate apply", "schema", "user create", "stop"}]

Advices(p) == {x \in Advice : Due(p, x.finding, x.fix)}

LEMMA CheckAdvises ==
    ASSUME NEW p, NEW bad, NEW finding, NEW fix, bad => Due(p, finding, fix)
    PROVE  Check(bad, finding, fix) \in Seq(Advices(p))
<1>1. CASE bad
  <2>1. [finding |-> finding, fix |-> fix] \in Advices(p)
    BY <1>1 DEF Due, Advice, Advices
  <2>2. QED
    BY <1>1, <2>1 DEF Check
<1>2. CASE ~bad
  BY <1>2 DEF Check
<1>3. QED
  BY <1>1, <1>2

LEMMA Joined ==
    ASSUME NEW S, NEW s \in Seq(S), NEW t \in Seq(S)
    PROVE  s \o t \in Seq(S)
OBVIOUS

LEMMA DoctorAdvises ==
    ASSUME NEW p
    PROVE  Doctor(p) \in Seq(Advices(p))
<1> DEFINE A == Seq(Advices(p))
<1>1. CASE ~InProject(p)
  <2>1. Due(p, "structure", "init")
    BY <1>1 DEF Due
  <2>2. Check(TRUE, "structure", "init") \in A
    BY <2>1, CheckAdvises
  <2>3. QED
    BY <1>1, <2>2 DEF Doctor
<1>2. CASE InProject(p)
  <2> DEFINE models == Check(p.site.dirs = {}, "models", "add model")
             database == Check(~HasDb(p), "database", "migrate apply")
             schemas == Check(p.schema = Missing, "schema", "schema")
             port == Check(p.up, "port", "stop")
             waiting == Check(p.site.pending # <<>>, "pending", "migrate apply")
             mismatch == Check(Mismatch(p), "mismatch", "migrate apply")
             nobody == Check(p.site.db = "core" /\ p.site.admins = 0, "admin", "user create")
             file == Check(p.site.db = "file", "auth tables", "migrate apply")
  <2>1. models \in A /\ database \in A /\ schemas \in A /\ port \in A
    <3>1. /\ p.site.dirs = {} => Due(p, "models", "add model")
          /\ ~HasDb(p) => Due(p, "database", "migrate apply")
          /\ p.schema = Missing => Due(p, "schema", "schema")
          /\ p.up => Due(p, "port", "stop")
      BY <1>2 DEF Due
    <3>2. QED
      BY <3>1, CheckAdvises
  <2>2. waiting \in A /\ mismatch \in A /\ nobody \in A /\ file \in A
    <3>1. /\ p.site.pending # <<>> => Due(p, "pending", "migrate apply")
          /\ Mismatch(p) => Due(p, "mismatch", "migrate apply")
          /\ p.site.db = "core" /\ p.site.admins = 0 => Due(p, "admin", "user create")
          /\ p.site.db = "file" => Due(p, "auth tables", "migrate apply")
      BY <1>2 DEF Due
    <3>2. QED
      BY <3>1, CheckAdvises
  <2>3. /\ Doctor(p) = models \o database \o schemas \o DatabaseChecks(p) \o port
        /\ DatabaseChecks(p) = IF ~HasDb(p) THEN <<>>
                               ELSE waiting \o mismatch \o nobody \o file
    BY <1>2 DEF Doctor, DatabaseChecks
  <2> HIDE DEF models, database, schemas, port, waiting, mismatch, nobody, file
  <2>4. waiting \o mismatch \in A
    BY <2>2, Joined
  <2>5. waiting \o mismatch \o nobody \in A
    BY <2>2, <2>4, Joined
  <2>6. waiting \o mismatch \o nobody \o file \in A
    BY <2>2, <2>5, Joined
  <2>7. DatabaseChecks(p) \in A
    BY <2>3, <2>6
  <2>8. models \o database \in A
    BY <2>1, Joined
  <2>9. models \o database \o schemas \in A
    BY <2>1, <2>8, Joined
  <2>10. models \o database \o schemas \o DatabaseChecks(p) \in A
    BY <2>7, <2>9, Joined
  <2>11. QED
    BY <2>1, <2>3, <2>10, Joined
<1>3. QED
  BY <1>1, <1>2

\* A finding has a reason, and one command that it names.
LEMMA FindingDue ==
    ASSUME NEW p, NEW finding \in Findings(p)
    PROVE  \E fix : Due(p, finding, fix)
<1>1. PICK i \in DOMAIN Doctor(p) : finding = Doctor(p)[i].finding
  BY DEF Findings
<1>2. Doctor(p)[i] \in Advices(p)
  BY <1>1, DoctorAdvises
<1>3. QED
  BY <1>1, <1>2 DEF Advices

LEMMA FirstDue ==
    ASSUME NEW p, Doctor(p) # <<>>
    PROVE  Due(p, Head(Doctor(p)).finding, Head(Doctor(p)).fix)
<1>1. Head(Doctor(p)) \in Advices(p)
  BY DoctorAdvises
<1>2. QED
  BY <1>1 DEF Advices

LEMMA Afters ==
    ASSUME NEW p
    PROVE  /\ After("init", p) = NewProject(p)
           /\ After("add model", p) = UNION {AddModel(a, p) : a \in Apps}
           /\ After("migrate apply", p) = MigrateApply(p)
           /\ After("schema", p) = Dumped(p)
           /\ After("user create", p) = UserCreate(p, "admin")
           /\ After("stop", p) = {[p EXCEPT !.up = FALSE]}
BY DEF After

LEMMA InitHelps ==
    ASSUME JourneyInv, site.tree = "none"
    PROVE  \E q \in After("init", Here) : InProject(q)
<1> DEFINE q == [Here EXCEPT !.site.tree = "whole"]
<1>1. site \in Sites /\ Here.site = site
  BY DEF JourneyInv, Orderly, Here
<1>2. q.site = [site EXCEPT !.tree = "whole"]
  BY DEF Here
<1>3. q \in NewProject(Here)
  BY <1>1 DEF NewProject
<1> HIDE DEF q
<1>4. q.site.tree = "whole"
  BY <1>1, <1>2 DEF Sites
<1>5. QED
  BY <1>3, <1>4, Afters DEF InProject

LEMMA AddHelps ==
    ASSUME JourneyInv, site.tree = "whole", site.dirs = {}
    PROVE  \E q \in After("add model", Here) : q.site.dirs # {}
<1>1. PICK a : a \in Apps
  BY AppsAssumption
<1>2. site \in Sites /\ Here.site = site
  BY DEF JourneyInv, Orderly, Here
<1> DEFINE dirs == site.dirs \cup {a}
           d == [Here EXCEPT !.site.dirs = dirs]
           r == Register(a, d)
           q == Generate(a, r)
<1>3. d \in MakeDir(a, Here)
  BY <1>2 DEF MakeDir
<1>4. q \in AddModel(a, Here)
  BY <1>3 DEF AddModel
<1>5. dirs # {}
  OBVIOUS
<1> HIDE DEF dirs
<1>6. /\ d.site = [site EXCEPT !.dirs = dirs]
      /\ d = [site |-> d.site, code |-> d.code, schema |-> d.schema, up |-> d.up]
  BY DEF Here
<1>7. /\ d.site.dirs = dirs /\ d.site = [site EXCEPT !.dirs = dirs]
      /\ d = [site |-> d.site, code |-> d.code, schema |-> d.schema, up |-> d.up]
  BY <1>2, <1>6 DEF Sites
<1> HIDE DEF d
<1> DEFINE mods == d.site.mods \cup {a}
           clash == d.site.clash \cup Clashes(a, d)
           new == [d.code EXCEPT ![StructOf[a]] = Scaffold]
<1>8. r = [d EXCEPT !.site = [d.site EXCEPT !.mods = mods, !.clash = clash], !.code = new]
  <2>1. DOMAIN d.site = DOMAIN site
    BY <1>7
  <2>2. QED
    BY <1>2, <1>7, <2>1 DEF Register, Sites
<1> HIDE DEF mods, clash, new
<1>9. /\ r.site = [d.site EXCEPT !.mods = mods, !.clash = clash]
      /\ r = [site |-> r.site, code |-> r.code, schema |-> r.schema, up |-> r.up]
  BY <1>7, <1>8
<1>10. r.site.dirs = dirs /\ r.site = [d.site EXCEPT !.mods = mods, !.clash = clash]
  BY <1>2, <1>7, <1>9 DEF Sites
<1> HIDE DEF r
<1> DEFINE list == Append(r.site.pending, CreateTable(a))
           made == r.site.made \cup {a}
<1>11. q.site = [r.site EXCEPT !.pending = list, !.made = made]
  BY <1>9 DEF Generate
<1> HIDE DEF list, made, q
<1>12. q.site.dirs = dirs
  BY <1>10, <1>11
<1>13. q \in After("add model", Here)
  BY <1>1, <1>4, Afters, ZenonT(40)
<1>14. QED
  BY <1>5, <1>12, <1>13

LEMMA SchemaHelps ==
    ASSUME JourneyInv, site.tree = "whole", site.clash = {}, Compiles(code)
    PROVE  \E q \in After("schema", Here) : q.schema # Missing
<1> DEFINE q == [Here EXCEPT !.schema = Dump(Here.code)]
<1>1. q \in Dumped(Here)
  <2>1. Here.site.tree = "whole" /\ Compiles(Here.code) /\ "struct" \notin Here.site.clash
    BY DEF Here
  <2>2. QED
    BY <2>1, Zenon DEF Dumped
<1>2. Dump(code) \in Shapes
  BY DumpType DEF JourneyInv, WorkInv, FilesTyped
<1>3. q.schema = Dump(code)
  BY DEF Here
<1>4. QED
  BY <1>1, <1>2, <1>3, MissingAssumption, Afters

LEMMA UserHelps ==
    ASSUME JourneyInv
    PROVE  \E q \in UserCreate(Here, "admin") : q.site.admins # 0
<1> DEFINE c == Connected(Here)
           q == [c EXCEPT !.site.admins = 1]
<1>1. q \in UserCreate(Here, "admin")
  BY DEF UserCreate
<1>2. /\ c.site = [site EXCEPT !.db = "core"]
      /\ c = [site |-> c.site, code |-> c.code, schema |-> c.schema, up |-> c.up]
  BY DEF Connected, Here
<1> HIDE DEF c
<1>3. q.site = [c.site EXCEPT !.admins = 1]
  BY <1>2
<1> HIDE DEF q
<1>4. q.site.admins # 0
  BY <1>2, <1>3 DEF JourneyInv, Orderly, Sites
<1>5. QED
  BY <1>1, <1>4

LEMMA RunHelps ==
    ASSUME ~server.up
    PROVE  \E q \in After("run", Here) : q.up
<1> DEFINE s == Opened(site)
           q == [Here EXCEPT !.up = TRUE, !.site = s]
<1>1. q.up
  BY DEF Here
<1>2. After("run", Here) = {[Here EXCEPT !.up = TRUE, !.site = Opened(@)] :
                                x \in {y \in {Here} : ~y.up}}
  BY DEF After
<1>3. q = [Here EXCEPT !.up = TRUE, !.site = Opened(@)] /\ ~Here.up
  BY DEF Here
<1>4. q \in After("run", Here)
  BY <1>2, <1>3
<1>5. QED
  BY <1>1, <1>4

\* The migrations that wait are all applied, and the schema file is as it should be.
LEMMA MigrateHelps ==
    ASSUME JourneyInv, AdvisoryNow, Unharmed(site), ~HalfWay(site), site.tree = "whole",
           Compiles(code), NEW r \in MigrateApply(Here)
    PROVE  r.site.pending = <<>> /\ r.site.db = "core" /\ ~Mismatch(r)
<1> DEFINE c == [site EXCEPT !.db = "core"]
<1>0. /\ Place(Here) /\ Here.site = site /\ Here.code = code /\ Here.schema = schema
      /\ site \in Sites /\ code \in Shapes
  BY HereType DEF Here, Place, Orderly
<1>1. /\ c \in Sites /\ c.db = "core" /\ c.tree = site.tree /\ Alike(site, c)
      /\ r.site = RunFiles(c) /\ r.code = code
      /\ r.schema = schema \/ (site.tree = "whole" /\ r.schema = Dump(code))
      /\ \/ r.schema = Dump(code)
         \/ site.pending = <<>> \/ r.site.pending # <<>> \/ Dumped(r) = {}
  BY <1>0, Migrates
<1> HIDE DEF c
<1>2. LeadsAll(site.pending, site.tables, Selected(code))
  BY DEF AdvisoryNow, Advisory, Smooth
<1>3. r.site.pending = <<>> /\ r.site.tables = Selected(code)
  BY <1>1, <1>2, RunsOut DEF Alike
<1>4. r.site.db = "core" /\ r.site.tree = "whole" /\ r.site.clash = {}
  <2>1. RunFiles(c) \in Migrated(c)
    BY <1>1, RunFilesType
  <2>2. r.site.db = c.db /\ r.site.tree = c.tree /\ r.site.clash = c.clash
    BY <1>1, <2>1 DEF Migrated
  <2>3. QED
    BY <1>1, <2>2 DEF Alike, Unharmed
<1>5. Dumped(r) # {}
  <2>1. [r EXCEPT !.schema = Dump(r.code)] \in Dumped(r)
    BY <1>1, <1>4 DEF Dumped
  <2>2. QED
    BY <2>1
<1>6. CASE r.schema = Dump(code)
  <2>1. \A m \in Models \ Core : NamesOf(r.schema[m]) \subseteq r.site.tables[Slug[m]]
    BY <1>0, <1>3, <1>6, DumpFits
  <2>2. QED
    BY <1>3, <1>4, <2>1 DEF Mismatch
<1>7. CASE r.schema # Dump(code)
  <2>1. r.schema = schema /\ site.pending = <<>>
    BY <1>1, <1>3, <1>5, <1>7
  <2>2. site.tables = Selected(code)
    BY <1>2, <2>1, AllLedTo
  <2>3. schema = Missing \/ \A m \in Models \ Core : NamesOf(schema[m]) \subseteq site.tables[Slug[m]]
    BY <2>1 DEF AdvisoryNow, Advisory, Fits
  <2>4. QED
    BY <1>3, <1>4, <2>1, <2>2, <2>3 DEF Mismatch
<1>8. QED
  BY <1>6, <1>7

\* A project that the commands can repair.
LEMMA Repairable ==
    ASSUME JourneyInv, ReadyNow, ~BeyondRepair
    PROVE  /\ site.tree \in {"none", "whole"} /\ Unharmed(site) /\ ~HalfWay(site)
           /\ site.clash = {} /\ Compiles(code)
<1>1. /\ site.tree \in {"none", "whole"} /\ site.mods \ site.made = {} /\ site.clash = {}
      /\ Compiles(code) /\ ~Hopeless(site.pending)
  BY DEF BeyondRepair, NeverMigrated, Hopeless, JourneyInv, Orderly, Sites, Trees
<1>2. ~Lost(site) /\ ~HalfWay(site)
  BY <1>1 DEF ReadyNow, Ready, Lost, HalfWay
<1>3. QED
  BY <1>1, <1>2 DEF Unharmed

\* The command that the doctor names removes what it found.
LEMMA DoctorHelps ==
    ASSUME JourneyInv, ReadyNow, AdvisoryNow, ~BeyondRepair, NEW finding, NEW fix,
           Due(Here, finding, fix)
    PROVE  \E q \in After(fix, Here) : finding \notin Findings(q)
<1>0. /\ site.tree \in {"none", "whole"} /\ Unharmed(site) /\ ~HalfWay(site)
      /\ site.clash = {} /\ Compiles(code)
  BY Repairable
<1>1. Here.site = site /\ Here.schema = schema /\ Here.up = server.up
  BY DEF Here
<1>2. \A q : finding \in Findings(q) => \E x : Due(q, finding, x)
  BY FindingDue
<1>3. CASE finding = "structure"
  <2>1. fix = "init" /\ site.tree = "none"
    BY <1>0, <1>1, <1>3 DEF Due, InProject
  <2>2. \A q, x : Due(q, finding, x) => ~InProject(q)
    BY <1>3 DEF Due
  <2>3. QED
    BY <1>2, <2>1, <2>2, InitHelps
<1>4. CASE finding # "structure"
  <2>1. site.tree = "whole"
    BY <1>0, <1>1, <1>4 DEF Due, InProject
  <2>2. PICK r : r \in MigrateApply(Here)
    BY DEF MigrateApply
  <2>3. r.site.pending = <<>> /\ r.site.db = "core" /\ ~Mismatch(r)
    BY <1>0, <2>1, <2>2, MigrateHelps
  <2>4. CASE finding = "models"
    <3>1. fix = "add model" /\ site.dirs = {} /\ \A q, x : Due(q, finding, x) => q.site.dirs = {}
      BY <1>1, <2>4 DEF Due
    <3>2. QED
      BY <1>2, <2>1, <3>1, AddHelps
  <2>5. CASE finding \in {"database", "pending", "mismatch", "auth tables"}
    <3>1. fix = "migrate apply"
      BY <2>5 DEF Due
    <3>2. \A x : ~Due(r, finding, x)
      BY <2>3, <2>5 DEF Due, HasDb
    <3>3. QED
      BY <1>2, <2>2, <3>1, <3>2, Afters
  <2>6. CASE finding = "schema"
    <3>1. fix = "schema" /\ \A q, x : Due(q, finding, x) => q.schema = Missing
      BY <2>6 DEF Due
    <3>2. QED
      BY <1>0, <1>2, <2>1, <3>1, SchemaHelps
  <2>7. CASE finding = "admin"
    <3>1. fix = "user create" /\ \A q, x : Due(q, finding, x) => q.site.admins = 0
      BY <2>7 DEF Due
    <3>2. QED
      BY <1>2, <3>1, UserHelps, Afters
  <2>8. CASE finding = "port"
    <3>1. fix = "stop" /\ \A q, x : Due(q, finding, x) => q.up
      BY <2>8, Zenon DEF Due
    <3>2. [Here EXCEPT !.up = FALSE].up = FALSE
      BY DEF Here
    <3>3. QED
      BY <1>2, <3>1, <3>2, Afters
  <2>9. QED
    BY <1>4, <2>4, <2>5, <2>6, <2>7, <2>8 DEF Due
<1>5. QED
  BY <1>3, <1>4

\* `rustio` alone names nothing that is refused.
LEMMA DefaultHelps ==
    ASSUME JourneyInv, ReadyNow, ~BeyondRepair, ~server.up
    PROVE  After(DefaultAction(Here), Here) # {}
<1>0. site.tree \in {"none", "whole"}
  BY Repairable
<1>1. Here.site = site /\ Here.up = server.up
  BY DEF Here
<1>2. CASE ~InProject(Here)
  <2>1. DefaultAction(Here) = "init" /\ site.tree = "none"
    BY <1>0, <1>1, <1>2 DEF DefaultAction, InProject
  <2>2. QED
    BY <2>1, InitHelps
<1>3. CASE InProject(Here) /\ site.dirs = {}
  <2>1. DefaultAction(Here) = "add model" /\ site.tree = "whole"
    BY <1>0, <1>1, <1>3 DEF DefaultAction, InProject
  <2>2. QED
    BY <1>3, <2>1, AddHelps
<1>4. CASE InProject(Here) /\ site.dirs # {} /\ ~HasDb(Here)
  <2>1. DefaultAction(Here) = "migrate apply"
    BY <1>1, <1>4 DEF DefaultAction
  <2>2. PICK r : r \in MigrateApply(Here)
    BY DEF MigrateApply
  <2>3. QED
    BY <2>1, <2>2, Afters
<1>5. CASE InProject(Here) /\ site.dirs # {} /\ HasDb(Here)
  <2>1. DefaultAction(Here) = "run"
    BY <1>1, <1>5 DEF DefaultAction
  <2>2. QED
    BY <1>1, <2>1, RunHelps
<1>6. QED
  BY <1>2, <1>3, <1>4, <1>5

\* The last hint still names something that changes the project.
LEMMA HintHelps ==
    ASSUME JourneyInv, ReadyNow, AdvisoryNow, ~BeyondRepair, ~server.up, hint # NoHint
    PROVE  After(hint, Here) \ {Here} # {}
<1>0. /\ site.tree \in {"none", "whole"} /\ Unharmed(site) /\ ~HalfWay(site)
      /\ site.clash = {} /\ Compiles(code)
  BY Repairable
<1>1. Here.site = site /\ Here.up = server.up
  BY DEF Here
<1>2. /\ hint \in {"add model", "migrate apply", "run"}
      /\ hint = "add model" => site.tree = "whole" /\ site.dirs = {}
      /\ hint = "migrate apply" => site.pending # <<>>
  BY <1>0 DEF AdvisoryNow, Advisory, Said
<1>3. CASE hint = "add model"
  <2>1. PICK q \in After("add model", Here) : q.site.dirs # {}
    BY <1>2, <1>3, AddHelps
  <2>2. q # Here
    BY <1>1, <1>2, <1>3, <2>1
  <2>3. QED
    BY <1>3, <2>1, <2>2
<1>4. CASE hint = "migrate apply"
  <2>1. PICK r : r \in MigrateApply(Here)
    BY DEF MigrateApply
  <2>2. site.tree = "whole"
    BY <1>0, <1>2, <1>4 DEF AdvisoryNow, Advisory, Early
  <2>3. r.site.pending = <<>>
    BY <1>0, <2>1, <2>2, MigrateHelps
  <2>4. r # Here
    BY <1>1, <1>2, <1>4, <2>3
  <2>5. QED
    BY <1>4, <2>1, <2>4, Afters
<1>5. CASE hint = "run"
  <2>1. PICK q \in After("run", Here) : q.up
    BY RunHelps
  <2>2. q # Here
    BY <1>1, <2>1
  <2>3. QED
    BY <1>5, <2>1, <2>2
<1>6. QED
  BY <1>2, <1>3, <1>4, <1>5

\* As long as the project is one that the commands can repair, what a developer
\* is told to do next can be done, and helps: with any models, after any plans,
\* killed commands and half-applied migrations.
THEOREM Advised == ProjectSpec => []AdviceHelps
<1>1. ASSUME JourneyInv, ReadyNow, AdvisoryNow
      PROVE  AdviceHelps
  <2>1. SUFFICES ASSUME ~BeyondRepair
                 PROVE  /\ Doctor(Here) # <<>> =>
                            \E q \in After(Head(Doctor(Here)).fix, Here) :
                                Head(Doctor(Here)).finding \notin Findings(q)
                        /\ ~server.up => After(DefaultAction(Here), Here) # {}
                        /\ ~server.up /\ hint # NoHint => After(hint, Here) \ {Here} # {}
    BY DEF AdviceHelps
  <2>2. ASSUME Doctor(Here) # <<>>
        PROVE  \E q \in After(Head(Doctor(Here)).fix, Here) :
                   Head(Doctor(Here)).finding \notin Findings(q)
    BY <1>1, <2>1, <2>2, FirstDue, DoctorHelps
  <2>3. QED
    BY <1>1, <2>1, <2>2, DefaultHelps, HintHelps
<1>2. QED
  BY <1>1, AlwaysAdvisory, AlwaysReady, Journeys, PTL
=============================================================================

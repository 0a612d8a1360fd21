---------------------------- MODULE PlansApplied ----------------------------
(***************************************************************************)
(* What a plan does to a project, looked at in two ways: Evolution, where  *)
(* each model is a set of fields, and ModelsFile, where the models of one  *)
(* app are the text of its models.rs.                                      *)
(***************************************************************************)
EXTENDS Evolution, ModelsFile

PlansInit == Init /\ (NoApp \/ FileInit)

\* One of the two is looked at from the start.
PlansNext ==
    \/ meant = <<>> /\ Next /\ UNCHANGED fileVars
    \/ FileNext /\ UNCHANGED vars

PlansSpec == PlansInit /\ [][PlansNext]_<<vars, fileVars>>

\* At every step of a plan the shadows the executor works on agree with the
\* source as patched so far, and that source says what the plan means in every
\* place where it says it, as long as the texts it looks for are there once.
PlansAgree == ShadowIsSource /\ SourceIsMeant
=============================================================================

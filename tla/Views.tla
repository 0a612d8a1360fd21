------------------------------- MODULE Views -------------------------------
(***************************************************************************)
(* The saved view of one model: the file <model>.view.json, its temporary  *)
(* neighbour, the requests that edit it (admin.rs, admin/layout.rs,        *)
(* ViewSpec::write_to in viewspec.rs), and `rustio view` in a terminal.    *)
(*                                                                         *)
(* Two requests that save the same model share the temporary path, so a    *)
(* file is modelled by its inode: a path names an inode or nothing, and a  *)
(* writer that has opened an inode keeps it whatever the path becomes.     *)
(***************************************************************************)
EXTENDS ViewSpecs

CONSTANTS
    Inodes,          \* bound: one for each path and each request
    HandWritten,     \* views a developer may have left in the file
    MaxViewFaults    \* bound: writes and renames that fail

ASSUME InodesAssumption ==
    /\ IsFiniteSet(Inodes) /\ IsFiniteSet(Requests) /\ None \notin Inodes
    /\ Cardinality(Inodes) >= 2 + Cardinality(Requests)
    /\ MaxViewFaults \in Nat

\* A developer leaves out no field, and writes a merge as the editor does.
ASSUME HandWrittenAssumption == \A v \in HandWritten : Complete(v)

VARIABLES
    saved,     \* the inode at <model>.view.json, or None
    tmp,       \* the inode at <model>.view.json.tmp, or None
    content,   \* what each inode holds
    save,      \* what each request is about to write, and how far it is
    page,      \* history: the fields the last list page, or printout, of a
               \* request shows
    shared,    \* history: a save met the temporary file of another
    exposed,   \* history: fields that someone gave a visible role, or had merged
    viewFaults

viewVars == <<saved, tmp, content, save, page, shared, exposed, viewFaults>>

Blank == [state |-> "empty", view |-> Derived]
Partial == [state |-> "partial", view |-> Derived]
Whole(v) == [state |-> "whole", view |-> v]

Idle == [phase |-> "idle", draft |-> Derived, fd |-> None]
Ended(answer) == [Idle EXCEPT !.phase = answer]
Answers == {"idle", "saved", "refused", "rejected", "invalid", "failed"}
Saving(r) == save[r].phase \notin Answers

\* The fields whose shape keeps them out of a derived view.
Secrets == {c.name : c \in {d \in ToSet(Columns) : d.kind \in {"secret", "opaque", "id"}}}

\* What a developer puts on the page who writes a view: a field in a visible role,
\* and whatever is to appear in a merged cell.
Put(v) == {f.source : f \in {g \in FieldSpecs(v) : g.role # "hidden"}}
            \cup UNION {ToSet(f.merge) : f \in FieldSpecs(v)}

ViewsInit ==
    /\ saved \in {None, CHOOSE i \in Inodes : TRUE}
    /\ \E v \in IF saved = None THEN {Derived} ELSE HandWritten \cup {Derived} :
        /\ content = [i \in Inodes |-> IF i = saved THEN Whole(v) ELSE Blank]
        /\ exposed = IF saved = None THEN {} ELSE Put(v)
    /\ tmp = None
    /\ save = [r \in Requests |-> Idle]
    /\ page = [r \in Requests |-> {}]
    /\ shared = FALSE
    /\ viewFaults = 0

-----------------------------------------------------------------------------
\* Reading.

\* load_saved_view: a missing, torn or invalid file counts as no file.
Readable ==
    /\ saved # None
    /\ content[saved].state = "whole"
    /\ Valid(content[saved].view)

SavedView == IF Readable THEN <<content[saved].view>> ELSE <<>>

\* resolve_view.
Resolved == IF Readable THEN content[saved].view ELSE Derived

\* list_render, the choice of the cells.
ShowList(r, query) ==
    /\ page' = [page EXCEPT ![r] = Shown(Resolved, EffectiveLayout(query, SavedView))]
    /\ UNCHANGED <<saved, tmp, content, save, shared, exposed, viewFaults>>

-----------------------------------------------------------------------------
\* Editing: both handlers read the file, build the whole view they will write,
\* and only then start to write it.

\* write_to validates before it touches a file.
Draft(r, v) ==
    save' = [save EXCEPT ![r] = IF Valid(v) THEN [phase |-> "drafted", draft |-> v, fd |-> None]
                                ELSE Ended("invalid")]

\* admin_model_layout_post, save_layout_default.
SubmitLayout(r, layout) ==
    /\ IF layout \in Layouts
         THEN Draft(r, [Resolved EXCEPT !.layout = layout])
         ELSE save' = [save EXCEPT ![r] = Ended("refused")]
    /\ UNCHANGED <<saved, tmp, content, page, shared, exposed, viewFaults>>

\* admin_model_view_post: a form that is rejected writes nothing.
SubmitView(r, form) ==
    /\ IF Rejected(Resolved, form)
         THEN /\ save' = [save EXCEPT ![r] = Ended("rejected")]
              /\ UNCHANGED exposed
         ELSE /\ Draft(r, Edited(Resolved, form))
              /\ exposed' = exposed \cup {s \in DOMAIN form.role : form.role[s] # "hidden"}
    /\ UNCHANGED <<saved, tmp, content, page, shared, viewFaults>>

\* `rustio view`, another program on the same files: --save writes the derived
\* view, but only if it finds no file; without it the view is printed, the saved
\* one if there is a file, and nothing if that is not readable.  (What --save
\* prints it prints after it has written.)
RunView(r, layout, keep) ==
    /\ IF keep /\ saved # None THEN save' = [save EXCEPT ![r] = Ended("refused")]
       ELSE IF keep THEN Draft(r, Derived)
       ELSE save' = [save EXCEPT ![r] = Ended("idle")]
    /\ LET view == IF keep THEN Derived ELSE Resolved
           prints == IF keep THEN saved = None ELSE saved = None \/ Readable
       IN page' = [page EXCEPT ![r] = IF ~prints THEN {}
                     ELSE Shown(view, IF layout \in Layouts THEN layout ELSE view.layout)]
    /\ UNCHANGED <<saved, tmp, content, shared, exposed, viewFaults>>

-----------------------------------------------------------------------------
\* ViewSpec::write_to.

\* Inodes that no path and no writer names hold nothing.
Tidy(files, named) == [i \in Inodes |-> IF i \in named THEN files[i] ELSE Blank]
Held(saves) == {saves[r].fd : r \in Requests}

\* The temporary file is removed, whoever made it.
RemoveTmp(r) ==
    /\ save[r].phase = "drafted"
    /\ tmp' = None
    /\ save' = [save EXCEPT ![r].phase = "cleared"]
    /\ content' = Tidy(content, {saved} \cup Held(save))
    /\ shared' = (shared \/ tmp \in Held(save) \ {None})
    /\ UNCHANGED <<saved, page, exposed, viewFaults>>

\* Mutant: the file is written in place.
OpenInPlace(r) ==
    /\ save[r].phase = "cleared"
    /\ LET i == IF saved = None THEN CHOOSE j \in Inodes : j \notin {tmp} \cup Held(save)
                ELSE saved
       IN /\ saved' = i
          /\ content' = [content EXCEPT ![i] = Blank]
          /\ save' = [save EXCEPT ![r].phase = "opened", ![r].fd = i]
    /\ UNCHANGED <<tmp, page, shared, exposed, viewFaults>>

\* fs::write opens: a new file, or the one another request has just made,
\* which is truncated under it.
OpenTmp(r) ==
    /\ save[r].phase = "cleared"
    /\ LET i == IF tmp = None THEN CHOOSE j \in Inodes : j \notin {saved} \cup Held(save)
                ELSE tmp
       IN /\ tmp' = i
          /\ content' = [content EXCEPT ![i] = Blank]
          /\ save' = [save EXCEPT ![r].phase = "opened", ![r].fd = i]
    /\ shared' = (shared \/ tmp # None)
    /\ UNCHANGED <<saved, page, exposed, viewFaults>>

\* fs::write writes, from offset 0: over what another writer of the same inode
\* has put there, whose tail may stay.
FillTmp(r) ==
    /\ save[r].phase = "opened"
    /\ \E c \in {Whole(save[r].draft)} \cup
                (IF content[save[r].fd] = Blank THEN {} ELSE {Partial}) :
        content' = [content EXCEPT ![save[r].fd] = c]
    /\ save' = [save EXCEPT ![r].phase = "filled"]
    /\ UNCHANGED <<saved, tmp, page, shared, exposed, viewFaults>>

\* fs::write fails half-way: the temporary file stays.
FillFails(r) ==
    /\ save[r].phase = "opened"
    /\ viewFaults < MaxViewFaults
    /\ content' = [content EXCEPT ![save[r].fd] = Partial]
    /\ save' = [save EXCEPT ![r] = Ended("failed")]
    /\ viewFaults' = viewFaults + 1
    /\ UNCHANGED <<saved, tmp, page, shared, exposed>>

\* Mutant: the file is moved into place before it is filled.
RenameEarly(r) ==
    /\ save[r].phase \in {"opened", "filled"}
    /\ tmp # None
    /\ saved' = tmp
    /\ tmp' = None
    /\ save' = [save EXCEPT ![r] = IF save[r].phase = "opened"
                                     THEN [save[r] EXCEPT !.phase = "filled"]
                                     ELSE Ended("saved")]
    /\ UNCHANGED <<content, page, shared, exposed, viewFaults>>

\* fs::rename: it moves what the temporary path names now.
Rename(r) ==
    /\ save[r].phase = "filled"
    /\ tmp # None
    /\ saved' = tmp
    /\ tmp' = None
    /\ save' = [save EXCEPT ![r] = Ended("saved")]
    /\ content' = Tidy(content, {tmp} \cup Held(save'))
    /\ UNCHANGED <<page, shared, exposed, viewFaults>>

\* fs::rename fails, because another request has moved the file or for a
\* reason of its own; what is at the temporary path is removed.
RenameFails(r) ==
    /\ save[r].phase = "filled"
    /\ tmp = None \/ viewFaults < MaxViewFaults
    /\ viewFaults' = IF tmp = None THEN viewFaults ELSE viewFaults + 1
    /\ tmp' = None
    /\ save' = [save EXCEPT ![r] = Ended("failed")]
    /\ content' = Tidy(content, {saved} \cup Held(save'))
    /\ UNCHANGED <<saved, page, shared, exposed>>

WriteStep(r) ==
    RemoveTmp(r) \/ OpenTmp(r) \/ FillTmp(r) \/ FillFails(r) \/ Rename(r) \/ RenameFails(r)

\* The machine stops: what is written stays, a temporary file too.
ViewsCrash ==
    /\ save' = [r \in Requests |-> IF Saving(r) THEN Ended("failed") ELSE save[r]]
    /\ content' = Tidy(content, {saved, tmp})
    /\ UNCHANGED <<saved, tmp, page, shared, exposed, viewFaults>>

-----------------------------------------------------------------------------
\* The types of the variables.
ViewsTypeOK ==
    /\ saved \in Inodes \cup {None}
    /\ tmp \in Inodes \cup {None}
    /\ \A i \in Inodes : content[i].state \in {"empty", "partial", "whole"}
    /\ \A r \in Requests :
        /\ save[r].phase \in Answers \cup {"drafted", "cleared", "opened", "filled"}
        /\ save[r].fd \in Inodes \cup {None}
        /\ page[r] \subseteq Sources
    /\ shared \in BOOLEAN
    /\ exposed \subseteq Sources
    /\ viewFaults \in 0..MaxViewFaults

\* A reader finds the saved view whole at every moment, through failed writes,
\* failed renames and stops of the server -- unless a save has removed or opened
\* the temporary file of another, which the remove-open-write-rename sequence of
\* write_to does not exclude.
TornOnlyWhenShared ==
    saved # None /\ content[saved].state # "whole" => shared

\* A save that succeeds has installed the view it built, and not another one
\* or a part of it -- with the same exception.
SavesItsOwn ==
    [][\A r \in Requests : save[r].phase = "filled" /\ save'[r].phase = "saved" /\ ~shared
          => content'[saved'] = Whole(save[r].draft)]_viewVars

\* No form of the editor leads to a view that write_to refuses: roles, order,
\* filters, merges and labels are kept consistent with each other by
\* build_edited_spec, whatever the earlier edits were.
EditsAreValid == \A r \in Requests : save[r].phase # "invalid"

\* No edit loses or doubles a field: each field of the model stays on its own
\* or as a member of one merge.
FieldsKept ==
    \A v \in {save[r].draft : r \in {q \in Requests : Saving(q)}}
                \cup (IF Readable THEN {content[saved].view} ELSE {}) :
        Covers(v)

\* Together: whatever the editor is asked for, what it writes is a valid view
\* of all the fields (build_edited_spec, validate).
EditsAreSound == EditsAreValid /\ FieldsKept

\* What a list page shows of the fields that derived views hide was given a
\* visible role by someone: no merge, layout, fallback or torn file brings
\* such a field back.
HiddenNotShown == \A r \in Requests : page[r] \cap Secrets \subseteq exposed
=============================================================================

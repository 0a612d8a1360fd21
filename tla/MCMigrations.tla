---------------------------- MODULE MCMigrations ----------------------------
\* Small instances of Migrations for TLC.
EXTENDS Migrations, TLC

G == INSTANCE GeneratedSql

\* Two names: "a" sorts before "b".
MCSlugs == {"a", "b"}

\* `NNNN_<slug>.sql` sorts by number, then by slug, up to 9999.
MCRank == [f \in Filenames |-> 2 * f.num + (IF f.slug = "a" THEN 0 ELSE 1)]

\* Processes that run `apply_with` are alike.
MCSymmetry == Permutations(Appliers)

\* A table `posts`, and a column `title` that a later file adds to it.
MCObjects == G!Whole("posts", {"id"}) \cup {G!Column("posts", "title")}

\* A header and a table, a column that needs it, and a seed that can be run
\* again and again.
CreatePosts == <<G!Noop>> \o G!CreateTableSql("posts", {"id"})
AddTitle == G!AddFieldSql("posts", "title")
Seed == <<G!Sql({G!Column("posts", "title")}, {}, {}),
          G!Sql({G!Table("posts")}, {}, {})>>
MCContents == {CreatePosts, AddTitle, Seed}

TwoContents == {CreatePosts, AddTitle}

Name(n, s) == [num |-> n, slug |-> s]
NoFiles == [f \in Filenames |-> Absent]

\* What `rustio add model` and one hand-written migration leave behind.
MCInitDir ==
    [NoFiles EXCEPT ![Name(1, "a")] = CreatePosts, ![Name(2, "b")] = AddTitle]

\* The first file was removed long ago; the second creates the table.
MCGapDir == [NoFiles EXCEPT ![Name(2, "b")] = CreatePosts]

\* A project from which `rustio ai apply --force` is asked to drop a column.
MCForceDir ==
    [NoFiles EXCEPT
        ![Name(1, "a")] = G!CreateTableSql("posts", {"id", "title"}),
        ![Name(2, "b")] = G!FkAwareRecreateSql("posts", "posts__new", {"id"},
                                               {"id"}, {"id", "title"})]
ForceContents == {MCForceDir[Name(1, "a")], MCForceDir[Name(2, "b")]}
ForceObjects ==
    G!Whole("posts", {"id", "title"}) \cup G!Whole("posts__new", {"id"})

\* "`remove_field` -- drops a column from both the Rust struct and the
\* database" (UPGRADING.md:211): the migration RustIO generates for it is never
\* refused for the BEGIN it contains itself.
ForcedDropApplies ==
    \A a \in Appliers :
        pc[a] = "failed" /\ Len(ran[a]) < Len(body[a])
            => NextStatement(a).op # "begin"
=============================================================================

---------------------------- MODULE MCEvolution ----------------------------
\* Small instances of Evolution for TLC.
EXTENDS Evolution, TLC

\* fallback_table_name, for struct names whose plurals differ.
MCTableOf == "Post" :> "posts" @@ "Note" :> "notes" @@ "Memo" :> "memos"

Id == [name |-> "id", ty |-> "i64", null |-> FALSE, fk |-> None]
Title == [name |-> "title", ty |-> "String", null |-> FALSE, fk |-> None]

\* A model with a column of its own, and one that only has its id.
MCInitModels == "Post" :> {Id, Title} @@ "Note" :> {Id} @@ "Memo" :> NoModel

\* Two models are enough where none is renamed.
TwoTableOf == "Post" :> "posts" @@ "Note" :> "notes"
TwoInitModels == "Post" :> {Id, Title} @@ "Note" :> {Id}

\* "Schemas drift, and this layer is the last place to catch that drift before
\* a migration is written" (executor.rs:24): a migration that recreates a table
\* has a column for every field of the struct.
DriftIsCaught ==
    planning /\ sql # <<>> /\ sql[Len(sql)].op = "recreate"
        => \A m \in Models :
            TableOf[m] = sql[Len(sql)].table
                => NamesOf(source[m]) \subseteq NamesOf(sql[Len(sql)].columns)

\* "Refuse recreate-table on any table that participates in foreign keys --
\* outgoing (declared inside the table) or incoming" (executor.rs:1564).
ForeignKeysRefused ==
    pending # <<>> /\ Head(pending).op = "recreate"
        => ~HasForeignKey(Head(pending).table, tables)
=============================================================================

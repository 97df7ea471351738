------------------------------ MODULE StartupMC ------------------------------
(* Command lines of each kind, and configurations that differ in one key.   *)
EXTENDS Startup

Lines ==
  { <<"-m", "build_db">>, <<"-m", "build_db", "-s", "/usr">>, <<"malloc">>,
    <<"-s", "/usr", "malloc">>, <<"-m", "free_run", "-s", "/usr", "malloc">>,
    <<"-m", "free_run", "--symbol-visibility", "both", "malloc">>,
    <<"--symbol-visibility", "both", "malloc">>, <<"-h">>, <<"-v">>, <<"-x">>, <<"-m">> }

SomeLetters == {"a", "b", "A", "B", "/", "symfind.db", "/usr", "true", "maybe"}

Root == <<"/">>
Path == <<"symfind.db">>
Capitals == "a" :> "A" @@ "b" :> "B"

Item(key, text) == [key |-> key, is_string |-> TRUE, text |-> text]
Object(items) == [state |-> "object", items |-> items]

\* Of two of these the lists differ and the blocks do not.
Texts == { <<"a">>, <<"b", " ", "a">>, <<" ", "b", "a">>, <<"b", "a", " ", " ">> }

Files ==
  { [state |-> s, items |-> << >>] : s \in {"missing", "broken"} }
  \cup { Object(<<Item("debug_pruning", <<"true">>), Item("prunefs", t)>>) : t \in Texts }
  \cup { Object(<<Item("prunefs", <<"a">>), Item(k, t)>>) : k \in {"prunenames", "prunepaths"}, t \in Texts }
  \cup { Object(<<Item("database_scan_path", p)>>) : p \in { << >>, <<"/usr">> } }
  \cup { Object(<<Item("database_path", << >>)>>),
         Object(<<Item("debug_pruning", <<"true">>), Item("prune_bind_mounts", <<"maybe">>)>>),
         Object(<<Item("prune_bind_mounts", <<"true">>)>>), Object(<<Item("colour", <<"a">>)>>) }
=============================================================================

----------------------------- MODULE MCRestore -----------------------------
(***************************************************************************)
(* Small instances of Restore for TLC: files of three or four jobs with    *)
(* every choice of parents, restored into a few stores.                    *)
(***************************************************************************)
EXTENDS Restore, TLC

FourNames == {"a", "b", "c", "d"}
OwnPrefix == [n \in FourNames |-> {n}]
OneSchedule == {"@every 1m"}

\* In the first file "d" is an unknown parent.
ThreeOrFour == {<<"a", "b", "c">>, <<"a", "b", "c", "d">>}
OnlyThree == {<<"a", "b", "c">>}

\* An empty store; one chain of jobs; two trees of two.
OldTrees == {<<>>, "b" :> NoName @@ "a" :> "b" @@ "c" :> "a",
             "a" :> NoName @@ "b" :> "a" @@ "c" :> NoName @@ "d" :> "c"}
EmptyStore == {<<>>}

=============================================================================

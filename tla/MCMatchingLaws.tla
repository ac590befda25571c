--------------------------- MODULE MCMatchingLaws ---------------------------
(* Every kind of value: void, strings that are numbers, begin with one or  *)
(* do not, whole and half numbers, NaN, and integers.                      *)
EXTENDS MatchingLaws, TLC

MCStrings == {"-1", "1", "1.5", "abc", "nan"}
MCRank == "-1" :> 1 @@ "1" :> 2 @@ "1.5" :> 3 @@ "abc" :> 4 @@ "nan" :> 5
MCAtol == "-1" :> -1 @@ "1" :> 1 @@ "1.5" :> 1 @@ "abc" :> 0 @@ "nan" :> 0
MCAtof == "-1" :> -2 @@ "1" :> 2 @@ "1.5" :> 3 @@ "abc" :> 0 @@ "nan" :> NaN

MCInputs == {Void} \cup {String(s) : s \in MCStrings}
            \cup {Floating(d) : d \in {-3, -2, 0, 2, 3, NaN}}
            \cup {Integer(i) : i \in {-1, 0, 1, 2}}

MCEmpty == [c \in {} |-> 0]
=============================================================================

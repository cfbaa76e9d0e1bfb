----------------------------- MODULE MCGraphDepends -----------------------------
(* Instances of GraphDepends: the acyclic dependencies of the toolchain    *)
(* and of packages none of which depends on a later one, and the same with *)
(* one dependency on a later package, or on itself, which may close        *)
(* circles.                                                                *)
EXTENDS GraphDepends

Names == <<"toolchain", "a", "b", "c">>

FourPkgs == {Names[i] : i \in 1 .. 4}
Pairs == (1 .. 4) \X (1 .. 4)
Down == {e \in Pairs : e[2] < e[1]}

FourGraphs ==
    {[p \in FourPkgs |-> {Names[e[2]] : e \in {x \in edges \cup back : Names[x[1]] = p}}] :
        edges \in SUBSET Down, back \in {{}} \cup {{e} : e \in Pairs \ Down}}

NoRuleForB == {{}, {"b"}}
================================================================================

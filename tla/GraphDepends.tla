------------------------------ MODULE GraphDepends ------------------------------
(***************************************************************************)
(* The script that draws the dependency graph of the selected packages or  *)
(* of one package (support/scripts/graph-depends): it asks make for the    *)
(* dependencies level by level, removes edges it takes for redundant, and  *)
(* draws what is left depth first, down to a maximum depth.  The order in  *)
(* which make lists the dependencies of a package is left open.            *)
(***************************************************************************)
EXTENDS Naturals, Sequences, SequencesExt

CONSTANTS
    Pkg,          \* packages, and targets that are none
    DepGraphs,    \* the dependencies to consider, circular ones included
    Unanswered,   \* sets of names that may have no show-depends rule
    MaxDepths     \* values of --depth, 0 for none

ASSUME GraphDependsAssumption ==
    /\ "toolchain" \in Pkg /\ "all" \notin Pkg
    /\ DepGraphs \subseteq [Pkg -> SUBSET Pkg] /\ Unanswered \subseteq SUBSET Pkg
    /\ MaxDepths \subseteq Nat

VARIABLES
    depends,       \* what make says each package depends on
    unanswered,    \* names for which make does not print one line
    rootpkg,       \* "all" in full mode
    max_depth,
    phase,
    allpkgs,       \* packages already asked for
    pkgs,          \* argument of the next get_all_depends
    dependencies,  \* the list of edges, as a set
    stack,         \* the active calls of print_pkg_deps
    done_deps,     \* packages drawn
    drawn          \* edges drawn

vars == <<depends, unanswered, rootpkg, max_depth, phase, allpkgs, pkgs,
          dependencies, stack, done_deps, drawn>>

(* Full mode starts from the targets, which always include the toolchain,  *)
(* package mode from one package.                                          *)
Init ==
    /\ depends \in DepGraphs /\ unanswered \in Unanswered /\ max_depth \in MaxDepths
    /\ \/ /\ rootpkg = "all" /\ allpkgs = {"all"}
          /\ pkgs \in {t \in SUBSET Pkg : "toolchain" \in t}
          /\ dependencies = {"all"} \X pkgs
       \/ /\ rootpkg \in Pkg /\ allpkgs = {} /\ pkgs = {rootpkg}
          /\ dependencies = {}
    /\ phase = "collect" /\ stack = <<>> /\ done_deps = {} /\ drawn = {}

(* get_depends asks make for the dependencies of some packages at once,    *)
(* and exits if make fails or does not print one line for each.  What they *)
(* depend on is the next level, if there is any.                           *)
get_depends(filtered_pkgs, new) ==
    /\ allpkgs' = allpkgs \cup filtered_pkgs
    /\ \/ /\ filtered_pkgs \cap unanswered # {}
          /\ phase' = "error" /\ UNCHANGED <<dependencies, pkgs>>
       \/ /\ filtered_pkgs \cap unanswered = {}
          /\ dependencies' = dependencies \cup new
          /\ pkgs' = {e[2] : e \in new}
          /\ phase' = IF new = {} THEN "reduce" ELSE "collect"

(* Mutants: a dependency that is known already is not recorded again;      *)
(* packages already asked for are asked for again.                         *)
get_all_dependsOnce ==
    /\ phase = "collect"
    /\ get_depends(pkgs \ allpkgs, {e \in (pkgs \ allpkgs) \X Pkg :
                                       e[2] \in depends[e[1]] \ allpkgs})
    /\ UNCHANGED <<depends, unanswered, rootpkg, max_depth, stack, done_deps,
                   drawn>>

get_all_dependsUnfiltered ==
    /\ phase = "collect"
    /\ get_depends(pkgs, {e \in pkgs \X Pkg : e[2] \in depends[e[1]]})
    /\ UNCHANGED <<depends, unanswered, rootpkg, max_depth, stack, done_deps,
                   drawn>>

(* One level of dependencies, for the packages not asked for yet. *)
get_all_depends ==
    /\ phase = "collect"
    /\ LET filtered_pkgs == pkgs \ allpkgs
       IN  get_depends(filtered_pkgs,
                       {e \in filtered_pkgs \X Pkg : e[2] \in depends[e[1]]})
    /\ UNCHANGED <<depends, unanswered, rootpkg, max_depth, stack, done_deps,
                   drawn>>

has_redundant_deps(edges, pkg) == \E e \in edges : e[1] # "all" /\ e[2] = pkg

(* Mutant: no exception for the toolchain as a target. *)
KeptNoException(edges, e) ==
    \/ e[1] # "all" /\ e[2] # "toolchain"
    \/ ~has_redundant_deps(edges, e[2])

Kept(edges, e) ==
    \/ e[1] = "all" /\ e[2] = "toolchain"
    \/ e[1] # "all" /\ e[2] # "toolchain"
    \/ ~has_redundant_deps(edges, e[2])

(* Mutant: one level too deep. *)
FrameDeeper(pkg, depth, edges) ==
    [pkg |-> pkg, depth |-> depth,
     left |-> IF max_depth = 0 \/ depth <= max_depth
              THEN {d \in Pkg : <<pkg, d>> \in edges} ELSE {}]

(* print_pkg_deps for a package that is not drawn yet: what the call has   *)
(* left to do are the edges to the package's dependencies.                 *)
Frame(pkg, depth, edges) ==
    [pkg |-> pkg, depth |-> depth,
     left |-> IF max_depth = 0 \/ depth < max_depth
              THEN {d \in Pkg : <<pkg, d>> \in edges} ELSE {}]

remove_redundant_deps ==
    /\ phase = "reduce" /\ phase' = "draw"
    /\ dependencies' = {e \in dependencies : Kept(dependencies, e)}
    /\ stack' = <<Frame(rootpkg, 0, dependencies')>>
    /\ done_deps' = {rootpkg}
    /\ UNCHANGED <<depends, unanswered, rootpkg, max_depth, allpkgs, pkgs, drawn>>

(* Mutant: the edge drawn the other way round. *)
print_pkg_depsReversed ==
    /\ phase = "draw" /\ stack # <<>> /\ Last(stack).left # {}
    /\ \E d \in Last(stack).left :
        /\ drawn' = drawn \cup {<<d, Last(stack).pkg>>}
        /\ stack' = [stack EXCEPT ![Len(stack)].left = @ \ {d}]
    /\ UNCHANGED <<depends, unanswered, rootpkg, max_depth, phase, allpkgs,
                   pkgs, dependencies, done_deps>>

(* One pass of the loop of print_pkg_deps, or the return from it. *)
print_pkg_deps ==
    /\ phase = "draw" /\ stack # <<>>
    /\ LET top == Last(stack)
       IN  \/ /\ top.left = {}
              /\ stack' = Front(stack) /\ UNCHANGED <<done_deps, drawn>>
           \/ \E d \in top.left :
                LET rest == [stack EXCEPT ![Len(stack)].left = @ \ {d}]
                IN  /\ drawn' = drawn \cup {<<top.pkg, d>>}
                    /\ done_deps' = done_deps \cup {d}
                    /\ stack' = IF d \in done_deps THEN rest
                                ELSE Append(rest, Frame(d, top.depth + 1,
                                                        dependencies))
    /\ UNCHANGED <<depends, unanswered, rootpkg, max_depth, phase, allpkgs,
                   pkgs, dependencies>>

Finish ==
    /\ phase = "draw" /\ stack = <<>> /\ phase' = "end"
    /\ UNCHANGED <<depends, unanswered, rootpkg, max_depth, allpkgs, pkgs,
                   dependencies, stack, done_deps, drawn>>

Next == get_all_depends \/ remove_redundant_deps \/ print_pkg_deps \/ Finish

Spec == Init /\ [][Next]_vars

(* The script is one sequential program. *)
FairSpec == Spec /\ WF_vars(Next)
--------------------------------------------------------------------------------
Node == Pkg \cup {"all"}
Call == [pkg : Node, depth : Nat, left : SUBSET Pkg]

(* The types of the variables; edges lead from a package, or from "all", to *)
(* a package.                                                              *)
TypeOK ==
    /\ depends \in [Pkg -> SUBSET Pkg] /\ unanswered \subseteq Pkg
    /\ rootpkg \in Node /\ max_depth \in MaxDepths
    /\ phase \in {"collect", "error", "reduce", "draw", "end"}
    /\ allpkgs \subseteq Node /\ pkgs \subseteq Pkg /\ done_deps \subseteq Node
    /\ dependencies \cup drawn \subseteq Node \X Pkg
    /\ stack \in Seq(Call)

Edges == {e \in Pkg \X Pkg : e[2] \in depends[e[1]]}

(* The targets, or the package the graph is for; and all they need: what   *)
(* is in every set of packages that has them and its own dependencies.     *)
Roots == IF rootpkg # "all" THEN {rootpkg} ELSE {p \in Pkg : <<"all", p>> \in dependencies}

Closed(S) == \A p \in S : depends[p] \subseteq S

Needs(R) == {p \in Pkg : \A S \in SUBSET Pkg : R \subseteq S /\ Closed(S) => p \in S}

(* The edges collected level by level are those of all the packages that   *)
(* the root needs, each package having been asked for once.  The script    *)
(* gives up if and only if make has no answer for one of these.            *)
CollectsAll ==
    /\ phase = "reduce" =>
        /\ allpkgs \ {"all"} = Needs(Roots) /\ Needs(Roots) \cap unanswered = {}
        /\ {e \in dependencies : e[1] # "all"} = {e \in Edges : e[1] \in Needs(Roots)}
    /\ phase = "error" => Needs(Roots) \cap unanswered # {}

(* No packages depend on one another in a circle: of any packages, one is  *)
(* a dependency of none of them.                                           *)
Acyclic(d) ==
    \A S \in SUBSET Pkg : S # {} => \E p \in S : \A q \in S : p \notin d[q]

(* Without a maximum depth the full graph shows every package that was     *)
(* collected: no edge was redundant that a package hung on.  In a circle   *)
(* of targets each makes the edge to the next one redundant, so that the   *)
(* graph must be acyclic.                                                  *)
NothingLost ==
    phase = "end" /\ max_depth = 0 /\ rootpkg = "all" /\ Acyclic(depends) =>
        done_deps = allpkgs

(* The graph is finished or given up, also if packages depend on one       *)
(* another in a circle: each is asked for, and drawn, only once.           *)
Terminates == <>(phase \in {"end", "error"})

(* A path of k edges that are left leads from the root to a package. *)
PathTo(p, k) ==
    \E path \in [0 .. k -> Node] :
        /\ path[0] = rootpkg /\ path[k] = p
        /\ \A i \in 1 .. k : <<path[i - 1], path[i]>> \in dependencies

(* The manual on --depth: "limit the dependency depth to N levels".  No    *)
(* package is drawn that cannot be reached in N steps.                     *)
DepthRespected ==
    phase \in {"draw", "end"} /\ max_depth > 0 =>
        \A p \in done_deps : \E k \in 0 .. max_depth : PathTo(p, k)
================================================================================

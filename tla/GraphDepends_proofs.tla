-------------------------- MODULE GraphDepends_proofs --------------------------
(***************************************************************************)
(* The dependency graph is complete, loses no package to the removal of    *)
(* redundant edges and keeps to the maximum depth, for any packages and    *)
(* dependencies (acyclic ones for the second), any root and any order of   *)
(* drawing.                                                                *)
(***************************************************************************)
EXTENDS GraphDepends, TLAPS

Packages == allpkgs \ {"all"}

(* While edges are collected: they are those of the packages asked for so  *)
(* far, and what these depend on is known and needed.                      *)
CollectInv ==
    /\ rootpkg = "all" => "all" \in allpkgs
    /\ phase # "error" =>
        /\ \A p \in Packages : depends[p] \subseteq allpkgs \cup pkgs
        /\ \A e \in dependencies : e[2] \in allpkgs \cup pkgs
        /\ phase # "collect" => pkgs = {}

(* A script that gave up had asked for a package it needed. *)
ErrorInv == phase = "error" => Needs(Roots) \cap unanswered # {}

GatherInv ==
    phase \in {"collect", "reduce"} =>
        /\ Roots \subseteq allpkgs \cup pkgs
        /\ Packages \cup pkgs \subseteq Needs(Roots) /\ Packages \cap unanswered = {}
        /\ \A e \in dependencies : e[1] # "all" => e \in Edges /\ e[1] \in allpkgs
        /\ \A e \in Edges : e[1] \in allpkgs => e \in dependencies
        /\ rootpkg = "all" =>
            /\ <<"all", "toolchain">> \in dependencies
            /\ \A p \in Packages \cup pkgs : \E q \in allpkgs : <<q, p>> \in dependencies

Drawing == phase \in {"draw", "end"}

(* The edges that are left still lead to every package. *)
ReachInv ==
    Drawing /\ rootpkg = "all" =>
        \A p \in Packages : \/ <<"all", p>> \in dependencies
                            \/ \E q \in Packages : /\ p \in depends[q]
                                                   /\ <<q, p>> \in dependencies

(* The active calls are a path from the root, as deep as they are many. *)
StackInv ==
    Drawing =>
        /\ \A i \in DOMAIN stack :
            /\ stack[i].depth = i - 1
            /\ \A d \in stack[i].left : <<stack[i].pkg, d>> \in dependencies
            /\ stack[i].left # {} => max_depth = 0 \/ i <= max_depth
        /\ stack # <<>> => stack[1].pkg = rootpkg
        /\ \A i \in 1 .. Len(stack) - 1 : <<stack[i].pkg, stack[i + 1].pkg>> \in dependencies
        /\ phase = "end" => stack = <<>>

(* What a drawn package depends on is drawn, or is going to be. *)
CoverInv ==
    Drawing =>
        /\ rootpkg \in done_deps
        /\ rootpkg = "all" => done_deps \subseteq allpkgs
        /\ max_depth = 0 =>
            \A q \in done_deps : \A d \in Pkg : <<q, d>> \in dependencies =>
                \/ d \in done_deps
                \/ \E i \in DOMAIN stack : stack[i].pkg = q /\ d \in stack[i].left

IInv == /\ TypeOK /\ CollectInv /\ GatherInv /\ ErrorInv
        /\ ReachInv /\ StackInv /\ CoverInv /\ DepthRespected

(* The names and the dependencies the assumptions allow. *)
LEMMA Names == /\ "all" \notin Pkg /\ "toolchain" \in Pkg /\ Pkg \subseteq Node
               /\ "all" \in Node /\ MaxDepths \subseteq Nat
               /\ DepGraphs \subseteq [Pkg -> SUBSET Pkg] /\ Unanswered \subseteq SUBSET Pkg
  BY GraphDependsAssumption DEF Node

(* Pairs of packages. *)
LEMMA Pairs == ASSUME TypeOK
               PROVE  /\ \A e \in dependencies : /\ e[1] \in Node /\ e[2] \in Pkg
                                                 /\ e = <<e[1], e[2]>>
                      /\ \A e \in Edges : /\ e[1] \in Pkg /\ e[2] \in Pkg /\ e = <<e[1], e[2]>>
                                          /\ e[2] \in depends[e[1]]
                      /\ \A p \in Pkg : \A q \in depends[p] : <<p, q>> \in Edges
  BY DEF TypeOK, Edges

(* What is needed is needed. *)
LEMMA NeedsFacts == ASSUME TypeOK, NEW R \in SUBSET Pkg
                    PROVE  R \subseteq Needs(R) /\ \A p \in Needs(R) : depends[p] \subseteq Needs(R)
  BY DEF TypeOK, Needs, Closed

(* Both modes start with the roots only. *)
LEMMA InitInv == Init => IInv
  <1> SUFFICES ASSUME Init PROVE IInv OBVIOUS
  <1>1. TypeOK
    <2>1. stack \in Seq(Call)
      BY DEF Init
    <2>2. depends \in [Pkg -> SUBSET Pkg] /\ rootpkg \in Node /\ unanswered \subseteq Pkg
      BY Names DEF Init
    <2>3. pkgs \subseteq Pkg /\ dependencies \cup drawn \subseteq Node \X Pkg
      BY Names DEF Init
    <2> QED BY <2>1, <2>2, <2>3, Names DEF Init, TypeOK
  <1>2. pkgs = Roots /\ Roots \subseteq Pkg /\ Packages = {}
    BY Names DEF Init, Roots, Packages
  <1>3. \A e \in dependencies : e[1] = "all" /\ e[2] \in pkgs
    BY DEF Init
  <1>4. CollectInv
    BY <1>2, <1>3, Names DEF Init, CollectInv
  <1>5. GatherInv
    <2>1. pkgs \subseteq Needs(Roots)
      BY <1>1, <1>2, NeedsFacts
    <2>2. \A e \in Edges : e[1] \notin allpkgs
      BY <1>1, Pairs, Names DEF Init
    <2>3. rootpkg = "all" => /\ "toolchain" \in pkgs /\ "all" \in allpkgs
                             /\ \A p \in pkgs : <<"all", p>> \in dependencies
      BY Names DEF Init
    <2> QED BY <1>2, <1>3, <2>1, <2>2, <2>3 DEF GatherInv
  <1>6. ErrorInv /\ ReachInv /\ StackInv /\ CoverInv /\ DepthRespected
    BY DEF Init, ErrorInv, ReachInv, StackInv, CoverInv, DepthRespected, Drawing
  <1> QED BY <1>1, <1>4, <1>5, <1>6 DEF IInv
-----------------------------------------------------------------------------
(* The script gives up. *)
LEMMA ErrorStep ==
    ASSUME IInv, get_all_depends, (pkgs \ allpkgs) \cap unanswered # {} PROVE IInv'
  <1> DEFINE filtered == pkgs \ allpkgs
  <1>0. TypeOK /\ CollectInv /\ GatherInv /\ phase = "collect"
    BY DEF IInv, get_all_depends
  <1>1. /\ phase' = "error" /\ allpkgs' = allpkgs \cup filtered
        /\ UNCHANGED <<dependencies, pkgs, depends, unanswered, rootpkg, max_depth, stack,
                       done_deps, drawn>>
    BY DEF get_all_depends, get_depends
  <1>2. TypeOK'
    BY <1>0, <1>1, Names DEF TypeOK
  <1>3. CollectInv'
    BY <1>0, <1>1 DEF CollectInv
  <1>4. Roots' = Roots /\ \A R : Needs(R)' = Needs(R)
    BY <1>1 DEF Roots, Needs, Closed
  <1>5. Needs(Roots) \cap unanswered # {}
    <2>1. pkgs \subseteq Needs(Roots)
      BY <1>0 DEF GatherInv
    <2> QED BY <2>1
  <1>6. ErrorInv'
    BY <1>1, <1>4, <1>5 DEF ErrorInv
  <1> QED BY <1>1, <1>2, <1>3, <1>6
          DEF IInv, GatherInv, ReachInv, StackInv, CoverInv, DepthRespected, Drawing

(* One level of dependencies. *)
LEMMA LevelStep ==
    ASSUME IInv, get_all_depends, (pkgs \ allpkgs) \cap unanswered = {} PROVE IInv'
  <1> DEFINE filtered == pkgs \ allpkgs
             new == {e \in filtered \X Pkg : e[2] \in depends[e[1]]}
  <1>0. TypeOK /\ CollectInv /\ GatherInv
    BY DEF IInv
  <1>1. /\ phase = "collect" /\ allpkgs' = allpkgs \cup filtered
        /\ dependencies' = dependencies \cup new /\ pkgs' = {e[2] : e \in new}
        /\ phase' = (IF new = {} THEN "reduce" ELSE "collect")
        /\ UNCHANGED <<depends, unanswered, rootpkg, max_depth, stack, done_deps, drawn>>
    BY DEF get_all_depends, get_depends
  <1>2. filtered \subseteq Pkg /\ "all" \notin filtered /\ filtered \subseteq pkgs
    BY <1>0, Names DEF TypeOK
  <1>3. /\ \A e \in new : /\ e[1] \in filtered /\ e[2] \in Pkg /\ e = <<e[1], e[2]>>
                          /\ e[2] \in depends[e[1]] /\ e[2] \in pkgs' /\ e \in Edges
        /\ \A p \in filtered : \A q \in depends[p] : <<p, q>> \in new /\ q \in pkgs'
        /\ \A p \in pkgs' : \E q \in filtered : p \in depends[q] /\ <<q, p>> \in new
    <2>1. \A p \in filtered : \A q \in depends[p] : q \in Pkg
      BY <1>0, <1>2 DEF TypeOK
    <2>2. \A p \in filtered : \A q \in depends[p] : <<p, q>> \in new
      BY <2>1
    <2>3. \A e \in new : /\ e[1] \in filtered /\ e[2] \in Pkg /\ e = <<e[1], e[2]>>
                         /\ e[2] \in depends[e[1]] /\ e[2] \in pkgs'
      BY <1>1
    <2>4. \A e \in new : e \in Edges
      BY <1>2 DEF Edges
    <2>5. ASSUME NEW p \in filtered, NEW q \in depends[p] PROVE q \in pkgs'
      <3>2. <<p, q>> \in new /\ <<p, q>>[2] = q
        BY <2>2
      <3> QED BY <2>3, <3>2
    <2>6. ASSUME NEW p \in pkgs'
          PROVE  \E q \in filtered : p \in depends[q] /\ <<q, p>> \in new
      <3>1. PICK e \in new : p = e[2]
        BY <1>1
      <3> QED BY <2>3, <3>1
    <2> QED BY <2>2, <2>3, <2>4, <2>5, <2>6
  <1> HIDE DEF filtered, new
  <1>4. TypeOK'
    <2>1. allpkgs' \subseteq Node
      BY <1>0, <1>1, <1>2, Names DEF TypeOK
    <2>2. new \subseteq Node \X Pkg
      BY <1>2, Names DEF new
    <2>3. pkgs' \subseteq Pkg
      BY <1>3, <1>1
    <2>4. phase' \in {"collect", "reduce"}
      BY <1>1
    <2> QED BY <1>0, <1>1, <2>1, <2>2, <2>3, <2>4 DEF TypeOK
  <1>5. Packages' = Packages \cup filtered /\ Edges' = Edges /\ Roots' = Roots
        /\ \A R : Needs(R)' = Needs(R)
    <2>1. Packages' = Packages \cup filtered
      BY <1>1, <1>2 DEF Packages
    <2>2. Edges' = Edges /\ \A R : Needs(R)' = Needs(R)
      BY <1>1 DEF Edges, Needs, Closed
    <2>3. \A p \in Pkg : <<"all", p>> \in dependencies' <=> <<"all", p>> \in dependencies
      <3>1. \A p \in Pkg : <<"all", p>> \notin new
        BY <1>2, <1>3
      <3> QED BY <1>1, <3>1
    <2>4. Roots' = Roots
      BY <1>1, <2>3 DEF Roots
    <2> QED BY <2>1, <2>2, <2>4
  <1>6. CollectInv'
    <2>1. \A p \in Packages' : depends[p] \subseteq allpkgs' \cup pkgs'
      <3>1. \A p \in Packages : depends[p] \subseteq allpkgs \cup filtered
        BY <1>0, <1>1 DEF CollectInv, filtered
      <3> QED BY <1>1, <1>3, <1>5, <3>1
    <2>2. \A e \in dependencies' : e[2] \in allpkgs' \cup pkgs'
      <3>1. \A e \in dependencies : e[2] \in allpkgs \cup filtered
        BY <1>0, <1>1 DEF CollectInv, filtered
      <3> QED BY <1>1, <1>3, <3>1
    <2>3. phase' # "collect" => pkgs' = {}
      BY <1>1
    <2>4. rootpkg' = "all" => "all" \in allpkgs'
      BY <1>0, <1>1 DEF CollectInv
    <2> QED BY <1>1, <2>1, <2>2, <2>3, <2>4 DEF CollectInv
  <1>7. GatherInv'
    <2>1. Roots \subseteq allpkgs' \cup pkgs'
      BY <1>0, <1>1 DEF GatherInv, filtered
    <2>2. Packages' \cup pkgs' \subseteq Needs(Roots)
      <3>1. Roots \subseteq Pkg
        BY <1>0, Names DEF Roots, TypeOK, Node
      <3>2. Packages \cup pkgs \subseteq Needs(Roots)
        BY <1>0, <1>1 DEF GatherInv
      <3>3. \A p \in filtered : depends[p] \subseteq Needs(Roots)
        BY <1>0, <1>2, <3>1, <3>2, NeedsFacts
      <3> QED BY <1>2, <1>3, <1>5, <3>2, <3>3
    <2>3. \A e \in dependencies' : e[1] # "all" => e \in Edges /\ e[1] \in allpkgs'
      BY <1>0, <1>1, <1>3 DEF GatherInv
    <2>4. \A e \in Edges : e[1] \in allpkgs' => e \in dependencies'
      <3>1. SUFFICES ASSUME NEW e \in Edges, e[1] \in filtered PROVE e \in new
        BY <1>0, <1>1 DEF GatherInv
      <3>2. e[2] \in depends[e[1]] /\ e = <<e[1], e[2]>>
        BY <1>0, Pairs
      <3>3. <<e[1], e[2]>> \in new
        BY <1>3, <3>1, <3>2
      <3> QED BY <3>2, <3>3
    <2>5. ASSUME rootpkg = "all"
          PROVE  /\ <<"all", "toolchain">> \in dependencies'
                 /\ \A p \in Packages' \cup pkgs' :
                        \E q \in allpkgs' : <<q, p>> \in dependencies'
      <3>1. \A p \in Packages \cup pkgs : \E q \in allpkgs : <<q, p>> \in dependencies
        BY <1>0, <1>1, <2>5 DEF GatherInv
      <3>2. \A p \in Packages' : \E q \in allpkgs' : <<q, p>> \in dependencies'
        BY <1>1, <1>2, <1>5, <3>1
      <3>3. \A p \in pkgs' : \E q \in allpkgs' : <<q, p>> \in dependencies'
        BY <1>1, <1>3
      <3> QED BY <1>0, <1>1, <2>5, <3>2, <3>3 DEF GatherInv
    <2>6. Packages' \cap unanswered = {}
      BY <1>0, <1>1, <1>5 DEF GatherInv, filtered
    <2> QED BY <1>1, <1>5, <2>1, <2>2, <2>3, <2>4, <2>5, <2>6 DEF GatherInv
  <1>8. ErrorInv' /\ ReachInv' /\ StackInv' /\ CoverInv' /\ DepthRespected'
    BY <1>1 DEF ErrorInv, ReachInv, StackInv, CoverInv, DepthRespected, Drawing
  <1> QED BY <1>4, <1>6, <1>7, <1>8 DEF IInv

(* The script asks for one level, or gives up. *)
LEMMA CollectStep == ASSUME IInv, get_all_depends PROVE IInv'
  BY ErrorStep, LevelStep

(* The removal of edges.  The edges into a package other than the          *)
(* toolchain that come from packages are all kept; if there is none, the   *)
(* edge from "all" is; the toolchain keeps that one.                       *)
LEMMA ReduceStep == ASSUME IInv, remove_redundant_deps PROVE IInv'
  <1>0. TypeOK /\ CollectInv /\ GatherInv
    BY DEF IInv
  <1>1. /\ phase = "reduce" /\ phase' = "draw"
        /\ dependencies' = {e \in dependencies : Kept(dependencies, e)}
        /\ stack' = <<Frame(rootpkg, 0, dependencies')>> /\ done_deps' = {rootpkg}
        /\ UNCHANGED <<depends, unanswered, rootpkg, max_depth, allpkgs, pkgs, drawn>>
    BY DEF remove_redundant_deps
  <1>2. dependencies' \subseteq dependencies
    BY <1>1
  <1>3. PICK f : f = Frame(rootpkg, 0, dependencies')
    OBVIOUS
  <1>4. /\ f = [pkg |-> rootpkg, depth |-> 0, left |-> f.left]
        /\ f.left = IF max_depth = 0 \/ 0 < max_depth
                    THEN {d \in Pkg : <<rootpkg, d>> \in dependencies'} ELSE {}
        /\ stack' = <<f>> /\ Len(stack') = 1 /\ DOMAIN stack' = {1} /\ stack'[1] = f
    BY <1>1, <1>3 DEF Frame
  <1>5. TypeOK'
    <2>1. f.left \in SUBSET Pkg
      BY <1>4
    <2>2. f \in Call
      <3>1. rootpkg \in Node
        BY <1>0 DEF TypeOK
      <3>2. [pkg |-> rootpkg, depth |-> 0, left |-> f.left] \in Call
        BY <2>1, <3>1 DEF Call
      <3> QED BY <1>4, <3>2
    <2>3. stack' \in Seq(Call)
      BY <1>4, <2>2
    <2> QED BY <1>0, <1>1, <1>2, <2>3 DEF TypeOK
  <1>6. CollectInv'
    BY <1>0, <1>1, <1>2 DEF CollectInv, Packages
  <1>7. GatherInv' /\ ErrorInv'
    BY <1>1 DEF GatherInv, ErrorInv
  <1>8. ReachInv'
    <2>1. SUFFICES ASSUME rootpkg = "all", NEW p \in Packages
                   PROVE  \/ <<"all", p>> \in dependencies'
                          \/ \E q \in Packages : p \in depends[q] /\ <<q, p>> \in dependencies'
      BY <1>1 DEF ReachInv, Packages
    <2>2. /\ <<"all", "toolchain">> \in dependencies /\ p \in Pkg
          /\ \E q \in allpkgs : <<q, p>> \in dependencies
      BY <1>0, <1>1, <2>1 DEF GatherInv, TypeOK, Node, Packages
    <2>3. CASE p = "toolchain"
      BY <1>1, <2>2, <2>3 DEF Kept
    <2>4. CASE p # "toolchain" /\ \E q \in Packages : <<q, p>> \in dependencies
      <3>1. PICK q \in Packages : <<q, p>> \in dependencies
        BY <2>4
      <3>2. q # "all"
        BY DEF Packages
      <3>3. <<q, p>> \in Edges
        BY <1>0, <1>1, <3>1, <3>2 DEF GatherInv
      <3>4. p \in depends[q]
        BY <3>3 DEF Edges
      <3>5. <<q, p>> \in dependencies'
        BY <1>1, <2>4, <3>1, <3>2 DEF Kept
      <3> QED BY <3>4, <3>5
    <2>5. CASE p # "toolchain" /\ ~\E q \in Packages : <<q, p>> \in dependencies
      <3>1. <<"all", p>> \in dependencies
        BY <2>2, <2>5 DEF Packages
      <3>2. ~has_redundant_deps(dependencies, p)
        <4>1. SUFFICES ASSUME NEW e \in dependencies, e[1] # "all", e[2] = p PROVE FALSE
          BY DEF has_redundant_deps
        <4>2. e[1] \in Packages /\ e = <<e[1], e[2]>>
          BY <1>0, <1>1, <4>1, Pairs DEF GatherInv, Packages
        <4> QED BY <2>5, <4>1, <4>2
      <3> QED BY <1>1, <3>1, <3>2 DEF Kept
    <2> QED BY <2>3, <2>4, <2>5
  <1>9. StackInv'
    <2>1. \A d \in f.left : <<rootpkg, d>> \in dependencies'
      BY <1>4
    <2>2. f.left # {} => max_depth = 0 \/ 1 <= max_depth
      BY <1>0, <1>4, Names DEF TypeOK
    <2>3. f.depth = 1 - 1 /\ f.pkg = rootpkg
      BY <1>4
    <2>4. \A i \in 1 .. Len(stack') - 1 : FALSE
      BY <1>4
    <2>5. /\ Drawing' /\ phase' # "end"
      BY <1>1 DEF Drawing
    <2>6. \A i \in DOMAIN stack' : i = 1 /\ stack'[i] = f
      BY <1>4
    <2> QED BY <1>1, <1>4, <2>1, <2>2, <2>3, <2>4, <2>5, <2>6 DEF StackInv
  <1>10. CoverInv'
    <2>1. max_depth = 0 => \A d \in Pkg : <<rootpkg, d>> \in dependencies' => d \in f.left
      BY <1>4
    <2>2. f.pkg = rootpkg
      BY <1>4
    <2>3. rootpkg = "all" => rootpkg \in allpkgs
      BY <1>0 DEF CollectInv
    <2> QED BY <1>1, <1>4, <2>1, <2>2, <2>3 DEF CoverInv
  <1>11. DepthRespected'
    <2>1. PathTo(rootpkg, 0)'
      <3>1. PICK path : path = [i \in 0 .. 0 |-> rootpkg]
        OBVIOUS
      <3>2. path \in [0 .. 0 -> Node] /\ path[0] = rootpkg'
        BY <1>0, <1>1, <3>1 DEF TypeOK
      <3>3. \A i \in 1 .. 0 : FALSE
        OBVIOUS
      <3> QED BY <1>1, <3>2, <3>3 DEF PathTo
    <2>2. max_depth \in Nat
      BY <1>0, Names DEF TypeOK
    <2> QED BY <1>1, <2>1, <2>2 DEF DepthRespected
  <1> QED BY <1>5, <1>6, <1>7, <1>8, <1>9, <1>10, <1>11 DEF IInv
-----------------------------------------------------------------------------
(* What one pass of print_pkg_deps does to the stack. *)
Popped == /\ stack' \in Seq(Call)
          /\ Len(stack') = Len(stack) - 1
          /\ \A i \in 1 .. Len(stack) - 1 : stack'[i] = stack[i]
          /\ stack[Len(stack)].left = {} /\ done_deps' = done_deps /\ drawn' = drawn

Passed(d) == /\ d \in stack[Len(stack)].left /\ done_deps' = done_deps \cup {d}
             /\ \A i \in 1 .. Len(stack) :
                  /\ stack'[i].pkg = stack[i].pkg /\ stack'[i].depth = stack[i].depth
                  /\ stack'[i].left = IF i = Len(stack) THEN stack[i].left \ {d}
                                                        ELSE stack[i].left

Again(d) == Passed(d) /\ d \in done_deps /\ Len(stack') = Len(stack)

Called(d) == /\ Passed(d) /\ d \notin done_deps /\ Len(stack') = Len(stack) + 1
             /\ stack'[Len(stack) + 1]
                    = Frame(d, stack[Len(stack)].depth + 1, dependencies)

(* Sequences that are not empty. *)
LEMMA SeqFacts ==
    ASSUME NEW S, NEW s \in Seq(S), s # <<>>
    PROVE  /\ Len(s) \in Nat /\ Len(s) >= 1 /\ DOMAIN s = 1 .. Len(s)
           /\ s[Len(s)] \in S /\ Last(s) = s[Len(s)]
           /\ Front(s) \in Seq(S) /\ Len(Front(s)) = Len(s) - 1
           /\ \A i \in 1 .. Len(s) - 1 : Front(s)[i] = s[i]
  <1>1. Len(s) \in Nat /\ Len(s) >= 1 /\ DOMAIN s = 1 .. Len(s) /\ s[Len(s)] \in S
    OBVIOUS
  <1>2. Last(s) = s[Len(s)] /\ Front(s) = SubSeq(s, 1, Len(s) - 1)
    BY DEF Last, Front
  <1> QED BY <1>1, <1>2

(* Replacing an element of a sequence leaves the others. *)
LEMMA SeqReplace ==
    ASSUME NEW S, NEW s \in Seq(S), NEW i \in 1 .. Len(s), NEW x \in S
    PROVE  LET t == [s EXCEPT ![i] = x]
           IN  /\ t \in Seq(S) /\ Len(t) = Len(s) /\ t[i] = x
               /\ \A j \in 1 .. Len(s) : j # i => t[j] = s[j]
  OBVIOUS

(* Appending to a sequence leaves its elements. *)
LEMMA SeqAppend ==
    ASSUME NEW S, NEW s \in Seq(S), NEW x \in S
    PROVE  /\ Append(s, x) \in Seq(S) /\ Len(Append(s, x)) = Len(s) + 1
           /\ Append(s, x)[Len(s) + 1] = x
           /\ \A j \in 1 .. Len(s) : Append(s, x)[j] = s[j]
  OBVIOUS

(* The two things print_pkg_deps does: return, or draw an edge of the last *)
(* active call and, for a package not drawn yet, call itself.              *)
LEMMA DrawFacts ==
    ASSUME TypeOK, print_pkg_deps
    PROVE  /\ phase = "draw" /\ stack # <<>> /\ Len(stack) \in Nat /\ Len(stack) >= 1
           /\ UNCHANGED <<depends, unanswered, rootpkg, max_depth, phase, allpkgs, pkgs, dependencies>>
           /\ Popped \/ \E d \in Pkg : Again(d) \/ Called(d)
           /\ TypeOK'
  <1> DEFINE n == Len(stack)
             top == stack[n]
  <1>1. /\ phase = "draw" /\ stack # <<>> /\ stack \in Seq(Call)
        /\ UNCHANGED <<depends, unanswered, rootpkg, max_depth, phase, allpkgs, pkgs, dependencies>>
    BY DEF print_pkg_deps, TypeOK
  <1>2. n \in Nat /\ n >= 1 /\ Last(stack) = top /\ top \in Call /\ DOMAIN stack = 1 .. n
    BY <1>1, SeqFacts
  <1>3. CASE top.left = {} /\ stack' = Front(stack) /\ UNCHANGED <<done_deps, drawn>>
    <2>2. Popped
      BY <1>1, <1>3, SeqFacts DEF Popped
    <2>3. TypeOK'
      BY <1>1, <1>3, <2>2 DEF TypeOK, Popped
    <2> QED BY <1>1, <1>2, <2>2, <2>3
  <1>4. ASSUME NEW d \in top.left,
               drawn' = drawn \cup {<<top.pkg, d>>}, done_deps' = done_deps \cup {d},
               LET rest == [stack EXCEPT ![n].left = @ \ {d}]
               IN  stack' = IF d \in done_deps THEN rest
                            ELSE Append(rest, Frame(d, top.depth + 1, dependencies))
        PROVE  (\E x \in Pkg : Again(x) \/ Called(x)) /\ TypeOK'
    <2> DEFINE rest == [stack EXCEPT ![n].left = @ \ {d}]
               new == Frame(d, top.depth + 1, dependencies)
    <2>1. d \in Pkg /\ top.pkg \in Node /\ top.depth \in Nat /\ top.left \in SUBSET Pkg
      BY <1>2, <1>4 DEF Call
    <2>2. /\ rest \in Seq(Call) /\ Len(rest) = n
          /\ \A i \in 1 .. n : /\ rest[i].pkg = stack[i].pkg /\ rest[i].depth = stack[i].depth
                               /\ rest[i].left = IF i = n THEN stack[i].left \ {d}
                                                          ELSE stack[i].left
      <3>1. rest = [stack EXCEPT ![n] = [stack[n] EXCEPT !.left = stack[n].left \ {d}]]
        OBVIOUS
      <3>2. PICK g : g = [stack[n] EXCEPT !.left = stack[n].left \ {d}]
        OBVIOUS
      <3>3. g \in Call /\ g.pkg = top.pkg /\ g.depth = top.depth /\ g.left = top.left \ {d}
        BY <1>2, <2>1, <3>2 DEF Call
      <3>4. rest = [stack EXCEPT ![n] = g]
        BY <3>1, <3>2
      <3> HIDE DEF rest
      <3>5. rest \in Seq(Call) /\ Len(rest) = n /\ rest[n] = g
            /\ \A i \in 1 .. n : i # n => rest[i] = stack[i]
        <4>1. n \in 1 .. Len(stack)
          BY <1>2
        <4> QED BY <1>1, <3>3, <3>4, <4>1, SeqReplace
      <3> QED BY <1>2, <3>3, <3>5
    <2>3. new \in Call
      BY <2>1, Names DEF Frame, Call
    <2> HIDE DEF rest, new
    <2>4. stack' = (IF d \in done_deps THEN rest ELSE Append(rest, new))
      BY <1>4 DEF rest, new
    <2>5. ASSUME d \in done_deps PROVE Again(d)
      BY <1>2, <1>4, <2>2, <2>4, <2>5 DEF Again, Passed
    <2>6. ASSUME d \notin done_deps PROVE Called(d)
      <3>1. /\ Len(stack') = n + 1 /\ stack'[n + 1] = new
            /\ \A i \in 1 .. n : stack'[i] = rest[i]
        BY <2>2, <2>3, <2>4, <2>6, SeqAppend
      <3>2. Passed(d)
        BY <1>2, <1>4, <2>2, <3>1 DEF Passed
      <3> QED BY <2>6, <3>1, <3>2 DEF Called, new
    <2>7. stack' \in Seq(Call)
      BY <2>2, <2>3, <2>4, SeqAppend
    <2>8. TypeOK'
      BY <1>1, <1>4, <2>1, <2>7, Names DEF TypeOK
    <2> QED BY <2>1, <2>5, <2>6, <2>8
  <1> QED
    <2>1. \/ top.left = {} /\ stack' = Front(stack) /\ UNCHANGED <<done_deps, drawn>>
          \/ \E d \in top.left :
                /\ drawn' = drawn \cup {<<top.pkg, d>>} /\ done_deps' = done_deps \cup {d}
                /\ LET rest == [stack EXCEPT ![n].left = @ \ {d}]
                   IN  stack' = IF d \in done_deps THEN rest
                                ELSE Append(rest, Frame(d, top.depth + 1, dependencies))
      BY <1>2 DEF print_pkg_deps
    <2> QED BY <1>1, <1>2, <1>3, <1>4, <2>1

(* A package is called from the last package of a path to it. *)
LEMMA NewPath ==
    ASSUME TypeOK, StackInv, phase = "draw", stack # <<>>, max_depth > 0,
           NEW d \in stack[Len(stack)].left
    PROVE  \E k \in 0 .. max_depth : PathTo(d, k)
  <1> DEFINE n == Len(stack)
  <1>1. n \in Nat /\ n >= 1 /\ DOMAIN stack = 1 .. n /\ stack[n] \in Call
    BY SeqFacts DEF TypeOK
  <1>2. d \in Pkg /\ d \in Node /\ max_depth \in Nat
    BY <1>1, Names DEF Call, TypeOK
  <1>3. n \in 0 .. max_depth /\ <<stack[n].pkg, d>> \in dependencies
    <2>1. n <= max_depth /\ <<stack[n].pkg, d>> \in dependencies
      BY <1>1, <1>2 DEF StackInv, Drawing
    <2> QED BY <1>1, <1>2, <2>1
  <1>4. PICK path : path = [i \in 0 .. n |-> IF i < n THEN stack[i + 1].pkg ELSE d]
    OBVIOUS
  <1>5. \A i \in 0 .. n : path[i] \in Node
    <2>1. \A i \in 1 .. n : stack[i].pkg \in Node
      <3>1. \A i \in 1 .. n : stack[i] \in Call
        BY <1>1 DEF TypeOK
      <3> QED BY <3>1 DEF Call
    <2> QED BY <1>1, <1>2, <1>4, <2>1
  <1>6. path \in [0 .. n -> Node] /\ path[0] = rootpkg /\ path[n] = d
    <2>1. stack[1].pkg = rootpkg
      BY DEF StackInv, Drawing
    <2> QED BY <1>1, <1>4, <1>5, <2>1
  <1>7. ASSUME NEW i \in 1 .. n PROVE <<path[i - 1], path[i]>> \in dependencies
    <2>1. path[i - 1] = stack[i].pkg
      <3>1. i - 1 \in 0 .. n /\ i - 1 < n /\ (i - 1) + 1 = i
        BY <1>1
      <3> HIDE DEF n
      <3>2. path[i - 1] = stack[(i - 1) + 1].pkg
        BY <1>4, <3>1
      <3> QED BY <3>1, <3>2
    <2>2. CASE i = n
      BY <1>1, <1>3, <1>4, <2>1, <2>2
    <2>3. CASE i # n
      <3> HIDE DEF n
      <3>0. i \in 1 .. n - 1 /\ i \in 0 .. n /\ i < n
        BY <1>1, <2>3
      <3>1. i \in 1 .. n - 1 /\ path[i] = stack[i + 1].pkg
        BY <1>4, <3>0
      <3> QED BY <2>1, <3>1 DEF StackInv, Drawing, n
    <2> QED BY <2>2, <2>3
  <1>8. PathTo(d, n)
    BY <1>6, <1>7 DEF PathTo
  <1> QED BY <1>3, <1>8

(* One pass of the loop of print_pkg_deps, or the return from it. *)
LEMMA DrawStep == ASSUME IInv, print_pkg_deps PROVE IInv'
  <1> DEFINE n == Len(stack)
             top == stack[n]
  <1>0. TypeOK /\ CollectInv /\ ReachInv /\ StackInv /\ CoverInv /\ DepthRespected
    BY DEF IInv
  <1>1. /\ phase = "draw" /\ stack # <<>> /\ n \in Nat /\ n >= 1
        /\ UNCHANGED <<depends, unanswered, rootpkg, max_depth, phase, allpkgs, pkgs, dependencies>>
        /\ Popped \/ \E d \in Pkg : Again(d) \/ Called(d)
        /\ TypeOK'
    BY <1>0, DrawFacts
  <1>2. CollectInv' /\ GatherInv' /\ ErrorInv' /\ ReachInv'
    BY <1>0, <1>1 DEF CollectInv, GatherInv, ErrorInv, ReachInv, Packages, Drawing
  <1>3. /\ DOMAIN stack = 1 .. n /\ DOMAIN stack' = 1 .. Len(stack') /\ max_depth \in Nat
        /\ Len(stack') \in Nat
    BY <1>0, <1>1, Names DEF TypeOK
  <1>4. /\ \A i \in 1 .. n :
            /\ stack[i].depth = i - 1
            /\ \A d \in stack[i].left : <<stack[i].pkg, d>> \in dependencies
            /\ stack[i].left # {} => max_depth = 0 \/ i <= max_depth
        /\ stack[1].pkg = rootpkg
        /\ \A i \in 1 .. n - 1 : <<stack[i].pkg, stack[i + 1].pkg>> \in dependencies
    BY <1>0, <1>1, <1>3 DEF StackInv, Drawing
  <1>5. /\ rootpkg \in done_deps /\ (rootpkg = "all" => done_deps \subseteq allpkgs)
        /\ max_depth = 0 =>
            \A q \in done_deps : \A d \in Pkg : <<q, d>> \in dependencies =>
                d \in done_deps \/ \E i \in 1 .. n : stack[i].pkg = q /\ d \in stack[i].left
    BY <1>0, <1>1, <1>3 DEF CoverInv, Drawing
  <1>6. /\ Drawing' /\ phase' # "end" /\ \A p, k : PathTo(p, k)' <=> PathTo(p, k)
        /\ max_depth > 0 => \A p \in done_deps : \E k \in 0 .. max_depth : PathTo(p, k)
    BY <1>0, <1>1 DEF Drawing, PathTo, DepthRespected
  <1>7. CASE Popped
    <2>1. Len(stack') = n - 1 /\ top.left = {} /\ done_deps' = done_deps
          /\ \A i \in 1 .. n - 1 : stack'[i] = stack[i]
      BY <1>7 DEF Popped
    <2>2. stack' # <<>> => 1 \in 1 .. n - 1
      BY <1>1, <1>3, <2>1
    <2>3. StackInv'
      <3>1. DOMAIN stack' = 1 .. n - 1 /\ \A i \in 1 .. n - 1 : i \in 1 .. n
        BY <1>1, <1>3, <2>1
      <3>2. \A i \in 1 .. Len(stack') - 1 : i \in 1 .. n - 1 /\ i + 1 \in 1 .. n - 1
        BY <1>1, <2>1
      <3> HIDE DEF n, top
      <3>3. \A i \in 1 .. Len(stack') - 1 :
                <<stack'[i].pkg, stack'[i + 1].pkg>> \in dependencies
        BY <1>4, <2>1, <3>2
      <3>4. \A i \in DOMAIN stack' : i \in 1 .. n /\ stack'[i] = stack[i]
        BY <2>1, <3>1
      <3> QED BY <1>1, <1>4, <1>6, <2>1, <2>2, <3>3, <3>4 DEF StackInv
    <2>4. ASSUME NEW i \in 1 .. n, NEW d \in stack[i].left
          PROVE  i \in 1 .. n - 1 /\ stack'[i] = stack[i]
      BY <1>1, <2>1
    <2>5. CoverInv'
      BY <1>1, <1>3, <1>5, <1>6, <2>1, <2>4 DEF CoverInv
    <2>6. DepthRespected'
      BY <1>1, <1>6, <2>1 DEF DepthRespected
    <2> QED BY <1>1, <1>2, <2>3, <2>5, <2>6 DEF IInv
  <1>8. ASSUME NEW d \in Pkg, Again(d) \/ Called(d) PROVE IInv'
    <2>1. /\ d \in top.left /\ done_deps' = done_deps \cup {d}
          /\ \A i \in 1 .. n : /\ stack'[i].pkg = stack[i].pkg
                               /\ stack'[i].depth = stack[i].depth
                               /\ stack'[i].left = IF i = n THEN stack[i].left \ {d}
                                                           ELSE stack[i].left
      BY <1>8 DEF Again, Called, Passed
    <2>2. \/ Len(stack') = n /\ d \in done_deps
          \/ /\ Len(stack') = n + 1 /\ d \notin done_deps /\ stack'[n + 1].pkg = d
             /\ stack'[n + 1].depth = top.depth + 1
             /\ stack'[n + 1].left = IF max_depth = 0 \/ top.depth + 1 < max_depth
                                     THEN {x \in Pkg : <<d, x>> \in dependencies} ELSE {}
      <3>1. CASE Again(d)
        BY <3>1 DEF Again
      <3>2. CASE Called(d)
        <4>1. PICK f : f = Frame(d, top.depth + 1, dependencies)
          OBVIOUS
        <4>2. /\ f.pkg = d /\ f.depth = top.depth + 1
              /\ f.left = IF max_depth = 0 \/ top.depth + 1 < max_depth
                          THEN {x \in Pkg : <<d, x>> \in dependencies} ELSE {}
          BY <4>1 DEF Frame
        <4>3. Len(stack') = n + 1 /\ d \notin done_deps /\ stack'[n + 1] = f
          BY <3>2, <4>1 DEF Called
        <4> QED BY <4>2, <4>3
      <3> QED BY <1>8, <3>1, <3>2
    <2>3. <<top.pkg, d>> \in dependencies /\ top.depth = n - 1
      BY <1>1, <1>4, <2>1
    <2> HIDE DEF n, top
    <2>4. StackInv'
      <3>1. ASSUME NEW i \in 1 .. Len(stack')
            PROVE  /\ stack'[i].depth = i - 1
                   /\ \A x \in stack'[i].left : <<stack'[i].pkg, x>> \in dependencies
                   /\ stack'[i].left # {} => max_depth = 0 \/ i <= max_depth
        <4>1. CASE i \in 1 .. n
          <5>1. stack'[i].left \subseteq stack[i].left
            BY <2>1, <4>1
          <5> QED BY <1>4, <2>1, <4>1, <5>1
        <4>2. CASE i = n + 1 /\ Len(stack') = n + 1
          <5>1. /\ stack'[i].pkg = d /\ stack'[i].depth = n
                /\ stack'[i].left = IF max_depth = 0 \/ n < max_depth
                                    THEN {x \in Pkg : <<d, x>> \in dependencies} ELSE {}
            BY <1>1, <2>2, <2>3, <4>2
          <5>2. \A x \in stack'[i].left : <<d, x>> \in dependencies
            BY <5>1
          <5>3. stack'[i].left # {} => max_depth = 0 \/ n < max_depth
            BY <5>1
          <5>4. n = i - 1 /\ (n < max_depth => i <= max_depth)
            BY <1>1, <1>3, <4>2
          <5> QED BY <5>1, <5>2, <5>3, <5>4
        <4> QED BY <1>1, <2>2, <4>1, <4>2
      <3>2. stack'[1].pkg = rootpkg
        <4>1. 1 \in 1 .. n
          BY <1>1
        <4> QED BY <1>4, <2>1, <4>1
      <3>3. ASSUME NEW i \in 1 .. Len(stack') - 1
            PROVE  <<stack'[i].pkg, stack'[i + 1].pkg>> \in dependencies
        <4>1. CASE i \in 1 .. n - 1
          <5>1. i \in 1 .. n /\ i + 1 \in 1 .. n
            BY <1>1, <4>1
          <5> QED BY <1>4, <2>1, <4>1, <5>1
        <4>2. CASE i = n /\ Len(stack') = n + 1
          <5>1. n \in 1 .. n /\ stack'[i + 1].pkg = d
            BY <1>1, <2>2, <4>2
          <5>2. stack'[i].pkg = top.pkg
            BY <2>1, <4>2, <5>1 DEF top
          <5> QED BY <2>3, <5>1, <5>2
        <4> QED BY <1>1, <2>2, <4>1, <4>2
      <3> QED BY <1>1, <1>3, <1>6, <3>1, <3>2, <3>3 DEF StackInv
    <2>5. CoverInv'
      <3>1. d \in allpkgs
        BY <1>0, <1>1, <2>3 DEF CollectInv
      <3>2. ASSUME max_depth = 0, NEW q \in done_deps', NEW x \in Pkg,
                   <<q, x>> \in dependencies, x \notin done_deps'
            PROVE  \E i \in DOMAIN stack' : stack'[i].pkg = q /\ x \in stack'[i].left
        <4>1. CASE q \in done_deps
          <5>1. PICK i \in 1 .. n : stack[i].pkg = q /\ x \in stack[i].left
            BY <1>5, <2>1, <3>2, <4>1
          <5>2. i \in 1 .. Len(stack')
            BY <1>1, <2>2, <5>1
          <5>3. stack'[i].pkg = q /\ x \in stack'[i].left
            BY <2>1, <3>2, <5>1
          <5> QED BY <1>3, <5>2, <5>3
        <4>2. CASE q \notin done_deps
          <5>1. q = d /\ Len(stack') = n + 1
            BY <2>1, <2>2, <4>2
          <5>2. n + 1 \in DOMAIN stack' /\ stack'[n + 1].pkg = q /\ x \in stack'[n + 1].left
            <6>1. n + 1 \in DOMAIN stack'
              BY <1>1, <1>3, <5>1
            <6>2. stack'[n + 1].pkg = d /\ stack'[n + 1].left = {y \in Pkg : <<d, y>> \in dependencies}
              BY <2>2, <3>2, <4>2, <5>1
            <6> QED BY <3>2, <5>1, <6>1, <6>2
          <5> QED BY <5>2
        <4> QED BY <4>1, <4>2
      <3> QED BY <1>1, <1>5, <1>6, <2>1, <3>1, <3>2 DEF CoverInv
    <2>6. DepthRespected'
      <3>1. max_depth > 0 => \E k \in 0 .. max_depth : PathTo(d, k)
        BY <1>0, <1>1, <2>1, NewPath DEF n, top
      <3> QED BY <1>1, <1>6, <2>1, <3>1 DEF DepthRespected
    <2> QED BY <1>1, <1>2, <2>4, <2>5, <2>6 DEF IInv
  <1> QED BY <1>1, <1>7, <1>8

(* The call for the root returns. *)
LEMMA FinishStep == ASSUME IInv, Finish PROVE IInv'
  <1>1. /\ phase = "draw" /\ stack = <<>> /\ phase' = "end"
        /\ UNCHANGED <<depends, unanswered, rootpkg, max_depth, allpkgs, pkgs, dependencies, stack,
                       done_deps, drawn>>
    BY DEF Finish
  <1>2. \A p, k : PathTo(p, k)' <=> PathTo(p, k)
    BY <1>1 DEF PathTo
  <1>3. TypeOK' /\ CollectInv' /\ GatherInv' /\ ErrorInv' /\ ReachInv'
    BY <1>1 DEF IInv, TypeOK, CollectInv, GatherInv, ErrorInv, ReachInv, Packages, Drawing
  <1>4. StackInv' /\ CoverInv' /\ DepthRespected'
    BY <1>1, <1>2 DEF IInv, StackInv, CoverInv, DepthRespected, Drawing
  <1> QED BY <1>3, <1>4 DEF IInv

(* The invariant is inductive. *)
LEMMA NextInv == IInv /\ [Next]_vars => IInv'
  <1>1. ASSUME IInv, Next PROVE IInv'
    BY <1>1, CollectStep, ReduceStep, DrawStep, FinishStep DEF Next
  <1>2. ASSUME IInv, UNCHANGED vars PROVE IInv'
    <2>1. UNCHANGED <<depends, unanswered, rootpkg, max_depth, phase, allpkgs, pkgs, dependencies, stack,
                      done_deps, drawn>>
      BY <1>2 DEF vars
    <2>2. /\ Edges' = Edges /\ Roots' = Roots /\ Packages' = Packages
          /\ (\A R : Needs(R)' = Needs(R)) /\ (\A p, k : PathTo(p, k)' <=> PathTo(p, k))
      BY <2>1 DEF Edges, Roots, Packages, Needs, Closed, PathTo
    <2>3. TypeOK' /\ CollectInv' /\ GatherInv' /\ ErrorInv' /\ ReachInv'
      BY <1>2, <2>1, <2>2 DEF IInv, TypeOK, CollectInv, GatherInv, ErrorInv, ReachInv, Drawing
    <2>4. StackInv' /\ CoverInv' /\ DepthRespected'
      BY <1>2, <2>1, <2>2 DEF IInv, StackInv, CoverInv, DepthRespected, Drawing
    <2> QED BY <2>3, <2>4 DEF IInv
  <1> QED BY <1>1, <1>2

(* IInv is an invariant of the script. *)
LEMMA SpecInv == Spec => []IInv
  BY InitInv, NextInv, PTL DEF Spec
-----------------------------------------------------------------------------
(* When no level brings new packages, the packages asked for are closed    *)
(* under dependency and so are all that the roots need.                    *)
LEMMA Collected == IInv => CollectsAll
  <1> SUFFICES ASSUME IInv, phase = "reduce"
               PROVE  /\ Packages = Needs(Roots) /\ Needs(Roots) \cap unanswered = {}
                      /\ {e \in dependencies : e[1] # "all"}
                            = {e \in Edges : e[1] \in Needs(Roots)}
    BY DEF CollectsAll, Packages, IInv, ErrorInv
  <1>0. TypeOK /\ CollectInv /\ GatherInv
    BY DEF IInv
  <1>1. Packages \subseteq Pkg /\ Roots \subseteq Pkg
    BY <1>0, Names DEF TypeOK, Packages, Roots, Node
  <1>2. Roots \subseteq Packages /\ Packages \subseteq Needs(Roots)
    BY <1>0, <1>1, Names DEF CollectInv, GatherInv, Packages
  <1>3. Closed(Packages)
    <2>1. ASSUME NEW p \in Packages, NEW q \in depends[p] PROVE q \in Packages
      <3>1. q \in Pkg /\ q \in allpkgs
        BY <1>0, <1>1 DEF CollectInv, TypeOK
      <3> QED BY <3>1, Names DEF Packages
    <2> QED BY <2>1 DEF Closed
  <1>4. Packages = Needs(Roots)
    BY <1>1, <1>2, <1>3 DEF Needs
  <1>5. \A e \in dependencies : e[1] # "all" => e \in Edges /\ e[1] \in Packages
    BY <1>0 DEF GatherInv, Packages
  <1>6. \A e \in Edges : e[1] \in Packages => e \in dependencies /\ e[1] # "all"
    BY <1>0 DEF GatherInv, Packages
  <1>7. Packages \cap unanswered = {}
    BY <1>0 DEF GatherInv
  <1> QED BY <1>4, <1>5, <1>6, <1>7

(* Of the packages that would be missing, one is not needed by the others; *)
(* the edge that still leads to it comes from a package that is drawn.     *)
LEMMA AllDrawn == IInv => NothingLost
  <1> SUFFICES ASSUME IInv, phase = "end", max_depth = 0, rootpkg = "all",
                      Acyclic(depends)
               PROVE  done_deps = allpkgs
    BY DEF NothingLost
  <1> DEFINE X == allpkgs \ done_deps
  <1>0. TypeOK /\ CollectInv /\ ReachInv /\ StackInv /\ CoverInv /\ Drawing
    BY DEF IInv, Drawing
  <1>1. done_deps \subseteq allpkgs /\ "all" \in done_deps
    BY <1>0 DEF CoverInv
  <1>2. \A q \in done_deps : \A d \in Pkg : <<q, d>> \in dependencies => d \in done_deps
    <2>1. stack = <<>>
      BY <1>0 DEF StackInv
    <2>2. DOMAIN stack = {}
      BY <2>1
    <2> QED BY <1>0, <2>2 DEF CoverInv
  <1>3. SUFFICES ASSUME X # {} PROVE FALSE
    BY <1>1
  <1>4. X \subseteq Pkg /\ X \subseteq Packages
    BY <1>0, <1>1 DEF TypeOK, Node, Packages
  <1>5. PICK p \in X : \A q \in X : p \notin depends[q]
    BY <1>3, <1>4 DEF Acyclic
  <1>6. CASE <<"all", p>> \in dependencies
    BY <1>1, <1>2, <1>4, <1>6
  <1>7. CASE \E q \in Packages : p \in depends[q] /\ <<q, p>> \in dependencies
    <2>1. PICK q \in Packages : p \in depends[q] /\ <<q, p>> \in dependencies
      BY <1>7
    <2>2. q \in done_deps
      BY <1>5, <2>1 DEF Packages
    <2> QED BY <1>2, <1>4, <2>1, <2>2
  <1> QED BY <1>0, <1>4, <1>6, <1>7 DEF ReachInv

(* The variables keep their types. *)
THEOREM TypeTheorem == Spec => []TypeOK
  BY SpecInv, PTL DEF IInv

(* get_all_depends finds all that the root needs and nothing else, circular *)
(* dependencies included, or exits because make has no answer for one.     *)
THEOREM CollectTheorem == Spec => []CollectsAll
  BY SpecInv, Collected, PTL

(* remove_redundant_deps cuts no package off the full graph of acyclic     *)
(* dependencies.                                                           *)
THEOREM NothingLostTheorem == Spec => []NothingLost
  BY SpecInv, AllDrawn, PTL

(* print_pkg_deps draws no package that lies deeper than --depth. *)
THEOREM DepthTheorem == Spec => []DepthRespected
  BY SpecInv, PTL DEF IInv
=============================================================================

------------------------------ MODULE PackageStore ------------------------------
(***************************************************************************)
(* What a build promises whoever uses its output directory: a package is   *)
(* there as a whole, made from one version of its source, or not at all;   *)
(* it gets there only when the packages it is built with are there; and an *)
(* image is made of the packages that are there.  Any request, failure or  *)
(* interruption may take packages away again, and the image with them.     *)
(***************************************************************************)
EXTENDS Naturals

CONSTANTS
    Pkg,        \* the packages
    Needs,      \* Needs[p]: those that p is built with
    Contents    \* those an image is made of

VARIABLES
    src,        \* src[p]: current version of the package's source
    installed,  \* installed[p]: the version that is installed, if there is one
    image       \* the versions in the image, if there is one

vars == <<src, installed, image>>

Init ==
    /\ src = [p \in Pkg |-> 1]
    /\ installed = [p \in Pkg |-> {}]
    /\ image = {}

Edit(p) ==
    /\ src' = [src EXCEPT ![p] = @ + 1]
    /\ UNCHANGED <<installed, image>>

Provide(p) ==
    /\ installed[p] = {}
    /\ \A d \in Needs[p] : installed[d] # {}
    /\ \E v \in 1 .. src[p] : installed' = [installed EXCEPT ![p] = {v}]
    /\ UNCHANGED <<src, image>>

Lose(S) ==
    /\ installed' = [p \in Pkg |-> IF p \in S THEN {} ELSE installed[p]]
    /\ image' \in {image, {}}
    /\ UNCHANGED src

MakeImage ==
    /\ \A p \in Contents : installed[p] # {}
    /\ image' = {[p \in Contents |-> installed[p]]}
    /\ UNCHANGED <<src, installed>>

Next ==
    \/ \E p \in Pkg : Edit(p) \/ Provide(p)
    \/ \E S \in SUBSET Pkg : Lose(S)
    \/ MakeImage

Spec == Init /\ [][Next]_vars
================================================================================

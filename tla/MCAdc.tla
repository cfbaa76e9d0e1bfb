------------------------------- MODULE MCAdc -------------------------------
(* Instances of JzAdc; the configurations name the channels and threads. *)
EXTENDS JzAdc, TLC

(* No channel and no thread differs from the others. *)
Symmetric == Permutations(Chan) \cup Permutations(Reader)
=============================================================================

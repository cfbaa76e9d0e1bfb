------------------------------- MODULE MCSfcNand -------------------------------
(* Instances of SfcNand; the configurations give the numbers. *)
EXTENDS SfcNand
================================================================================

------------------------------ MODULE MCStreamMux ------------------------------
(* StreamMux for TLC.  Streams are interchangeable. *)
EXTENDS StreamMux, TLC

Symmetry == Permutations(Sids)
===============================================================================

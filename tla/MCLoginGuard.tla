------------------------------ MODULE MCLoginGuard -----------------------------
(***************************************************************************)
(* The requests, the IPs and the captchas are interchangeable.             *)
(***************************************************************************)
EXTENDS LoginGuard, TLC

Symmetry == Permutations(Requests) \cup Permutations(IPs) \cup Permutations(Captchas)
===============================================================================

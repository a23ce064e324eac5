---------------------------- MODULE MCProxyRules -----------------------------
(* The instance of ProxyRules that TLC checks: requests are alike. *)
EXTENDS ProxyRules, TLC

Symmetry == Permutations(Requests)
===============================================================================

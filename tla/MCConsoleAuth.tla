----------------------------- MODULE MCConsoleAuth -----------------------------
(***************************************************************************)
(* The requests, the tokens and the passwords are interchangeable.         *)
(***************************************************************************)
EXTENDS ConsoleAuth, TLC

Symmetry == Permutations(Requests) \cup Permutations(Tokens) \cup Permutations(Passwords)
===============================================================================

------------------------------ MODULE MCDirectory ------------------------------
(* Two agents, and as many customers as it takes to share an address.        *)

EXTENDS Directory, TLC

CONSTANTS a1, a2, c1, c2

DirectorySymmetry == Permutations(Agents) \cup Permutations(Customers)

===============================================================================

---------------------------- MODULE MCInetIntent ----------------------------
(* Instances of InetIntent for TLC. *)
EXTENDS InetIntent, TLC

\* Intents, handler slots and tills are interchangeable.
Symmetry == Permutations(Intents) \union Permutations(Callbacks) \union Permutations(Tills)
=============================================================================

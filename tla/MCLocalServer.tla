---------------------------- MODULE MCLocalServer ----------------------------
(* Instances of LocalServer for TLC.  Its properties are invariants. *)
EXTENDS LocalServer, TLC

\* Connections of browsers are alike, and so are the entries they copy.
ServerSymmetry == Permutations(Browser) \union Permutations(Entries)
=============================================================================

------------------------------ MODULE MCRedolog ------------------------------
(* Small instances of Redolog for TLC. *)
EXTENDS Redolog

\* A base of zeros, as a growing image has, and one with contents.
MCBases == {[s \in Sectors |-> 0], [s \in Sectors |-> 1]}
=============================================================================

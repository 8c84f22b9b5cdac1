----------------------------- MODULE MCClientSide -----------------------------
(* Instances of ClientSide for TLC. *)
EXTENDS ClientSide, TLC

\* Names are interchangeable.
MCSymmetry == Permutations(User)
=============================================================================

----------------------------- MODULE MCMessaging -----------------------------
(* Instances of Messaging for TLC. *)
EXTENDS Messaging, TLC

\* Connections, names and workers are interchangeable.
MCSymmetry ==
    Permutations(Session) \cup Permutations(User) \cup Permutations(Worker)
=============================================================================

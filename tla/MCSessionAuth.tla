---------------------------- MODULE MCSessionAuth ----------------------------
(* Instances of SessionAuth for TLC. *)
EXTENDS SessionAuth, TLC

\* Every frame a client can form, a name that is empty or too long included;
\* LOGOUT carries no name that matters.
MCAllFrames ==
    [type : {"REGISTER", "LOGIN"}, user : NameOrNone]
        \cup {[type |-> "LOGOUT", user |-> NoUser]}

\* The frames of clients that already have their accounts.
MCLoginFrames ==
    [type : {"LOGIN"}, user : User] \cup {[type |-> "LOGOUT", user |-> NoUser]}

\* Clients that register and log in, and never log out.
MCRegisterFrames == [type : {"REGISTER", "LOGIN"}, user : User]

\* Connections and workers are interchangeable; so are names.
MCSymmetry ==
    Permutations(Session) \cup Permutations(User) \cup Permutations(Worker)
=============================================================================

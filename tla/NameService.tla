----------------------------- MODULE NameService -----------------------------
(***************************************************************************)
(* What authentication and presence promise the clients of the server: a    *)
(* name has one account; it is put on a connection only when no other       *)
(* carries it, and is online only while one does; and it is taken from a    *)
(* connection only when that connection's own client asks for it or is      *)
(* gone.  A disconnect in the middle of a login can spoil a name: then      *)
(* nothing is promised about it any more.                                   *)
(***************************************************************************)

CONSTANTS Session, User, NoUser

VARIABLES
    accounts,   \* names that are registered
    name,       \* name[s]: the name that connection s carries
    online,     \* names that are shown as online
    quit,       \* connections whose client has asked to log out
    gone,       \* connections that are closed
    spoiled     \* names about which nothing is promised any more

vars == <<accounts, name, online, quit, gone, spoiled>>

Init ==
    /\ accounts \in SUBSET User
    /\ name = [s \in Session |-> NoUser]
    /\ online = {}
    /\ quit = {}
    /\ gone = {}
    /\ spoiled = {}

Register(u) ==
    /\ u \notin accounts
    /\ accounts' = accounts \cup {u}
    /\ UNCHANGED <<name, online, quit, gone, spoiled>>

Enter(s, u) ==
    /\ s \notin gone
    /\ name[s] = NoUser
    /\ u \in accounts \ spoiled
    /\ \A r \in Session : name[r] # u
    /\ name' = [name EXCEPT ![s] = u]
    /\ UNCHANGED <<accounts, online, quit, gone, spoiled>>

Announce(s) ==
    /\ s \notin gone
    /\ name[s] # NoUser
    /\ online' = online \cup {name[s]}
    /\ UNCHANGED <<accounts, name, quit, gone, spoiled>>

Withdraw(s) ==
    /\ s \in quit \cup gone
    /\ name[s] # NoUser
    /\ online' = online \ {name[s]}
    /\ UNCHANGED <<accounts, name, quit, gone, spoiled>>

Leave(s) ==
    /\ s \in quit \cup gone
    /\ name[s] \notin online
    /\ name' = [name EXCEPT ![s] = NoUser]
    /\ UNCHANGED <<accounts, online, quit, gone, spoiled>>

Quit(s) ==
    /\ s \notin gone
    /\ quit' = quit \cup {s}
    /\ UNCHANGED <<accounts, name, online, gone, spoiled>>

\* Who is not logged in cannot log out.
RefuseQuit(s) ==
    /\ name[s] = NoUser
    /\ quit' = quit \ {s}
    /\ UNCHANGED <<accounts, name, online, gone, spoiled>>

\* The names of L are spoiled.
Spoil(L) ==
    /\ spoiled' = spoiled \cup L
    /\ name' = [s \in Session |-> IF name[s] \in L THEN NoUser ELSE name[s]]
    /\ online' = online \ L

\* A connection is gone, and with it what was done for it at the time.
Disconnect(s, L) ==
    /\ s \notin gone
    /\ gone' = gone \cup {s}
    /\ Spoil(L)
    /\ UNCHANGED <<accounts, quit>>

\* A login for a name whose last connection is gone but not yet logged out.
EnterTooEarly(s) ==
    /\ s \in gone
    /\ name[s] # NoUser
    /\ Spoil({name[s]})
    /\ UNCHANGED <<accounts, quit, gone>>

Next ==
    \/ \E u \in User : Register(u)
    \/ \E s \in Session, u \in User : Enter(s, u)
    \/ \E s \in Session :
           \/ Announce(s) \/ Withdraw(s) \/ Leave(s)
           \/ Quit(s) \/ RefuseQuit(s) \/ EnterTooEarly(s)
    \/ \E s \in Session, L \in SUBSET User : Disconnect(s, L)

Spec == Init /\ [][Next]_vars
=============================================================================

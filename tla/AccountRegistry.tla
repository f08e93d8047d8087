-------------------------- MODULE AccountRegistry --------------------------
(***************************************************************************)
(* What the tables of social accounts promise, whatever the interleaving:  *)
(* an account of a third party leads to at most one user at a time, it     *)
(* never passes from one user to another without being unbound in between, *)
(* and users, once registered, stay and stay the same human's.             *)
(***************************************************************************)
CONSTANTS Person, User, Account, NULL

VARIABLES
    human,  \* human[u]: who registered user u, NULL before registration
    owner   \* owner[a]: the user account a leads to, NULL if it is unbound

Init == human \in [User -> Person \cup {NULL}] /\ owner = [a \in Account |-> NULL]

\* A new user is registered, alone or together with its first account.
Register(u, h) ==
    /\ human[u] = NULL
    /\ human' = [human EXCEPT ![u] = h]
    /\ \/ UNCHANGED owner
       \/ \E a \in Account : owner[a] = NULL /\ owner' = [owner EXCEPT ![a] = u]

\* An account nobody has bound is bound to a registered user.
Bind(u, a) ==
    /\ human[u] # NULL /\ owner[a] = NULL
    /\ owner' = [owner EXCEPT ![a] = u]
    /\ UNCHANGED human

\* Some accounts of one user are unbound at once.
Unbind(u, S) ==
    /\ \A a \in S : owner[a] = u
    /\ owner' = [a \in Account |-> IF a \in S THEN NULL ELSE owner[a]]
    /\ UNCHANGED human

Next ==
    \E u \in User :
        \/ \E h \in Person : Register(u, h)
        \/ \E a \in Account : Bind(u, a)
        \/ \E S \in SUBSET Account : Unbind(u, S)

Spec == Init /\ [][Next]_<<human, owner>>
=============================================================================

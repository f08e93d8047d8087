--------------------------- MODULE SocialAccounts ---------------------------
(***************************************************************************)
(* Accounts of third parties bound to users: table UserSocialAuth          *)
(* (python-social-auth/social/apps/django_app/default/models.py), the      *)
(* logins, bindings and unbindings of social_oauth/views.py and            *)
(* student/api/v2/oauth.py, the disconnect pipeline that settings.py        *)
(* installs, and UserPhoneView, which gives a user without password one.   *)
(*                                                                         *)
(* Only _get_or_create_oauth_user runs in a transaction of its own         *)
(* (commit_on_success); elsewhere every save, create and delete commits by *)
(* itself.  MySQL still opens a transaction at a request's first SELECT,   *)
(* and at its default isolation level later SELECTs of the request answer  *)
(* from the snapshot taken then, until a commit: that is req[p].view, kept *)
(* when RepeatableRead holds.  A step is one write, with the reads before  *)
(* it that no other request can tell apart from it.  A worker may die, or  *)
(* its handler raise, between any two steps (Crash).                       *)
(*                                                                         *)
(* An account stands for a pair (provider, uid).  "chinamobile" is left    *)
(* out: its user_data returns a pair, on which get_user_id raises.         *)
(***************************************************************************)
EXTENDS Integers, FiniteSets

CONSTANTS
    Person, User, Account, Provider, Worker,
    NULL,
    provider,        \* provider[a]: backend.name of the account
    union,           \* union[a]: the unionid weixin reports, or NULL
    holder,          \* holder[a]: the person who can authenticate as a
    registered,      \* registered[u]: who signed u up with a password, or NULL
    RepeatableRead,  \* the isolation level: REPEATABLE READ or READ COMMITTED
    MaxRow           \* bound: rows ever inserted in UserSocialAuth

Union == {union[a] : a \in Account}

ASSUME SocialAssumption ==
    /\ NULL \notin Person \cup User \cup Account \cup Provider
    /\ provider \in [Account -> Provider]
    /\ holder \in [Account -> Person]
    /\ registered \in [User -> Person \cup {NULL}]
    /\ RepeatableRead \in BOOLEAN /\ MaxRow \in Nat
    \* a unionid names one person
    /\ \A a, b \in Account :
          union[a] # NULL /\ union[a] = union[b] => holder[a] = holder[b]

VARIABLES
    human,    \* history: human[u] registered user u; NULL: no such user
    usable,   \* users whose password is not '!'
    contact,  \* users whose profile has a phone number
    rows,     \* table UserSocialAuth, by primary key
    last,     \* its AUTO_INCREMENT counter
    req       \* the request each worker serves

vars == <<human, usable, contact, rows, last, req>>

(***************************************************************************)
(* Tables and requests                                                     *)
(***************************************************************************)
Ids == 1..MaxRow

\* created_on, up to what startswith tells apart: 'web...' and 'mobile...'
On == {"web", "mobile"}

Row == [user : User, acct : Account, on : On, union : Union \cup {NULL}]

ASSUME NullAssumption == NULL \notin Row

Table == [Ids -> Row \cup {NULL}]

\* how the last request ended: with its success page, refused or cut off, or
\* refused because the account may not be unbound
Answer == {"ok", "failed", "kept"}

Label == Answer \cup {"create", "associate", "commit", "userSave", "loggedIn",
                      "insert", "save", "delete", "entries", "disconnect",
                      "profileSave"}

Request == [pc : Label, user : User \cup {NULL}, acct : Account \cup {NULL},
            prov : Provider \cup {NULL}, on : On,
            row : Nat,            \* the row in hand, 0 for none
            ids : SUBSET Nat,     \* the rows to delete
            usable : SUBSET User, \* the user in hand, if it has a password
            view : Table \cup {NULL}]

Idle == [pc |-> "ok", user |-> NULL, acct |-> NULL, prov |-> NULL,
         on |-> "web", row |-> 0, ids |-> {}, usable |-> {}, view |-> NULL]

TypeOK ==
    /\ human \in [User -> Person \cup {NULL}]
    /\ usable \in SUBSET User /\ contact \in SUBSET User
    /\ rows \in Table /\ last \in Nat
    /\ req \in [Worker -> Request]

Init ==
    /\ human = registered
    /\ usable = {u \in User : registered[u] # NULL}
    /\ contact = usable
    /\ rows = [i \in Ids |-> NULL] /\ last = 0
    /\ req = [p \in Worker |-> Idle]

(***************************************************************************)
(* Queries, on a table or a snapshot of it                                 *)
(***************************************************************************)
Present(t) == {i \in Ids : t[i] # NULL}

Of(t, u) == {i \in Present(t) : t[i].user = u}

OfProvider(t, u, k) == {i \in Of(t, u) : provider[t[i].acct] = k}

Least(S) == {i \in S : \A j \in S : i <= j}

\* get_social_auth(provider, uid)
Social(t, a) == {i \in Present(t) : t[i].acct = a}

Kin(t, a) == {i \in Present(t) : t[i].union = union[a]}

\* order_by('id'): the first web row, else the first row
FirstKin(t, a) ==
    LET web == {i \in Kin(t, a) : t[i].on = "web"}
    IN  Least(IF web # {} THEN web ELSE Kin(t, a))

Weixin(a) == provider[a] \in {"weixin", "weixinapp"}

\* mutant: the query by unionid also runs when weixin reports none
HomeAnyUnion(t, a) ==
    IF Weixin(a) /\ Kin(t, a) # {} THEN FirstKin(t, a) ELSE Social(t, a)

\* the row whose user account a logs in, at most one
Home(t, a) ==
    IF Weixin(a) /\ union[a] # NULL /\ Kin(t, a) # {}
    THEN FirstKin(t, a)
    ELSE Social(t, a)

\* what a SELECT of worker p's request reads
View(p) == IF req[p].view # NULL THEN req[p].view ELSE rows

Snapshot == IF RepeatableRead THEN rows ELSE NULL

\* the user and the row that p's open transaction has inserted
Uncommitted(p) == req[p].pc \in {"associate", "commit"}

\* mutant: UserSocialAuth has no unique_together
TakenNever(a) == FALSE

\* the unique key (provider, uid): taken by a committed row, or locked by
\* the insert of an open transaction, for which other inserts wait
Taken(a) == Social(rows, a) # {}
Locked(a) == \E p \in Worker :
    req[p].pc = "commit" /\ req[p].row # 0 /\ req[p].acct = a

(***************************************************************************)
(* Requests                                                                *)
(***************************************************************************)
Ready(p) == req[p].pc \in Answer

Become(p, r) == req' = [req EXCEPT ![p] = r]

Goto(p, label) == Become(p, [req[p] EXCEPT !.pc = label])

Succeed(p) == Become(p, Idle)

Failed == [Idle EXCEPT !.pc = "failed"]

Fail(p) == Become(p, Failed)

NotAllowedToDisconnect(p) == Become(p, [Idle EXCEPT !.pc = "kept"])

At(p, label) == req[p].pc = label

\* bounds: a request that may insert a row, or register a user, starts only
\* if there are enough left for all the requests under way
Busy == {p \in Worker : ~Ready(p)}

Room == last + Cardinality(Busy) < MaxRow

UserLeft == Cardinality({u \in User : human[u] = NULL}) > Cardinality(Busy)

Known(u) == human[u] # NULL

(***************************************************************************)
(* Login or registration with an account: authentication_success and the   *)
(* social_oauth grant, both through _get_or_create_oauth_user              *)
(***************************************************************************)
NewRequest == [Idle EXCEPT !.view = Snapshot]

\* the web login ends in django.contrib.auth.login, whose receiver
\* update_last_login saves every column of the user in hand
AfterLogin(on) == IF on = "web" THEN "userSave" ELSE "loggedIn"

LoggedIn(p, u, a, on, pw) ==
    Become(p, [Idle EXCEPT !.pc = AfterLogin(on), !.user = u, !.acct = a, !.on = on,
                           !.usable = {u} \cap pw])

Login(p, a, on) ==
    /\ Ready(p) /\ Room /\ UserLeft
    /\ IF Home(rows, a) # {}
       THEN \E i \in Home(rows, a) :
               LoggedIn(p, rows[i].user, a, on, usable)
       ELSE Become(p, [NewRequest EXCEPT !.pc = "create", !.acct = a, !.on = on])
    /\ UNCHANGED <<human, usable, contact, rows, last>>

\* User and UserProfile are inserted in the open transaction
LoginCreate(p, u) ==
    /\ At(p, "create") /\ human[u] = NULL
    /\ \A q \in Worker : Uncommitted(q) => req[q].user # u
    /\ Become(p, [req[p] EXCEPT !.pc = "associate", !.user = u])
    /\ UNCHANGED <<human, usable, contact, rows, last>>

\* mutant: the column's default '' is stored as if it were a unionid
UnionSavedBlank(a) == IF provider[a] = "weixin" THEN union[a] ELSE ""

\* new_associate_user reads extra_data['unionid'] for provider weixin only
UnionSaved(a) == IF provider[a] = "weixin" THEN union[a] ELSE NULL

NoUnionId(a) == provider[a] = "weixin" /\ union[a] = NULL

\* mutant: the losing insert is kept waiting, its transaction left open
LoginAssociateStuck(p) ==
    /\ At(p, "associate") /\ ~Locked(req[p].acct) /\ ~Taken(req[p].acct)
    /\ last' = last + 1
    /\ IF NoUnionId(req[p].acct)
       THEN Fail(p)
       ELSE Become(p, [req[p] EXCEPT !.pc = "commit", !.row = last + 1])
    /\ UNCHANGED <<human, usable, contact, rows>>

\* Inserting an account that is taken raises IntegrityError; social_user
\* then looks it up again.  An exception rolls the new user back; a look-up
\* that finds nothing does not raise.
LoginAssociate(p) ==
    LET a == req[p].acct
    IN  /\ At(p, "associate") /\ ~Locked(a)
        /\ IF Taken(a)
           THEN /\ IF Social(View(p), a) = {}
                   THEN Goto(p, "commit")
                   ELSE Fail(p)
                /\ UNCHANGED last
           ELSE /\ IF NoUnionId(a)
                   THEN Fail(p)
                   ELSE Become(p, [req[p] EXCEPT !.pc = "commit", !.row = last + 1])
                /\ last' = last + 1
        /\ UNCHANGED <<human, usable, contact, rows>>

LoginCommit(p) ==
    LET a == req[p].acct
        u == req[p].user
        r == [user |-> u, acct |-> a, on |-> req[p].on, union |-> UnionSaved(a)]
    IN  /\ At(p, "commit")
        /\ human' = [human EXCEPT ![u] = holder[a]]
        /\ rows' = IF req[p].row = 0 THEN rows ELSE [rows EXCEPT ![req[p].row] = r]
        /\ LoggedIn(p, u, a, req[p].on, {})
        /\ UNCHANGED <<usable, contact, last>>

\* user.save(): every column, the password in hand included
SaveUser(p) ==
    /\ At(p, "userSave")
    /\ usable' = (usable \ {req[p].user}) \cup req[p].usable
    /\ IF req[p].acct = NULL THEN Succeed(p) ELSE Goto(p, "loggedIn")
    /\ UNCHANGED <<human, contact, rows, last>>

\* The profile's last_login_ip is saved and the login answered.  Its other
\* columns, read just before, are written back as they were.
LoginAnswer(p) ==
    /\ At(p, "loggedIn") /\ Succeed(p)
    /\ UNCHANGED <<human, usable, contact, rows, last>>

(***************************************************************************)
(* Binding an account to the logged-in user: new_association and           *)
(* OAuthBindView, both through new_associate_user                          *)
(***************************************************************************)

Bind(p, u, a, on) ==
    /\ Ready(p) /\ Room
    /\ human[u] = holder[a]
    /\ IF OfProvider(rows, u, provider[a]) # {}
       THEN Fail(p)
       ELSE Become(p, [NewRequest EXCEPT !.pc = "insert", !.user = u, !.acct = a,
                                         !.on = on])
    /\ UNCHANGED <<human, usable, contact, rows, last>>

\* objects.create() commits the row before its other columns are known
Created(p) == [user |-> req[p].user, acct |-> req[p].acct, on |-> "web", union |-> NULL]

Insert(p) ==
    /\ ~Taken(req[p].acct)
    /\ rows' = [rows EXCEPT ![last + 1] = Created(p)]
    /\ last' = last + 1
    /\ Become(p, [req[p] EXCEPT !.pc = "save", !.row = last + 1, !.view = NULL])

\* mutant: the row found again is taken for the user's own
LookAgainAny(p) ==
    LET found == Social(View(p), req[p].acct)
    IN  /\ Taken(req[p].acct)
        /\ \/ found = {} /\ Succeed(p)
           \/ \E i \in found :
                 Become(p, [req[p] EXCEPT !.pc = "save", !.row = i, !.view = NULL])
        /\ UNCHANGED <<rows, last>>

\* after IntegrityError: another user's row raises AuthAlreadyAssociated,
\* the user's own is used, and no row at all is logged and passed over
LookAgain(p) ==
    LET found == Social(View(p), req[p].acct)
    IN  /\ Taken(req[p].acct)
        /\ \/ found = {} /\ Succeed(p)
           \/ \E i \in found :
                 IF View(p)[i].user = req[p].user
                 THEN Become(p, [req[p] EXCEPT !.pc = "save", !.row = i, !.view = NULL])
                 ELSE Fail(p)
        /\ UNCHANGED <<rows, last>>

BindInsert(p) ==
    /\ At(p, "insert") /\ ~Locked(req[p].acct)
    /\ Insert(p) \/ LookAgain(p)
    /\ UNCHANGED <<human, usable, contact>>

Complete(p) == [Created(p) EXCEPT !.on = req[p].on, !.union = UnionSaved(req[p].acct)]

\* sc_user.save(): an UPDATE by primary key, or an INSERT if the row is gone
BindSave(p) ==
    LET a == req[p].acct
        i == req[p].row
    IN  /\ At(p, "save")
        /\ \/ /\ ~NoUnionId(a)
              /\ rows[i] # NULL \/ (~Taken(a) /\ ~Locked(a))
              /\ rows' = [rows EXCEPT ![i] = Complete(p)]
              /\ Succeed(p)
           \/ /\ NoUnionId(a) \/ (rows[i] = NULL /\ Taken(a))
              /\ Fail(p)
              /\ UNCHANGED rows
        /\ UNCHANGED <<human, usable, contact, last>>

(***************************************************************************)
(* Unbinding: unbind_social and OAuthUnBindView through _unbind_social,    *)
(* and the disconnect view through SOCIAL_AUTH_DISCONNECT_PIPELINE         *)
(***************************************************************************)

\* mutant: the accounts are counted after the deletion, too late by one
OnlyAccountLate(u) == u \notin usable /\ Cardinality(Of(rows, u)) = 0

\* check_can_unbind_social_account raises NotAllowedToDisconnect
OnlyAccount(u) == u \notin usable /\ Cardinality(Of(rows, u)) = 1

Unbind(p, u, k) ==
    /\ Ready(p) /\ Known(u)
    /\ IF OnlyAccount(u)
       THEN NotAllowedToDisconnect(p)
       ELSE Become(p, [NewRequest EXCEPT !.pc = "delete", !.user = u, !.prov = k])
    /\ UNCHANGED <<human, usable, contact, rows, last>>

Without(ids) == [i \in Ids |-> IF i \in ids THEN NULL ELSE rows[i]]

\* provider_social.delete(): selects the rows, then deletes them by key
Delete(p) ==
    /\ At(p, "delete")
    /\ rows' = Without(OfProvider(View(p), req[p].user, req[p].prov))
    /\ Succeed(p)
    /\ UNCHANGED <<human, usable, contact, last>>

\* allowed_to_disconnect: a password, or a row that stays.  i is the
\* association_id of the URL, 0 if there is none.
Allowed(u, k, i) ==
    \/ u \in usable
    \/ Of(rows, u) \ (IF i = 0 THEN OfProvider(rows, u, k) ELSE {i}) # {}

Disconnect(p, u, k, i) ==
    /\ Ready(p) /\ Known(u)
    /\ IF Allowed(u, k, i)
       THEN Become(p, [NewRequest EXCEPT !.pc = "entries", !.user = u, !.prov = k,
                                         !.row = i])
       ELSE NotAllowedToDisconnect(p)
    /\ UNCHANGED <<human, usable, contact, rows, last>>

\* get_entries: the query runs when the loop starts
Entries(p) ==
    LET all == OfProvider(View(p), req[p].user, req[p].prov)
    IN  /\ At(p, "entries")
        /\ Become(p, [req[p] EXCEPT !.pc = "disconnect", !.view = NULL,
                        !.ids = IF req[p].row = 0 THEN all ELSE all \cap {req[p].row}])
        /\ UNCHANGED <<human, usable, contact, rows, last>>

\* disconnect: each entry.delete() commits by itself
DisconnectEntry(p) ==
    /\ At(p, "disconnect") /\ req[p].ids # {}
    /\ \E i \in req[p].ids :
          /\ rows' = Without({i})
          /\ Become(p, [req[p] EXCEPT !.ids = @ \ {i}])
    /\ UNCHANGED <<human, usable, contact, last>>

Disconnected(p) ==
    /\ At(p, "disconnect") /\ req[p].ids = {}
    /\ Succeed(p)
    /\ UNCHANGED <<human, usable, contact, rows, last>>

(***************************************************************************)
(* UserPhoneView.post: a phone number, and a password if the user sends    *)
(* one and has none                                                        *)
(***************************************************************************)
BindPhone(p, u, password) ==
    /\ Ready(p) /\ Known(u)
    /\ Become(p, IF (password /\ u \in usable) \/ u \in contact
                 THEN Failed
                 ELSE [Idle EXCEPT !.pc = "profileSave", !.user = u,
                                   !.usable = IF password THEN {u} ELSE {u} \cap usable])
    /\ UNCHANGED <<human, usable, contact, rows, last>>

\* profile.save(), which fails if another profile has the number
SaveProfile(p) ==
    /\ At(p, "profileSave")
    /\ \/ contact' = contact \cup {req[p].user} /\ Goto(p, "userSave")
       \/ UNCHANGED contact /\ Fail(p)
    /\ UNCHANGED <<human, usable, rows, last>>

\* a worker dies or its handler raises: what it has not committed is lost
Crash(p) ==
    /\ ~Ready(p)
    /\ Fail(p)
    /\ UNCHANGED <<human, usable, contact, rows, last>>

(***************************************************************************)
(* The specification                                                       *)
(***************************************************************************)
Start(p) ==
    \/ \E a \in Account, on \in On : Login(p, a, on)
    \/ \E u \in User, a \in Account, on \in On : Bind(p, u, a, on)
    \/ \E u \in User, k \in Provider : Unbind(p, u, k)
    \/ \E u \in User, k \in Provider, i \in Ids \cup {0} : Disconnect(p, u, k, i)
    \/ \E u \in User, password \in BOOLEAN : BindPhone(p, u, password)

Step(p) ==
    \/ \E u \in User : LoginCreate(p, u)
    \/ LoginAssociate(p) \/ LoginCommit(p) \/ SaveUser(p) \/ LoginAnswer(p)
    \/ BindInsert(p) \/ BindSave(p)
    \/ Delete(p) \/ Entries(p) \/ DisconnectEntry(p) \/ Disconnected(p)
    \/ SaveProfile(p)

Next == \E p \in Worker : Start(p) \/ Step(p) \/ Crash(p)

Spec == Init /\ [][Next]_vars

\* A request that was admitted is served to its end: the server schedules
\* every worker and the database answers every statement, lock waits included.
Fairness == \A p \in Worker : WF_vars(Step(p))

FairSpec == Spec /\ Fairness

(***************************************************************************)
(* Properties                                                              *)
(***************************************************************************)

\* A login ends in a user that the same person registered, whichever look-up
\* (_get_or_create_oauth_user: unionid, uid, new user) it went through and
\* whatever was bound and unbound meanwhile.
LandsHome ==
    \A p \in Worker :
        req[p].pc \in {"userSave", "loggedIn"} /\ req[p].acct # NULL =>
            human[req[p].user] = holder[req[p].acct]

Linked(t, u, a) == \E i \in Social(t, a) : t[i].user = u

\* A user that a login creates appears together with the row that lets its
\* account log in again (_get_or_create_oauth_user is one transaction, and
\* associate_user protects against "possible race condition").
NewUserIsLinked ==
    [][\A u \in User : human[u] = NULL /\ human'[u] # NULL =>
            \E a \in Account : Linked(rows', u, a)]_vars

\* (provider, uid) identifies a user: no account leads to two users, not
\* even when save() brings a deleted row back.
OneOwner == \A a \in Account : Cardinality(Social(rows, a)) <= 1

\* "a user can only bind one account of a platform" (_unbind_social).
OneAccountPerProvider ==
    \A u \in User, k \in Provider : Cardinality(OfProvider(rows, u, k)) <= 1

\* Every user can log in somehow: the pipeline of SOCIAL_AUTH_DISCONNECT and
\* check_can_unbind_social_account keep the last account of a user whose
\* password is '!'.
KeepsALogin ==
    \A u \in User : Known(u) => u \in usable \/ Of(rows, u) # {}

\* Every admitted request is answered, whatever rows others hold locked.
Answered == \A p \in Worker : ~Ready(p) ~> Ready(p)

\* The tables keep the promises of AccountRegistry.
OwnerOf(t, a) ==
    IF Social(t, a) = {} THEN NULL ELSE t[CHOOSE i \in Social(t, a) : TRUE].user

Owner == [a \in Account |-> OwnerOf(rows, a)]

Registry == INSTANCE AccountRegistry WITH owner <- Owner

RegistryKept == Registry!Spec
=============================================================================

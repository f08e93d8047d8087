----------------------- MODULE SocialAccounts_proofs -----------------------
(***************************************************************************)
(* What holds of social accounts for any numbers of persons, users,        *)
(* accounts and workers, at both isolation levels: types, that logins end  *)
(* in users of the same person, and that AccountRegistry is implemented.   *)
(***************************************************************************)
EXTENDS SocialAccounts, FiniteSetTheorems, TLAPS

Birth == [Ids -> [user : User \cup {NULL}, acct : Account \cup {NULL}]]

\* f says which user and account a row was inserted for; t agrees with it
TableOK(f, t) ==
    \A i \in Ids : t[i] # NULL =>
        /\ i <= last
        /\ t[i].user = f[i].user /\ t[i].acct = f[i].acct

BornFor(f, r) ==
    /\ r.row <= last
    /\ r.row \in Ids => f[r.row].user = r.user /\ f[r.row].acct = r.acct

\* what a request in hand relies on at each of its labels
ReqOK(f, r) ==
    /\ r.view # NULL => TableOK(f, r.view)
    /\ r.pc \in {"create", "associate", "commit", "insert", "save"} =>
          r.acct \in Account
    /\ r.pc \in {"associate", "commit", "insert", "save", "userSave", "delete",
                 "loggedIn", "entries", "disconnect", "profileSave"} => r.user \in User
    /\ r.pc \in {"create", "associate"} => r.row = 0
    /\ r.pc \in {"associate", "commit"} => human[r.user] = NULL
    /\ r.pc = "commit" /\ r.row # 0 => BornFor(f, r) /\ ~Taken(r.acct)
    /\ r.pc \in {"insert", "save"} => human[r.user] = holder[r.acct]
    /\ r.pc \in {"userSave", "loggedIn"} /\ r.acct # NULL =>
          human[r.user] = holder[r.acct]
    /\ r.pc = "save" => BornFor(f, r)
    /\ r.pc = "profileSave" => r.acct = NULL
    /\ r.pc = "disconnect" =>
          \A i \in r.ids \cap Ids : i <= last /\ f[i].user = r.user

RowsOK ==
    \A i \in Ids : rows[i] # NULL =>
        /\ human[rows[i].user] = holder[rows[i].acct]
        /\ rows[i].union \in {NULL, union[rows[i].acct]}

OnceOnly ==
    \A i, j \in Ids :
        rows[i] # NULL /\ rows[j] # NULL /\ rows[i].acct = rows[j].acct => i = j

\* open transactions hold different users, and locks on different accounts
Apart ==
    \A p, q \in Worker : p # q =>
        /\ Uncommitted(p) /\ Uncommitted(q) => req[p].user # req[q].user
        /\ /\ At(p, "commit") /\ req[p].row # 0
           /\ At(q, "commit") /\ req[q].row # 0
           => req[p].acct # req[q].acct

Consistent(f) == TableOK(f, rows) /\ \A p \in Worker : ReqOK(f, req[p])

Inv ==
    /\ TypeOK /\ RowsOK /\ OnceOnly /\ Apart
    /\ \E f \in Birth : Consistent(f)

-----------------------------------------------------------------------------
\* The request of an idle worker is typed.
LEMMA IdleType == Idle \in Request
BY DEF Idle, Request, Label, Answer, On

\* Nothing is in the hands of an idle worker.
LEMMA IdleFields ==
    /\ Idle.pc = "ok" /\ Idle.view = NULL /\ Idle.row = 0
    /\ Idle.acct = NULL /\ Idle.ids = {}
BY DEF Idle

\* A request stays typed at another label.
LEMMA RelabelType ==
    ASSUME NEW r \in Request, NEW label \in Label
    PROVE  [r EXCEPT !.pc = label] \in Request
BY DEF Request

\* The answers are typed.
LEMMA AnswerTypes == Failed \in Request /\ [Idle EXCEPT !.pc = "kept"] \in Request
<1>1. {"failed", "kept"} \subseteq Label
  BY DEF Label, Answer
<1>2. QED
  BY <1>1, IdleType, RelabelType DEF Failed

\* So is a request that begins.
LEMMA NewRequestType ==
    ASSUME TypeOK
    PROVE  NewRequest \in Request
<1>1. Snapshot \in Table \cup {NULL}
  BY DEF TypeOK, Snapshot
<1>2. ASSUME NEW r \in Request PROVE [r EXCEPT !.view = Snapshot] \in Request
  BY <1>1 DEF Request
<1>3. QED
  BY <1>2, IdleType DEF NewRequest

\* What a worker has in hand once it knows the user.
LEMMA LoggedInType ==
    ASSUME NEW p \in Worker, NEW u \in User, NEW a \in Account, NEW on \in On,
           NEW pw, LoggedIn(p, u, a, on, pw)
    PROVE  \E r \in Request :
              /\ Become(p, r)
              /\ r.pc \in {"userSave", "loggedIn"} /\ r.view = NULL
              /\ r.user = u /\ r.acct = a
<1>1. AfterLogin(on) \in {"userSave", "loggedIn"}
  BY DEF AfterLogin
<1>2. ASSUME NEW i \in Request, i.view = NULL, NEW S \in SUBSET User, NEW r,
             r = [i EXCEPT !.pc = AfterLogin(on), !.user = u, !.acct = a, !.on = on,
                           !.usable = S]
      PROVE  /\ r \in Request /\ r.pc \in {"userSave", "loggedIn"} /\ r.view = NULL
             /\ r.user = u /\ r.acct = a
  BY <1>1, <1>2 DEF Request, Label
<1>3. {u} \cap pw \in SUBSET User
  OBVIOUS
<1>4. QED
  BY <1>2, <1>3, IdleType, IdleFields DEF LoggedIn

\* Every account has a holder.
LEMMA HolderType ==
    ASSUME NEW a \in Account
    PROVE  holder[a] \in Person /\ holder[a] # NULL
BY SocialAssumption

-----------------------------------------------------------------------------
(***************************************************************************)
(* Steps that change one request, and at most remove rows                  *)
(***************************************************************************)

\* r may replace the request of p: it opens no transaction and takes no lock
Tame(p, r) ==
    /\ r.pc = "associate" => Uncommitted(p) /\ r.user = req[p].user
    /\ r.pc = "commit" => Uncommitted(p) /\ r.user = req[p].user /\ r.row = 0

RowsRemoved == rows' \in Table /\ \A i \in Ids : rows'[i] \in {NULL, rows[i]}

\* A step that changes one request, and removes rows at most, keeps the invariant.
LEMMA RequestStep ==
    ASSUME Inv, NEW f \in Birth, Consistent(f),
           NEW p \in Worker, NEW r \in Request, Become(p, r),
           ReqOK(f, r), Tame(p, r),
           RowsRemoved, UNCHANGED human, last' \in Nat, last <= last',
           usable' \in SUBSET User, contact' \in SUBSET User
    PROVE  Inv'
<1>1. TypeOK'
  BY DEF Inv, TypeOK, Become, RowsRemoved
<1>2. RowsOK' /\ OnceOnly'
  BY DEF Inv, RowsOK, OnceOnly, RowsRemoved
<1>3. req' = [req EXCEPT ![p] = r] /\ req \in [Worker -> Request]
  BY DEF Inv, TypeOK, Become
<1>4. Apart'
  BY <1>3 DEF Inv, Apart, Tame, Uncommitted, At
<1>5. \A t : TableOK(f, t) => TableOK(f, t)'
  BY SocialAssumption DEF Inv, TypeOK, TableOK, Ids
<1>6. ASSUME NEW a, ~Taken(a) PROVE ~Taken(a)'
  BY <1>6 DEF Taken, Social, Present, RowsRemoved
<1>7. ASSUME NEW q \in Worker PROVE ReqOK(f, req[q])'
  <2>1. ReqOK(f, req'[q])
    BY <1>3 DEF Consistent
  <2>2. req'[q] \in Request
    BY <1>3
  <2>3. BornFor(f, req'[q]) => BornFor(f, req[q])'
    BY <2>2 DEF Inv, TypeOK, BornFor, Request
  <2>4. \A i \in Ids : i <= last => i <= last'
    BY SocialAssumption DEF Inv, TypeOK, Ids
  <2>5. QED
    BY <2>1, <2>3, <2>4, <1>5, <1>6 DEF ReqOK
<1>8. Consistent(f)'
  <2>1. TableOK(f, rows)'
    BY SocialAssumption DEF Inv, TypeOK, Ids, Consistent, TableOK, RowsRemoved
  <2>2. QED
    BY <2>1, <1>7 DEF Consistent
<1>9. QED
  BY <1>1, <1>2, <1>4, <1>8 DEF Inv

\* A step that leaves the table alone is such a step.
LEMMA NoRowsRemoved ==
    ASSUME TypeOK, UNCHANGED rows
    PROVE  RowsRemoved
BY DEF TypeOK, RowsRemoved

Ends(p) == Succeed(p) \/ Fail(p) \/ NotAllowedToDisconnect(p)

\* the request ends
LEMMA EndStep ==
    ASSUME Inv, NEW p \in Worker, Ends(p),
           RowsRemoved, UNCHANGED human, last' \in Nat, last <= last',
           usable' \in SUBSET User, contact' \in SUBSET User
    PROVE  Inv'
<1>1. PICK f \in Birth : Consistent(f)
  BY DEF Inv
<1>2. PICK r \in Request : Become(p, r) /\ r.pc \in Answer /\ r.view = NULL
  <2>1. Idle \in Request /\ Idle.pc \in Answer /\ Idle.view = NULL
    BY IdleType, IdleFields DEF Answer
  <2>2. ASSUME NEW a \in {"failed", "kept"}
        PROVE  /\ [Idle EXCEPT !.pc = a] \in Request
               /\ [Idle EXCEPT !.pc = a].pc \in Answer
               /\ [Idle EXCEPT !.pc = a].view = NULL
    BY <2>1, AnswerTypes DEF Answer, Request, Failed
  <2>3. QED
    BY <2>1, <2>2 DEF Ends, Succeed, Fail, Failed, NotAllowedToDisconnect
<1>3. ReqOK(f, r) /\ Tame(p, r)
  BY <1>2 DEF ReqOK, Tame, Answer
<1>4. QED
  BY <1>1, <1>2, <1>3, RequestStep

-----------------------------------------------------------------------------
(***************************************************************************)
(* Where a login leads                                                     *)
(***************************************************************************)

\* the row that a login finds is of the person who logs in, whether it was
\* found by unionid or by uid
LEMMA HomeIsMine ==
    ASSUME TypeOK, RowsOK, NEW a \in Account, NEW i \in Home(rows, a)
    PROVE  /\ i \in Ids /\ rows[i] # NULL /\ rows[i].user \in User
           /\ human[rows[i].user] = holder[a]
<1>1. i \in Ids /\ rows[i] # NULL
  BY DEF Home, FirstKin, Least, Kin, Social, Present
<1>2. rows[i] \in Row
  BY <1>1 DEF TypeOK, Table
<1>3. human[rows[i].user] = holder[rows[i].acct]
  BY <1>1 DEF RowsOK
<1>4. CASE i \in Social(rows, a)
  BY <1>1, <1>2, <1>3, <1>4 DEF Social, Row
<1>5. CASE union[a] # NULL /\ i \in Kin(rows, a)
  <2>1. rows[i].union = union[a] /\ rows[i].union \in {NULL, union[rows[i].acct]}
    BY <1>1, <1>5 DEF Kin, RowsOK
  <2>2. holder[rows[i].acct] = holder[a]
    BY <2>1, <1>2, <1>5, SocialAssumption DEF Row
  <2>3. QED
    BY <1>1, <1>2, <1>3, <2>2 DEF Row
<1>6. QED
  BY <1>4, <1>5 DEF Home, FirstKin, Least

\* What a request sees is a table that agrees with the rows inserted.
LEMMA ViewOK ==
    ASSUME Inv, NEW f \in Birth, Consistent(f), NEW p \in Worker
    PROVE  /\ View(p) \in Table /\ TableOK(f, View(p))
           /\ Snapshot = NULL \/ (Snapshot \in Table /\ TableOK(f, Snapshot))
<1>1. req[p] \in Request /\ rows \in Table
  BY DEF Inv, TypeOK
<1>2. req[p].view \in Table \cup {NULL} /\ ReqOK(f, req[p]) /\ TableOK(f, rows)
  BY <1>1 DEF Request, Consistent
<1>3. QED
  BY <1>1, <1>2 DEF View, Snapshot, ReqOK

-----------------------------------------------------------------------------
(***************************************************************************)
(* Requests that start                                                     *)
(***************************************************************************)
LEMMA StartStep ==
    ASSUME Inv, NEW p \in Worker, Start(p)
    PROVE  Inv'
<1>1. PICK f \in Birth : Consistent(f)
  BY DEF Inv
<1>2. TypeOK /\ RowsOK /\ TableOK(f, rows)
  BY <1>1 DEF Inv, Consistent
<1>3. UNCHANGED <<human, usable, contact, rows, last>>
  BY DEF Start, Login, Bind, Unbind, Disconnect, BindPhone
<1>4. /\ RowsRemoved /\ last' \in Nat /\ last <= last'
      /\ usable' \in SUBSET User /\ contact' \in SUBSET User
  BY <1>2, <1>3, NoRowsRemoved DEF TypeOK
<1>5. SUFFICES ASSUME ~Ends(p)
               PROVE  \E r \in Request : Become(p, r) /\ ReqOK(f, r) /\ Tame(p, r)
  BY <1>1, <1>3, <1>4, EndStep, RequestStep
<1>6. NewRequest \in Request /\ NewRequest.view = Snapshot /\ NewRequest.row = 0
  <2>1. Idle \in Request => [Idle EXCEPT !.view = Snapshot].view = Snapshot
    BY DEF Request
  <2>2. Idle \in Request => [Idle EXCEPT !.view = Snapshot].row = Idle.row
    BY DEF Request
  <2>3. QED
    BY <2>1, <2>2, <1>2, NewRequestType, IdleType, IdleFields DEF NewRequest
<1>7. NewRequest.view # NULL => TableOK(f, NewRequest.view)
  BY <1>1, <1>6, ViewOK
<1>8. ASSUME NEW a \in Account, NEW on \in On, Login(p, a, on)
      PROVE  \E r \in Request : Become(p, r) /\ ReqOK(f, r) /\ Tame(p, r)
  <2>1. CASE Home(rows, a) # {}
    <3>1. PICK i \in Home(rows, a) : LoggedIn(p, rows[i].user, a, on, usable)
      BY <1>8, <2>1 DEF Login
    <3>2. rows[i].user \in User /\ human[rows[i].user] = holder[a]
      BY <1>2, HomeIsMine
    <3>3. PICK r \in Request :
              /\ Become(p, r)
              /\ r.pc \in {"userSave", "loggedIn"} /\ r.view = NULL
              /\ r.user = rows[i].user /\ r.acct = a
      BY <3>1, <3>2, LoggedInType
    <3>4. ReqOK(f, r) /\ Tame(p, r)
      BY <3>2, <3>3 DEF ReqOK, Tame
    <3>5. QED
      BY <3>3, <3>4
  <2>2. CASE Home(rows, a) = {}
    <3>1. Become(p, [NewRequest EXCEPT !.pc = "create", !.acct = a, !.on = on])
      BY <1>8, <2>2 DEF Login
    <3>2. ASSUME NEW r \in Request, r.view # NULL => TableOK(f, r.view), r.row = 0,
                 NEW r2, r2 = [r EXCEPT !.pc = "create", !.acct = a, !.on = on]
          PROVE  r2 \in Request /\ ReqOK(f, r2) /\ Tame(p, r2)
      <4>1. /\ r2 \in Request /\ r2.view = r.view /\ r2.pc = "create"
            /\ r2.acct = a /\ r2.row = 0
        BY <3>2 DEF Request, Label
      <4>2. QED
        BY <3>2, <4>1 DEF ReqOK, Tame
    <3>3. QED
      BY <3>1, <3>2, <1>6, <1>7
  <2>3. QED
    BY <2>1, <2>2
<1>9. ASSUME NEW u \in User, NEW a \in Account, NEW on \in On, Bind(p, u, a, on)
      PROVE  \E r \in Request : Become(p, r) /\ ReqOK(f, r) /\ Tame(p, r)
  <2>1. /\ human[u] = holder[a]
        /\ Become(p, [NewRequest EXCEPT !.pc = "insert", !.user = u, !.acct = a,
                                        !.on = on])
    BY <1>5, <1>9 DEF Bind, Ends
  <2>2. ASSUME NEW r \in Request, r.view # NULL => TableOK(f, r.view),
               NEW r2, r2 = [r EXCEPT !.pc = "insert", !.user = u, !.acct = a, !.on = on]
        PROVE  r2 \in Request /\ ReqOK(f, r2) /\ Tame(p, r2)
    <3>1. /\ r2 \in Request /\ r2.view = r.view /\ r2.pc = "insert"
          /\ r2.user = u /\ r2.acct = a
      BY <2>2 DEF Request, Label
    <3>2. QED
      BY <2>1, <2>2, <3>1 DEF ReqOK, Tame
  <2>3. QED
    BY <2>1, <2>2, <1>6, <1>7
<1>10. ASSUME NEW u \in User, NEW k \in Provider, NEW i \in Ids \cup {0},
              Unbind(p, u, k) \/ Disconnect(p, u, k, i)
       PROVE  \E r \in Request : Become(p, r) /\ ReqOK(f, r) /\ Tame(p, r)
  <2>1. \/ Become(p, [NewRequest EXCEPT !.pc = "delete", !.user = u, !.prov = k])
        \/ Become(p, [NewRequest EXCEPT !.pc = "entries", !.user = u, !.prov = k,
                                        !.row = i])
    BY <1>5, <1>10 DEF Unbind, Disconnect, Ends
  <2>2. ASSUME NEW r \in Request, r.view # NULL => TableOK(f, r.view), NEW r2,
               \/ r2 = [r EXCEPT !.pc = "delete", !.user = u, !.prov = k]
               \/ r2 = [r EXCEPT !.pc = "entries", !.user = u, !.prov = k, !.row = i]
        PROVE  r2 \in Request /\ ReqOK(f, r2) /\ Tame(p, r2)
    <3>1. i \in Nat
      BY SocialAssumption DEF Ids
    <3>2. /\ r2 \in Request /\ r2.view = r.view /\ r2.pc \in {"delete", "entries"}
          /\ r2.user = u
      <4>1. CASE r2 = [r EXCEPT !.pc = "delete", !.user = u, !.prov = k]
        BY <4>1 DEF Request, Label
      <4>2. CASE r2 = [r EXCEPT !.pc = "entries", !.user = u, !.prov = k, !.row = i]
        BY <4>2, <3>1 DEF Request, Label
      <4>3. QED
        BY <2>2, <4>1, <4>2
    <3>3. QED
      BY <2>2, <3>2 DEF ReqOK, Tame
  <2>3. QED
    BY <2>1, <2>2, <1>6, <1>7
<1>11. ASSUME NEW u \in User, NEW password \in BOOLEAN, BindPhone(p, u, password)
       PROVE  \E r \in Request : Become(p, r) /\ ReqOK(f, r) /\ Tame(p, r)
  <2>1. Become(p, [Idle EXCEPT !.pc = "profileSave", !.user = u,
                               !.usable = IF password THEN {u} ELSE {u} \cap usable])
    BY <1>5, <1>11 DEF BindPhone, Ends, Fail
  <2>2. ASSUME NEW r \in Request, r.view = NULL, r.acct = NULL, NEW pw \in SUBSET User,
               NEW r2, r2 = [r EXCEPT !.pc = "profileSave", !.user = u, !.usable = pw]
        PROVE  r2 \in Request /\ ReqOK(f, r2) /\ Tame(p, r2)
    <3>1. /\ r2 \in Request /\ r2.view = NULL /\ r2.pc = "profileSave"
          /\ r2.user = u /\ r2.acct = NULL
      BY <2>2 DEF Request, Label
    <3>2. QED
      BY <3>1 DEF ReqOK, Tame
  <2>3. QED
    BY <2>1, <2>2, IdleType, IdleFields
<1>12. 0 \in Ids \cup {0}
  OBVIOUS
<1>13. QED
  BY <1>8, <1>9, <1>10, <1>11, <1>12 DEF Start

-----------------------------------------------------------------------------
(***************************************************************************)
(* Requests that go on without a new row                                   *)
(***************************************************************************)

\* r, and what is known of it, in every step of p's request
LEMMA InHand ==
    ASSUME Inv, NEW p \in Worker
    PROVE  /\ req[p] \in Request /\ req \in [Worker -> Request]
           /\ rows \in Table /\ last \in Nat /\ human \in [User -> Person \cup {NULL}]
           /\ usable \in SUBSET User /\ contact \in SUBSET User
           /\ UNCHANGED rows => RowsRemoved
           /\ UNCHANGED last => last' \in Nat /\ last <= last'
BY NoRowsRemoved DEF Inv, TypeOK

\* the user in hand is now promised to p's transaction, and to no other
LEMMA LoginCreateStep ==
    ASSUME Inv, NEW p \in Worker, NEW u \in User, LoginCreate(p, u)
    PROVE  Inv'
<1>1. PICK f \in Birth : Consistent(f)
  BY DEF Inv
<1>2. UNCHANGED <<human, usable, contact, rows, last>> /\ human[u] = NULL
  BY DEF LoginCreate
<1>3. ReqOK(f, req[p]) /\ req[p].pc = "create"
  BY <1>1 DEF Consistent, LoginCreate, At
<1>4. PICK r \in Request : Become(p, r) /\ r = [req[p] EXCEPT !.pc = "associate", !.user = u]
  <2>1. [req[p] EXCEPT !.pc = "associate", !.user = u] \in Request
    BY InHand DEF Request, Label
  <2>2. QED
    BY <2>1 DEF LoginCreate
<1>5. /\ r.pc = "associate" /\ r.user = u /\ r.acct = req[p].acct
      /\ r.view = req[p].view /\ r.row = req[p].row
  BY <1>4, InHand DEF Request
<1>6. ReqOK(f, r)
  BY <1>2, <1>3, <1>5 DEF ReqOK
<1>7. req' = [req EXCEPT ![p] = r]
  BY <1>4 DEF Become
<1>8. TypeOK'
  BY <1>2, <1>4, <1>7 DEF Inv, TypeOK
<1>9. RowsOK' /\ OnceOnly'
  BY <1>2 DEF Inv, RowsOK, OnceOnly
<1>10. Apart'
  <2>1. \A q \in Worker : q # p => (Uncommitted(q) => req[q].user # u) /\ req'[q] = req[q]
    BY <1>7, InHand DEF LoginCreate
  <2>2. req'[p] = r
    BY <1>7, InHand
  <2>3. QED
    BY <2>1, <2>2, <1>5 DEF Inv, Apart, Uncommitted, At
<1>11. Consistent(f)'
  <2>1. TableOK(f, rows)'
    BY <1>1, <1>2 DEF Consistent, TableOK
  <2>2. ASSUME NEW q \in Worker PROVE ReqOK(f, req[q])'
    <3>1. ReqOK(f, req'[q])
      BY <1>1, <1>6, <1>7, InHand DEF Consistent
    <3>2. QED
      BY <3>1, <1>2 DEF ReqOK, TableOK, BornFor, Taken, Social, Present
  <2>3. QED
    BY <2>1, <2>2 DEF Consistent
<1>12. QED
  BY <1>8, <1>9, <1>10, <1>11 DEF Inv

\* A saved user, whatever the password in hand, goes on to be logged in.
LEMMA SaveUserStep ==
    ASSUME Inv, NEW p \in Worker, SaveUser(p)
    PROVE  Inv'
<1>1. PICK f \in Birth : Consistent(f)
  BY DEF Inv
<1>2. ReqOK(f, req[p]) /\ req[p].pc = "userSave"
  BY <1>1 DEF Consistent, SaveUser, At
<1>3. /\ UNCHANGED <<human, contact, rows, last>>
      /\ usable' = (usable \ {req[p].user}) \cup req[p].usable
  BY DEF SaveUser
<1>4. usable' \in SUBSET User
  BY <1>3, InHand DEF Request
<1>5. CASE Succeed(p)
  BY <1>3, <1>4, <1>5, InHand, EndStep DEF Ends
<1>6. CASE req[p].acct # NULL /\ Goto(p, "loggedIn")
  <2>1. PICK r \in Request : Become(p, r) /\ r = [req[p] EXCEPT !.pc = "loggedIn"]
    BY <1>6, InHand, RelabelType DEF Goto, Label
  <2>2. /\ r.pc = "loggedIn" /\ r.user = req[p].user /\ r.acct = req[p].acct
        /\ r.view = req[p].view
    BY <2>1, InHand DEF Request
  <2>3. ReqOK(f, r) /\ Tame(p, r)
    BY <1>2, <2>2 DEF ReqOK, Tame
  <2>4. QED
    BY <1>1, <1>3, <1>4, <2>1, <2>3, InHand, RequestStep
<1>7. QED
  BY <1>5, <1>6 DEF SaveUser

\* profile.save()
LEMMA SaveProfileStep ==
    ASSUME Inv, NEW p \in Worker, SaveProfile(p)
    PROVE  Inv'
<1>1. PICK f \in Birth : Consistent(f)
  BY DEF Inv
<1>2. ReqOK(f, req[p]) /\ req[p].pc = "profileSave"
  BY <1>1 DEF Consistent, SaveProfile, At
<1>3. UNCHANGED <<human, usable, rows, last>> /\ contact' \in SUBSET User
  BY <1>2, InHand DEF SaveProfile, ReqOK
<1>4. CASE Fail(p)
  BY <1>3, <1>4, InHand, EndStep DEF Ends
<1>5. CASE Goto(p, "userSave")
  <2>1. PICK r \in Request : Become(p, r) /\ r = [req[p] EXCEPT !.pc = "userSave"]
    BY <1>5, InHand, RelabelType DEF Goto, Label
  <2>2. /\ r.pc = "userSave" /\ r.user = req[p].user /\ r.acct = req[p].acct
        /\ r.view = req[p].view
    BY <2>1, InHand DEF Request
  <2>3. ReqOK(f, r) /\ Tame(p, r)
    BY <1>2, <2>2 DEF ReqOK, Tame
  <2>4. QED
    BY <1>1, <1>3, <2>1, <2>3, InHand, RequestStep
<1>6. QED
  BY <1>4, <1>5 DEF SaveProfile

\* The rows that get_entries selects were inserted for the user in hand.
LEMMA EntriesStep ==
    ASSUME Inv, NEW p \in Worker, Entries(p)
    PROVE  Inv'
<1>1. PICK f \in Birth : Consistent(f)
  BY DEF Inv
<1>2. ReqOK(f, req[p]) /\ req[p].pc = "entries" /\ req[p].user \in User
  BY <1>1 DEF Consistent, Entries, At, ReqOK
<1>3. UNCHANGED <<human, usable, contact, rows, last>>
  BY DEF Entries
<1>4. PICK S : /\ S \subseteq OfProvider(View(p), req[p].user, req[p].prov)
               /\ Become(p, [req[p] EXCEPT !.pc = "disconnect", !.view = NULL, !.ids = S])
  BY DEF Entries
<1>5. \A i \in S : i \in Ids /\ i <= last /\ f[i].user = req[p].user
  <2>1. View(p) \in Table /\ TableOK(f, View(p))
    BY <1>1, ViewOK
  <2>2. QED
    BY <2>1, <1>4 DEF OfProvider, Of, Present, TableOK
<1>6. PICK r \in Request :
          /\ Become(p, r)
          /\ r = [req[p] EXCEPT !.pc = "disconnect", !.view = NULL, !.ids = S]
  <2>1. S \subseteq Nat
    BY <1>5, SocialAssumption DEF Ids
  <2>2. [req[p] EXCEPT !.pc = "disconnect", !.view = NULL, !.ids = S] \in Request
    BY <2>1, InHand DEF Request, Label
  <2>3. QED
    BY <2>2, <1>4
<1>7. r.pc = "disconnect" /\ r.view = NULL /\ r.ids = S /\ r.user = req[p].user
  BY <1>6, InHand DEF Request
<1>8. ReqOK(f, r) /\ Tame(p, r)
  BY <1>2, <1>5, <1>7 DEF ReqOK, Tame
<1>9. QED
  BY <1>1, <1>3, <1>6, <1>8, InHand, RequestStep

\* Deleting rows removes rows.
LEMMA WithoutRemoves ==
    ASSUME rows \in Table, NEW S, rows' = Without(S)
    PROVE  RowsRemoved
BY DEF Table, Without, RowsRemoved

\* The disconnect pipeline deletes one entry.
LEMMA DisconnectEntryStep ==
    ASSUME Inv, NEW p \in Worker, DisconnectEntry(p)
    PROVE  Inv'
<1>1. PICK f \in Birth : Consistent(f)
  BY DEF Inv
<1>2. ReqOK(f, req[p]) /\ req[p].pc = "disconnect"
  BY <1>1 DEF Consistent, DisconnectEntry, At
<1>3. PICK i \in req[p].ids :
          rows' = Without({i}) /\ Become(p, [req[p] EXCEPT !.ids = @ \ {i}])
  BY DEF DisconnectEntry
<1>4. RowsRemoved /\ UNCHANGED <<human, usable, contact, last>>
  BY <1>3, InHand, WithoutRemoves DEF DisconnectEntry
<1>5. PICK r \in Request : Become(p, r) /\ r = [req[p] EXCEPT !.ids = @ \ {i}]
  <2>1. [req[p] EXCEPT !.ids = @ \ {i}] \in Request
    BY InHand DEF Request
  <2>2. QED
    BY <2>1, <1>3
<1>6. /\ r.pc = req[p].pc /\ r.view = req[p].view /\ r.user = req[p].user
      /\ r.ids \subseteq req[p].ids
  BY <1>5, InHand DEF Request
<1>7. ReqOK(f, r) /\ Tame(p, r)
  BY <1>2, <1>6 DEF ReqOK, Tame
<1>8. QED
  BY <1>1, <1>4, <1>5, <1>7, InHand, RequestStep

\* Every other step that ends a request leaves rows and users alone, or
\* removes rows.
LEMMA LastStep ==
    ASSUME Inv, NEW p \in Worker,
           LoginAnswer(p) \/ Delete(p) \/ Disconnected(p) \/ Crash(p)
    PROVE  Inv'
<1>1. RowsRemoved
  BY InHand, WithoutRemoves DEF LoginAnswer, Delete, Disconnected, Crash
<1>2. Ends(p) /\ UNCHANGED <<human, usable, contact, last>>
  BY DEF LoginAnswer, Delete, Disconnected, Crash, Ends
<1>3. QED
  BY <1>1, <1>2, InHand, EndStep

-----------------------------------------------------------------------------
(***************************************************************************)
(* Steps that take a new primary key or write a row                        *)
(***************************************************************************)

\* a primary key not used so far may be given to any user and account
LEMMA Reborn ==
    ASSUME Inv, NEW f \in Birth, Consistent(f), NEW u \in User, NEW a \in Account
    PROVE  \E g \in Birth :
              /\ Consistent(g)
              /\ last + 1 \in Ids => g[last + 1].user = u /\ g[last + 1].acct = a
<1> DEFINE g == [f EXCEPT ![last + 1] = [user |-> u, acct |-> a]]
<1>1. g \in Birth
  BY DEF Birth
<1>2. last + 1 \in Ids => g[last + 1].user = u /\ g[last + 1].acct = a
  BY DEF Birth
<1>3. \A i \in Ids : i <= last => g[i] = f[i]
  BY SocialAssumption DEF Inv, TypeOK, Birth, Ids
<1>4. \A t : TableOK(f, t) => TableOK(g, t)
  BY <1>3 DEF TableOK
<1>5. \A r : BornFor(f, r) => BornFor(g, r)
  BY <1>3 DEF BornFor
<1> HIDE DEF g
<1>6. \A p \in Worker : ReqOK(g, req[p])
  BY <1>3, <1>4, <1>5 DEF Consistent, ReqOK
<1>7. QED
  BY <1>1, <1>2, <1>4, <1>6 DEF Consistent

\* row i now holds x: a new row of an account that no row holds, or new
\* columns for the same user and account
LEMMA RowWritten ==
    ASSUME Inv, NEW f \in Birth, TableOK(f, rows),
           NEW i \in Nat, NEW x \in Row, rows' = [rows EXCEPT ![i] = x],
           i <= last', last <= last', last' \in Nat,
           i \in Ids => f[i].user = x.user /\ f[i].acct = x.acct,
           \A u \in User : human[u] # NULL => human'[u] = human[u],
           human'[x.user] = holder[x.acct], x.union \in {NULL, union[x.acct]},
           rows[i] # NULL \/ ~Taken(x.acct)
    PROVE  /\ rows' \in Table /\ RowsOK' /\ OnceOnly' /\ TableOK(f, rows)'
           /\ \A a : a # x.acct /\ ~Taken(a) => ~Taken(a)'
           /\ rows[i] # NULL => \A a : ~Taken(a) => ~Taken(a)'
<1>1. rows \in Table /\ last \in Nat
  BY DEF Inv, TypeOK
<1>2. /\ i \in Ids => rows'[i] = x
      /\ \A j \in Ids : j # i => rows'[j] = rows[j]
      /\ rows' \in Table
  BY <1>1 DEF Table
<1>3. RowsOK'
  <2>1. ASSUME NEW j \in Ids, rows'[j] # NULL, j # i
        PROVE  /\ human'[rows'[j].user] = holder[rows'[j].acct]
               /\ rows'[j].union \in {NULL, union[rows'[j].acct]}
    <3>1. /\ rows[j] # NULL /\ rows[j] \in Row
          /\ human[rows[j].user] = holder[rows[j].acct]
          /\ rows[j].union \in {NULL, union[rows[j].acct]}
      BY <1>1, <1>2, <2>1 DEF Inv, RowsOK, Table
    <3>2. human[rows[j].user] # NULL /\ rows[j].user \in User
      BY <3>1, HolderType DEF Row
    <3>3. QED
      BY <1>2, <2>1, <3>1, <3>2
  <2>2. QED
    BY <1>2, <2>1 DEF RowsOK
<1>4. OnceOnly'
  <2>1. ASSUME NEW j \in Ids, rows[j] # NULL, rows[j].acct = x.acct, i \in Ids
        PROVE  i = j
    <3>1. Taken(x.acct)
      BY <2>1 DEF Taken, Social, Present
    <3>2. rows[i] # NULL /\ rows[i].acct = x.acct
      BY <2>1, <3>1 DEF TableOK
    <3>3. QED
      BY <2>1, <3>2 DEF Inv, OnceOnly
  <2>2. QED
    BY <1>2, <2>1 DEF Inv, OnceOnly
<1>5. TableOK(f, rows)'
  BY <1>1, <1>2 DEF TableOK, Ids
<1>6. \A a : a # x.acct /\ ~Taken(a) => ~Taken(a)'
  BY <1>2 DEF Taken, Social, Present
<1>7. ASSUME rows[i] # NULL, NEW a, ~Taken(a) PROVE ~Taken(a)'
  <2>1. CASE i \in Ids
    BY <1>2, <1>7, <2>1 DEF Taken, Social, Present, TableOK
  <2>2. CASE i \notin Ids
    BY <1>2, <1>7, <2>2 DEF Taken, Social, Present
  <2>3. QED
    BY <2>1, <2>2
<1>8. QED
  BY <1>2, <1>3, <1>4, <1>5, <1>6, <1>7

\* what p wrote and committed leaves the other requests consistent
LEMMA OthersStay ==
    ASSUME Inv, NEW f \in Birth, Consistent(f), NEW p \in Worker,
           last <= last', last' \in Nat,
           NEW q \in Worker, q # p, req'[q] = req[q],
           \A u \in User : human[u] # NULL => human'[u] = human[u],
           Uncommitted(q) => human'[req[q].user] = human[req[q].user],
           At(q, "commit") /\ req[q].row # 0 /\ ~Taken(req[q].acct)
              => ~Taken(req[q].acct)'
    PROVE  ReqOK(f, req[q])'
<1>1. ReqOK(f, req[q]) /\ req[q] \in Request /\ last \in Nat
  BY InHand DEF Consistent, Inv, TypeOK
<1>2. \A t : TableOK(f, t) => TableOK(f, t)'
  BY <1>1, SocialAssumption DEF TableOK, Ids
<1>3. BornFor(f, req[q]) => BornFor(f, req[q])'
  BY <1>1 DEF BornFor, Request
<1>4. ASSUME NEW u \in User, NEW a \in Account, human[u] = holder[a]
      PROVE  human'[u] = holder[a]
  BY <1>4, HolderType
<1>5. req[q].acct \in Account \cup {NULL} /\ req[q].user \in User \cup {NULL}
  BY <1>1 DEF Request
<1>6. req[q].pc = "loggedIn" => req[q].user \in User
  BY <1>1 DEF ReqOK
<1>7. \A i \in Ids : i <= last => i <= last'
  BY <1>1, SocialAssumption DEF Ids
<1>8. QED
  BY <1>1, <1>2, <1>3, <1>4, <1>5, <1>6, <1>7 DEF ReqOK, Uncommitted, At

\* associate_user: the row is inserted but not committed, and locked
LEMMA LoginAssociateStep ==
    ASSUME Inv, NEW p \in Worker, LoginAssociate(p)
    PROVE  Inv'
<1>1. PICK f0 \in Birth : Consistent(f0)
  BY DEF Inv
<1>2. ReqOK(f0, req[p]) /\ req[p].pc = "associate" /\ last \in Nat
  BY <1>1, InHand DEF Consistent, LoginAssociate, At
<1>3. /\ req[p].user \in User /\ req[p].acct \in Account /\ req[p].row = 0
      /\ human[req[p].user] = NULL
  BY <1>2 DEF ReqOK
<1>4. /\ UNCHANGED <<human, usable, contact, rows>>
      /\ last' \in {last, last + 1} /\ last' \in Nat /\ last <= last'
  BY <1>2 DEF LoginAssociate
<1>5. CASE Fail(p)
  BY <1>4, <1>5, InHand, EndStep DEF Ends
<1>6. CASE Goto(p, "commit")
  <2>1. PICK r \in Request : Become(p, r) /\ r = [req[p] EXCEPT !.pc = "commit"]
    BY <1>6, InHand, RelabelType DEF Goto, Label
  <2>2. /\ r.pc = "commit" /\ r.user = req[p].user /\ r.acct = req[p].acct
        /\ r.view = req[p].view /\ r.row = 0
    BY <1>3, <2>1, InHand DEF Request
  <2>3. ReqOK(f0, r) /\ Tame(p, r)
    BY <1>2, <1>3, <2>2 DEF ReqOK, Tame, Uncommitted
  <2>4. QED
    BY <1>1, <1>4, <2>1, <2>3, InHand, RequestStep
<1>7. CASE /\ ~Taken(req[p].acct) /\ ~Locked(req[p].acct) /\ last' = last + 1
           /\ Become(p, [req[p] EXCEPT !.pc = "commit", !.row = last + 1])
  <2>1. PICK f \in Birth :
            /\ Consistent(f)
            /\ last + 1 \in Ids => /\ f[last + 1].user = req[p].user
                                   /\ f[last + 1].acct = req[p].acct
    BY <1>1, <1>3, Reborn
  <2>2. PICK r : r = [req[p] EXCEPT !.pc = "commit", !.row = last + 1]
    OBVIOUS
  <2>3. /\ r \in Request /\ r.pc = "commit" /\ r.user = req[p].user
        /\ r.acct = req[p].acct /\ r.view = req[p].view /\ r.row = last + 1
    <3>1. last + 1 \in Nat /\ req[p] \in Request
      BY <1>2, InHand
    <3>2. QED
      BY <2>2, <3>1 DEF Request, Label
  <2>4. req' = [req EXCEPT ![p] = r] /\ req'[p] = r
    BY <1>7, <2>2, InHand DEF Become
  <2>5. TypeOK'
    BY <1>4, <2>3, <2>4 DEF Inv, TypeOK
  <2>6. RowsOK' /\ OnceOnly'
    BY <1>4 DEF Inv, RowsOK, OnceOnly
  <2>7. Apart'
    <3>1. \A q \in Worker : q # p => req'[q] = req[q]
      BY <2>4, InHand
    <3>2. \A q \in Worker : At(q, "commit") /\ req[q].row # 0 => req[q].acct # r.acct
      BY <1>7, <2>3 DEF Locked, At
    <3>3. Uncommitted(p)
      BY <1>2 DEF Uncommitted
    <3>4. QED
      BY <2>3, <2>4, <3>1, <3>2, <3>3 DEF Inv, Apart, Uncommitted, At
  <2>8. Consistent(f)'
    <3>1. \A t : TableOK(f, t) => TableOK(f, t)'
      BY <1>2, <1>4, SocialAssumption DEF TableOK, Ids
    <3>2. TableOK(f, rows)'
      BY <1>4, <2>1, <3>1 DEF Consistent, TableOK
    <3>3. ReqOK(f, req[p])'
      <4>1. ReqOK(f, req[p])
        BY <2>1 DEF Consistent
      <4>2. BornFor(f, r)'
        BY <1>2, <1>7, <2>1, <2>3 DEF BornFor
      <4>3. human'[r.user] = NULL
        BY <1>3, <1>4, <2>3
      <4>4. ~Taken(r.acct)'
        BY <1>4, <1>7, <2>3 DEF Taken, Social, Present
      <4>5. r.view # NULL => TableOK(f, r.view)'
        BY <2>3, <3>1, <4>1 DEF ReqOK
      <4>6. QED
        BY <1>3, <2>3, <2>4, <4>2, <4>3, <4>4, <4>5 DEF ReqOK
    <3>4. ASSUME NEW q \in Worker, q # p PROVE ReqOK(f, req[q])'
      <4>1. req'[q] = req[q]
        BY <2>4, <3>4, InHand
      <4>2. \A a : ~Taken(a) => ~Taken(a)'
        BY <1>4 DEF Taken, Social, Present
      <4>3. QED
        BY <1>4, <2>1, <3>4, <4>1, <4>2, OthersStay
    <3>5. QED
      BY <3>2, <3>3, <3>4 DEF Consistent
  <2>9. QED
    BY <2>1, <2>5, <2>6, <2>7, <2>8 DEF Inv
<1>8. QED
  BY <1>5, <1>6, <1>7 DEF LoginAssociate

\* The unionid saved with an account is its own, or none.
LEMMA UnionSavedOK ==
    ASSUME NEW a \in Account
    PROVE  UnionSaved(a) \in {NULL, union[a]} /\ UnionSaved(a) \in Union \cup {NULL}
BY DEF UnionSaved, Union

\* The user, whom no other transaction has in hand, appears with its row.
LEMMA LoginCommitStep ==
    ASSUME Inv, NEW p \in Worker, LoginCommit(p)
    PROVE  Inv'
<1>1. PICK f \in Birth : Consistent(f)
  BY DEF Inv
<1> DEFINE a == req[p].acct
           u == req[p].user
           i == req[p].row
           x == [user |-> u, acct |-> a, on |-> req[p].on, union |-> UnionSaved(a)]
<1>2. ReqOK(f, req[p]) /\ req[p].pc = "commit"
  BY <1>1 DEF Consistent, LoginCommit, At
<1>3. /\ u \in User /\ a \in Account /\ human[u] = NULL /\ i \in Nat
      /\ i # 0 => BornFor(f, req[p]) /\ ~Taken(a)
  BY <1>2, InHand DEF ReqOK, Request
<1>4. /\ human' = [human EXCEPT ![u] = holder[a]]
      /\ rows' = IF i = 0 THEN rows ELSE [rows EXCEPT ![i] = x]
      /\ UNCHANGED <<usable, contact, last>> /\ LoggedIn(p, u, a, req[p].on, {})
  BY DEF LoginCommit
<1>5. x \in Row /\ x.user = u /\ x.acct = a /\ x.union \in {NULL, union[a]}
  BY <1>3, InHand, UnionSavedOK DEF Row, Request
<1> HIDE DEF x
<1>6. PICK r \in Request :
          /\ Become(p, r)
          /\ r.pc \in {"userSave", "loggedIn"} /\ r.view = NULL
          /\ r.user = u /\ r.acct = a
  <2>1. req[p].on \in On
    BY InHand DEF Request
  <2>2. QED
    BY <1>3, <1>4, <2>1, LoggedInType
<1>7. /\ human' \in [User -> Person \cup {NULL}] /\ human'[u] = holder[a]
      /\ \A v \in User : v # u => human'[v] = human[v]
      /\ \A v \in User : human[v] # NULL => human'[v] = human[v]
  BY <1>3, <1>4, InHand, HolderType
<1>8. last \in Nat /\ last' \in Nat /\ last <= last'
  BY <1>4, InHand
<1>9. /\ rows' \in Table /\ RowsOK' /\ OnceOnly' /\ TableOK(f, rows)'
      /\ \A b : (i # 0 => b # a) /\ ~Taken(b) => ~Taken(b)'
  <2>1. CASE i = 0
    <3>1. UNCHANGED rows
      BY <1>4, <2>1
    <3>2. RowsOK'
      <4>1. ASSUME NEW j \in Ids, rows[j] # NULL
            PROVE  human'[rows[j].user] = holder[rows[j].acct]
        <5>1. rows[j] \in Row /\ human[rows[j].user] = holder[rows[j].acct]
          BY <4>1, InHand DEF Table, Inv, RowsOK
        <5>2. QED
          BY <5>1, <1>7, HolderType DEF Row
      <4>2. QED
        BY <3>1, <4>1 DEF Inv, RowsOK
    <3>3. OnceOnly' /\ TableOK(f, rows)'
      BY <1>1, <1>4, <3>1 DEF Inv, OnceOnly, Consistent, TableOK
    <3>4. QED
      BY <3>1, <3>2, <3>3, InHand DEF Taken, Social, Present
  <2>2. CASE i # 0
    <3>1. i <= last' /\ (i \in Ids => f[i].user = x.user /\ f[i].acct = x.acct)
      BY <1>3, <1>4, <1>5, <2>2 DEF BornFor
    <3>2. TableOK(f, rows) /\ rows' = [rows EXCEPT ![i] = x]
      BY <1>1, <1>4, <2>2 DEF Consistent
    <3>3. human'[x.user] = holder[x.acct] /\ x.union \in {NULL, union[x.acct]}
      BY <1>5, <1>7
    <3>4. ~Taken(x.acct)
      BY <1>3, <1>5, <2>2
    <3>5. /\ rows' \in Table /\ RowsOK' /\ OnceOnly' /\ TableOK(f, rows)'
          /\ \A b : b # x.acct /\ ~Taken(b) => ~Taken(b)'
      BY <1>3, <1>5, <1>7, <1>8, <3>1, <3>2, <3>3, <3>4, RowWritten
    <3>6. QED
      BY <1>5, <2>2, <3>5
  <2>3. QED
    BY <2>1, <2>2
<1>10. req' = [req EXCEPT ![p] = r] /\ req'[p] = r
       /\ \A q \in Worker : q # p => req'[q] = req[q]
  BY <1>6, InHand DEF Become
<1>11. TypeOK'
  BY <1>4, <1>6, <1>7, <1>8, <1>9, <1>10 DEF Inv, TypeOK
<1>12. Apart'
  BY <1>6, <1>10 DEF Inv, Apart, Uncommitted, At
<1>13. ReqOK(f, req[p])'
  BY <1>3, <1>6, <1>7, <1>10 DEF ReqOK
<1>14. ASSUME NEW q \in Worker, q # p PROVE ReqOK(f, req[q])'
  <2>1. Uncommitted(q) => req[q].user # u /\ req[q].user \in User
    <3>1. Uncommitted(p)
      BY <1>2 DEF Uncommitted
    <3>2. ReqOK(f, req[q])
      BY <1>1 DEF Consistent
    <3>3. QED
      BY <1>14, <3>1, <3>2 DEF Inv, Apart, Uncommitted, ReqOK
  <2>2. At(q, "commit") /\ req[q].row # 0 => (i # 0 => req[q].acct # a)
    BY <1>2, <1>14 DEF Inv, Apart, At
  <2>3. QED
    BY <1>1, <1>7, <1>8, <1>9, <1>10, <1>14, <2>1, <2>2, OthersStay
<1>15. Consistent(f)'
  BY <1>9, <1>13, <1>14 DEF Consistent
<1>16. QED
  BY <1>1, <1>9, <1>11, <1>12, <1>15 DEF Inv

\* objects.create(), or the row found again after IntegrityError
LEMMA BindInsertStep ==
    ASSUME Inv, NEW p \in Worker, BindInsert(p)
    PROVE  Inv'
<1>1. PICK f0 \in Birth : Consistent(f0)
  BY DEF Inv
<1>2. ReqOK(f0, req[p]) /\ req[p].pc = "insert" /\ last \in Nat
  BY <1>1, InHand DEF Consistent, BindInsert, At
<1>3. /\ req[p].user \in User /\ req[p].acct \in Account
      /\ human[req[p].user] = holder[req[p].acct]
  BY <1>2 DEF ReqOK
<1>4. UNCHANGED <<human, usable, contact>> /\ ~Locked(req[p].acct)
  BY DEF BindInsert
<1>5. CASE LookAgain(p)
  <2>1. RowsRemoved /\ last' \in Nat /\ last <= last'
    BY <1>5, InHand DEF LookAgain
  <2>2. CASE Ends(p)
    BY <1>4, <2>1, <2>2, InHand, EndStep
  <2>3. CASE ~Ends(p)
    <3>1. PICK i \in Social(View(p), req[p].acct) :
              /\ View(p)[i].user = req[p].user
              /\ Become(p, [req[p] EXCEPT !.pc = "save", !.row = i, !.view = NULL])
      BY <1>5, <2>3 DEF LookAgain, Ends
    <3>2. /\ i \in Ids /\ i \in Nat /\ i <= last
          /\ f0[i].user = req[p].user /\ f0[i].acct = req[p].acct
      <4>1. TableOK(f0, View(p))
        BY <1>1, ViewOK
      <4>2. QED
        BY <3>1, <4>1, SocialAssumption DEF TableOK, Social, Present, Ids
    <3>3. PICK r : r = [req[p] EXCEPT !.pc = "save", !.row = i, !.view = NULL]
      OBVIOUS
    <3>4. /\ r \in Request /\ r.pc = "save" /\ r.view = NULL /\ r.row = i
          /\ r.user = req[p].user /\ r.acct = req[p].acct
      BY <3>2, <3>3, InHand DEF Request, Label
    <3>5. ReqOK(f0, r) /\ Tame(p, r)
      BY <1>3, <3>2, <3>4 DEF ReqOK, Tame, BornFor
    <3>6. QED
      BY <1>1, <1>4, <2>1, <3>1, <3>3, <3>4, <3>5, InHand, RequestStep
  <2>4. QED
    BY <2>2, <2>3
<1>6. CASE Insert(p)
  <2> DEFINE x == Created(p)
  <2>1. /\ ~Taken(req[p].acct) /\ rows' = [rows EXCEPT ![last + 1] = x]
        /\ last' = last + 1
        /\ Become(p, [req[p] EXCEPT !.pc = "save", !.row = last + 1, !.view = NULL])
    BY <1>6 DEF Insert
  <2>2. /\ x \in Row /\ x.user = req[p].user /\ x.acct = req[p].acct
        /\ x.union = NULL
    BY <1>3 DEF Created, Row, On
  <2> HIDE DEF x
  <2>3. PICK f \in Birth :
            /\ Consistent(f)
            /\ last + 1 \in Ids => /\ f[last + 1].user = req[p].user
                                   /\ f[last + 1].acct = req[p].acct
    BY <1>1, <1>3, Reborn
  <2>4. PICK r : r = [req[p] EXCEPT !.pc = "save", !.row = last + 1, !.view = NULL]
    OBVIOUS
  <2>5. /\ r \in Request /\ r.pc = "save" /\ r.view = NULL /\ r.row = last + 1
        /\ r.user = req[p].user /\ r.acct = req[p].acct
    <3>1. last + 1 \in Nat /\ req[p] \in Request
      BY <1>2, InHand
    <3>2. QED
      BY <2>4, <3>1 DEF Request, Label
  <2>6. /\ req' = [req EXCEPT ![p] = r] /\ req'[p] = r
        /\ \A q \in Worker : q # p => req'[q] = req[q]
    BY <2>1, <2>4, InHand DEF Become
  <2>7. last' \in Nat /\ last <= last' /\ last + 1 \in Nat /\ last + 1 <= last'
    BY <1>2, <2>1
  <2>8. /\ rows' \in Table /\ RowsOK' /\ OnceOnly' /\ TableOK(f, rows)'
        /\ \A a : a # req[p].acct /\ ~Taken(a) => ~Taken(a)'
    <3>1. TableOK(f, rows)
      BY <2>3 DEF Consistent
    <3>2. last + 1 \in Ids => /\ f[last + 1].user = x.user
                              /\ f[last + 1].acct = x.acct
      BY <2>2, <2>3
    <3>3. human'[x.user] = holder[x.acct] /\ x.union \in {NULL, union[x.acct]}
      BY <1>3, <1>4, <2>2
    <3>4. \A u \in User : human[u] # NULL => human'[u] = human[u]
      BY <1>4
    <3>5. ~Taken(x.acct)
      BY <2>1, <2>2
    <3>6. QED
      BY <2>1, <2>2, <2>7, <3>1, <3>2, <3>3, <3>4, <3>5, RowWritten
  <2>9. TypeOK'
    BY <1>4, <2>5, <2>6, <2>7, <2>8 DEF Inv, TypeOK
  <2>10. Apart'
    BY <2>5, <2>6 DEF Inv, Apart, Uncommitted, At
  <2>11. ReqOK(f, req[p])'
    <3>1. BornFor(f, r)'
      BY <2>3, <2>5, <2>7 DEF BornFor
    <3>2. human'[r.user] = holder[r.acct]
      BY <1>3, <1>4, <2>5
    <3>3. QED
      BY <1>3, <2>5, <2>6, <3>1, <3>2 DEF ReqOK
  <2>12. ASSUME NEW q \in Worker, q # p PROVE ReqOK(f, req[q])'
    <3>1. At(q, "commit") /\ req[q].row # 0 => req[q].acct # req[p].acct
      BY <1>4 DEF Locked, At
    <3>2. QED
      BY <1>4, <2>3, <2>6, <2>7, <2>8, <2>12, <3>1, OthersStay
  <2>13. Consistent(f)'
    BY <2>8, <2>11, <2>12 DEF Consistent
  <2>14. QED
    BY <2>3, <2>8, <2>9, <2>10, <2>13 DEF Inv
<1>7. QED
  BY <1>5, <1>6 DEF BindInsert

\* sc_user.save(), which also brings a deleted row back, unless the account
\* is another row's by now
LEMMA BindSaveStep ==
    ASSUME Inv, NEW p \in Worker, BindSave(p)
    PROVE  Inv'
<1>1. PICK f \in Birth : Consistent(f)
  BY DEF Inv
<1>2. ReqOK(f, req[p]) /\ req[p].pc = "save" /\ last \in Nat
  BY <1>1, InHand DEF Consistent, BindSave, At
<1>3. /\ req[p].user \in User /\ req[p].acct \in Account /\ req[p].row \in Nat
      /\ human[req[p].user] = holder[req[p].acct] /\ BornFor(f, req[p])
  BY <1>2, InHand DEF ReqOK, Request
<1>4. /\ UNCHANGED <<human, usable, contact, last>>
      /\ last' \in Nat /\ last <= last'
  BY <1>2 DEF BindSave
<1>5. CASE Fail(p) /\ UNCHANGED rows
  BY <1>4, <1>5, InHand, EndStep DEF Ends
<1>6. CASE /\ rows[req[p].row] # NULL \/ (~Taken(req[p].acct) /\ ~Locked(req[p].acct))
           /\ rows' = [rows EXCEPT ![req[p].row] = Complete(p)]
           /\ Succeed(p)
  <2> DEFINE x == Complete(p)
  <2>1. /\ x \in Row /\ x.user = req[p].user /\ x.acct = req[p].acct
        /\ x.union \in {NULL, union[req[p].acct]}
    <3>1. req[p].on \in On
      BY InHand DEF Request
    <3>2. QED
      BY <1>3, <3>1, UnionSavedOK DEF Complete, Created, Row
  <2> HIDE DEF x
  <2>2. /\ rows' \in Table /\ RowsOK' /\ OnceOnly' /\ TableOK(f, rows)'
        /\ \A a : a # req[p].acct /\ ~Taken(a) => ~Taken(a)'
        /\ rows[req[p].row] # NULL => \A a : ~Taken(a) => ~Taken(a)'
    <3>1. TableOK(f, rows) /\ rows' = [rows EXCEPT ![req[p].row] = x]
      BY <1>1, <1>6 DEF Consistent, x
    <3>2. /\ req[p].row <= last'
          /\ req[p].row \in Ids => /\ f[req[p].row].user = x.user
                                   /\ f[req[p].row].acct = x.acct
      BY <1>3, <1>4, <2>1 DEF BornFor
    <3>3. human'[x.user] = holder[x.acct] /\ x.union \in {NULL, union[x.acct]}
      BY <1>3, <1>4, <2>1
    <3>4. \A u \in User : human[u] # NULL => human'[u] = human[u]
      BY <1>4
    <3>5. rows[req[p].row] # NULL \/ ~Taken(x.acct)
      BY <1>6, <2>1
    <3>6. QED
      BY <1>3, <1>4, <2>1, <3>1, <3>2, <3>3, <3>4, <3>5, RowWritten
  <2>3. /\ req' = [req EXCEPT ![p] = Idle] /\ req'[p] = Idle
        /\ \A q \in Worker : q # p => req'[q] = req[q]
    BY <1>6, InHand DEF Succeed, Become
  <2>4. TypeOK'
    BY <1>4, <2>2, <2>3, IdleType DEF Inv, TypeOK
  <2>5. Apart'
    BY <2>3, IdleFields DEF Inv, Apart, Uncommitted, At
  <2>6. ReqOK(f, req[p])'
    BY <2>3, IdleFields DEF ReqOK
  <2>7. ASSUME NEW q \in Worker, q # p PROVE ReqOK(f, req[q])'
    <3>1. /\ At(q, "commit") /\ req[q].row # 0
          /\ rows[req[p].row] = NULL
          => req[q].acct # req[p].acct
      BY <1>6 DEF Locked, At
    <3>2. QED
      BY <1>1, <1>4, <2>2, <2>3, <2>7, <3>1, OthersStay
  <2>8. Consistent(f)'
    BY <2>2, <2>6, <2>7 DEF Consistent
  <2>9. QED
    BY <1>1, <2>2, <2>4, <2>5, <2>8 DEF Inv
<1>7. QED
  BY <1>5, <1>6 DEF BindSave

-----------------------------------------------------------------------------
\* The invariant holds at first.
LEMMA InitInv ==
    ASSUME Init
    PROVE  Inv
<1>1. TypeOK
  BY IdleType, SocialAssumption DEF Init, TypeOK, Table
<1>2. RowsOK /\ OnceOnly
  BY DEF Init, RowsOK, OnceOnly
<1>3. Apart
  BY IdleFields DEF Init, Apart, Uncommitted, At
<1>4. ASSUME NEW f PROVE Consistent(f)
  BY IdleFields DEF Init, Consistent, TableOK, ReqOK
<1>5. [i \in Ids |-> [user |-> NULL, acct |-> NULL]] \in Birth
  BY DEF Birth
<1>6. QED
  BY <1>1, <1>2, <1>3, <1>4, <1>5 DEF Inv

\* Every step keeps it.
LEMMA NextInv ==
    ASSUME Inv, [Next]_vars
    PROVE  Inv'
<1>1. ASSUME NEW p \in Worker, Start(p) \/ Step(p) \/ Crash(p)
      PROVE  Inv'
  <2>1. CASE Start(p)
    BY <2>1, StartStep
  <2>2. CASE Crash(p)
    BY <2>2, LastStep
  <2>3. CASE \E u \in User : LoginCreate(p, u)
    BY <2>3, LoginCreateStep
  <2>4. CASE LoginAssociate(p)
    BY <2>4, LoginAssociateStep
  <2>5. CASE LoginCommit(p)
    BY <2>5, LoginCommitStep
  <2>6. CASE SaveUser(p)
    BY <2>6, SaveUserStep
  <2>7. CASE LoginAnswer(p) \/ Delete(p) \/ Disconnected(p)
    BY <2>7, LastStep
  <2>8. CASE BindInsert(p)
    BY <2>8, BindInsertStep
  <2>9. CASE BindSave(p)
    BY <2>9, BindSaveStep
  <2>10. CASE Entries(p)
    BY <2>10, EntriesStep
  <2>11. CASE DisconnectEntry(p)
    BY <2>11, DisconnectEntryStep
  <2>12. CASE SaveProfile(p)
    BY <2>12, SaveProfileStep
  <2>13. QED
    BY <1>1, <2>1, <2>2, <2>3, <2>4, <2>5, <2>6, <2>7, <2>8, <2>9, <2>10, <2>11,
       <2>12 DEF Step
<1>2. CASE UNCHANGED vars
  BY <1>2 DEF vars, Inv, TypeOK, RowsOK, OnceOnly, Apart, Consistent, TableOK, ReqOK,
              BornFor, Taken, Social, Present, Uncommitted, At
<1>3. QED
  BY <1>1, <1>2 DEF Next

-----------------------------------------------------------------------------
\* It holds in every state.
LEMMA InvAlways == Spec => []Inv
<1>1. Init => Inv
  BY InitInv
<1>2. Inv /\ [Next]_vars => Inv'
  BY NextInv
<1>3. QED
  BY <1>1, <1>2, PTL DEF Spec

\* The tables and the requests in hand keep their types.
THEOREM TypeCorrect == Spec => []TypeOK
<1>1. Inv => TypeOK
  BY DEF Inv
<1>2. QED
  BY <1>1, InvAlways, PTL

\* Whoever logs in with an account of a third party ends in a user of their
\* own, through whichever look-up of _get_or_create_oauth_user.
THEOREM LandsHomeAlways == Spec => []LandsHome
<1>1. Inv => LandsHome
  BY DEF Inv, Consistent, ReqOK, LandsHome
<1>2. QED
  BY <1>1, InvAlways, PTL

\* No account leads to two users: the unique key (provider, uid) holds at
\* every insert, those of save() on a deleted row included.
THEOREM OneOwnerAlways == Spec => []OneOwner
<1>1. ASSUME Inv, NEW a \in Account PROVE Cardinality(Social(rows, a)) <= 1
  <2>1. CASE Social(rows, a) = {}
    BY <2>1, FS_EmptySet
  <2>2. ASSUME NEW i \in Social(rows, a) PROVE Social(rows, a) = {i}
    BY <1>1 DEF Inv, OnceOnly, Social, Present
  <2>3. CASE Social(rows, a) # {}
    <3>1. PICK i : i \in Social(rows, a)
      BY <2>3
    <3>2. Cardinality(Social(rows, a)) = 1
      BY <2>2, <3>1, FS_Singleton
    <3>3. QED
      BY <3>2
  <2>4. QED
    BY <2>1, <2>3
<1>2. Inv => OneOwner
  BY <1>1 DEF OneOwner
<1>3. QED
  BY <1>2, InvAlways, PTL

-----------------------------------------------------------------------------
(***************************************************************************)
(* AccountRegistry is implemented                                          *)
(***************************************************************************)
LEMMA OwnerIs ==
    ASSUME NEW t, NEW a,
           \A i, j \in Ids :
              t[i] # NULL /\ t[j] # NULL /\ t[i].acct = t[j].acct => i = j
    PROVE  /\ Social(t, a) = {} => OwnerOf(t, a) = NULL
           /\ \A i \in Social(t, a) : OwnerOf(t, a) = t[i].user
<1>1. ASSUME NEW i \in Social(t, a)
      PROVE  (CHOOSE j \in Social(t, a) : TRUE) = i
  BY DEF Social, Present
<1>2. QED
  BY <1>1 DEF OwnerOf

\* The owner of an account is the user of its one row.
LEMMA OwnerNow ==
    ASSUME Inv, NEW a
    PROVE  /\ Social(rows, a) = {} => OwnerOf(rows, a) = NULL
           /\ \A i \in Social(rows, a) : OwnerOf(rows, a) = rows[i].user
BY OwnerIs DEF Inv, OnceOnly

\* So is the next owner.
LEMMA OwnerNext ==
    ASSUME Inv', NEW a
    PROVE  /\ Social(rows', a) = {} => OwnerOf(rows', a) = NULL
           /\ \A i \in Social(rows', a) : OwnerOf(rows', a) = rows'[i].user
BY OwnerIs DEF Inv, OnceOnly

\* Where no row comes, goes or changes its user, no owner changes.
LEMMA OwnerSame ==
    ASSUME Inv, Inv',
           \A i \in Ids :
              /\ rows'[i] = NULL <=> rows[i] = NULL
              /\ rows[i] # NULL => /\ rows'[i].user = rows[i].user
                                   /\ rows'[i].acct = rows[i].acct
    PROVE  Owner' = Owner
<1>1. ASSUME NEW a \in Account PROVE OwnerOf(rows', a) = OwnerOf(rows, a)
  <2>1. Social(rows', a) = Social(rows, a)
    BY DEF Social, Present
  <2>2. /\ Social(rows, a) = {} =>
             OwnerOf(rows, a) = NULL /\ OwnerOf(rows', a) = NULL
        /\ \A i \in Social(rows, a) :
             OwnerOf(rows, a) = rows[i].user /\ OwnerOf(rows', a) = rows'[i].user
    BY <2>1, OwnerNow, OwnerNext
  <2>3. QED
    BY <2>2 DEF Social, Present
<1>2. QED
  BY <1>1 DEF Owner

\* a new row of an account without row binds the account
LEMMA OwnerAdded ==
    ASSUME Inv, Inv', NEW i \in Ids, NEW x \in Row, rows[i] = NULL, ~Taken(x.acct),
           rows' = [rows EXCEPT ![i] = x]
    PROVE  Owner[x.acct] = NULL /\ Owner' = [Owner EXCEPT ![x.acct] = x.user]
<1>1. rows'[i] = x /\ x # NULL /\ \A j \in Ids : j # i => rows'[j] = rows[j]
  BY NullAssumption DEF Inv, TypeOK, Table
<1>2. x.acct \in Account
  BY DEF Row
<1>3. OwnerOf(rows, x.acct) = NULL
  BY OwnerNow DEF Taken
<1>4. OwnerOf(rows', x.acct) = x.user
  <2>1. i \in Social(rows', x.acct)
    BY <1>1 DEF Social, Present
  <2>2. QED
    BY <1>1, <2>1, OwnerNow, OwnerNext
<1>5. ASSUME NEW a \in Account, a # x.acct
      PROVE  OwnerOf(rows', a) = OwnerOf(rows, a)
  <2>1. Social(rows', a) = Social(rows, a)
    BY <1>1, <1>5 DEF Social, Present
  <2>2. CASE Social(rows, a) = {}
    BY <2>1, <2>2, OwnerNow, OwnerNext
  <2>3. ASSUME NEW j \in Social(rows, a) PROVE OwnerOf(rows', a) = OwnerOf(rows, a)
    <3>1. rows'[j] = rows[j]
      BY <1>1, <1>5 DEF Social, Present
    <3>2. OwnerOf(rows, a) = rows[j].user /\ OwnerOf(rows', a) = rows'[j].user
      BY <2>1, OwnerNow, OwnerNext
    <3>3. QED
      BY <3>1, <3>2
  <2>4. QED
    BY <2>2, <2>3
<1>6. QED
  BY <1>2, <1>3, <1>4, <1>5 DEF Owner

\* deleting rows of one user unbinds accounts of that user
LEMMA OwnerRemoved ==
    ASSUME Inv, Inv', NEW u \in User, NEW S, rows' = Without(S),
           UNCHANGED human,
           \A i \in S \cap Ids : rows[i] # NULL => rows[i].user = u
    PROVE  \E T \in SUBSET Account : Registry!Unbind(u, T)
<1> DEFINE T == {a \in Account : Social(rows, a) \cap S # {}}
<1>1. ASSUME NEW a \in T PROVE OwnerOf(rows, a) = u /\ OwnerOf(rows', a) = NULL
  <2>1. PICK i \in Social(rows, a) : i \in S
    OBVIOUS
  <2>2. OwnerOf(rows, a) = u
    BY <2>1, OwnerNow, OwnerNext DEF Inv, OnceOnly, Social, Present
  <2>3. \A j \in Social(rows, a) : j = i
    BY <2>1 DEF Inv, OnceOnly, Social, Present
  <2>4. Social(rows', a) = {}
    BY <2>1, <2>3 DEF Social, Present, Without
  <2>5. QED
    BY <2>2, <2>4, OwnerNow, OwnerNext
<1>2. ASSUME NEW a \in Account \ T PROVE OwnerOf(rows', a) = OwnerOf(rows, a)
  <2>1. \A i \in Social(rows, a) : i \notin S
    OBVIOUS
  <2>2. /\ Social(rows', a) = Social(rows, a)
        /\ \A i \in Social(rows, a) : rows'[i] = rows[i]
    BY <2>1 DEF Social, Present, Without
  <2>3. QED
    BY <2>2, OwnerNow, OwnerNext
<1>3. Registry!Unbind(u, T)
  BY <1>1, <1>2 DEF Owner, Registry!Unbind
<1>4. QED
  BY <1>3

\* Every step is a step of the registry, or none.
LEMMA RegistryStep ==
    ASSUME Inv, Inv', [Next]_vars
    PROVE  [Registry!Next]_<<human, Owner>>
<1> DEFINE Goal == Registry!Next \/ UNCHANGED <<human, Owner>>
<1>1. ASSUME UNCHANGED <<human, rows>> PROVE Goal
  BY <1>1, OwnerSame
<1> USE DEF Registry!Next
<1>2. ASSUME NEW u \in User, NEW S, rows' = Without(S), UNCHANGED human,
             \A i \in S \cap Ids : rows[i] # NULL => rows[i].user = u
      PROVE  Goal
  BY <1>2, OwnerRemoved
<1>3. ASSUME NEW i \in Nat, NEW x \in Row, rows' = [rows EXCEPT ![i] = x],
             i \in Ids /\ rows[i] # NULL =>
                rows[i].user = x.user /\ rows[i].acct = x.acct,
             rows[i] # NULL \/ ~Taken(x.acct)
      PROVE  \/ Owner' = Owner
             \/ Owner[x.acct] = NULL /\ Owner' = [Owner EXCEPT ![x.acct] = x.user]
  <2>1. CASE i \in Ids /\ rows[i] = NULL
    BY <1>3, <2>1, OwnerAdded
  <2>2. CASE i \notin Ids
    <3>1. rows' = rows
      BY <1>3, <2>2 DEF Inv, TypeOK, Table
    <3>2. QED
      BY <3>1, OwnerSame
  <2>3. CASE i \in Ids /\ rows[i] # NULL
    <3>1. rows'[i] = x /\ x # NULL /\ \A j \in Ids : j # i => rows'[j] = rows[j]
      BY <1>3, <2>3, NullAssumption DEF Inv, TypeOK, Table
    <3>2. QED
      BY <1>3, <2>3, <3>1, OwnerSame
  <2>4. QED
    BY <2>1, <2>2, <2>3
<1>4. PICK f \in Birth : Consistent(f)
  BY DEF Inv
<1>5. ASSUME NEW p \in Worker, NEW i \in Ids, rows[i] # NULL,
             NEW t, TableOK(f, t), t[i] # NULL
      PROVE  rows[i].user = t[i].user
  BY <1>4, <1>5 DEF Consistent, TableOK
<1>6. ASSUME NEW p \in Worker, LoginCommit(p) PROVE Goal
  <2> DEFINE a == req[p].acct
             u == req[p].user
             x == [user |-> u, acct |-> a, on |-> req[p].on, union |-> UnionSaved(a)]
  <2>1. ReqOK(f, req[p]) /\ req[p].pc = "commit"
    BY <1>4, <1>6 DEF Consistent, LoginCommit, At
  <2>2. /\ u \in User /\ a \in Account /\ human[u] = NULL /\ req[p].row \in Nat
        /\ req[p].row # 0 => BornFor(f, req[p]) /\ ~Taken(a)
    BY <2>1, InHand DEF ReqOK, Request
  <2>3. /\ human' = [human EXCEPT ![u] = holder[a]] /\ holder[a] \in Person
        /\ rows' = IF req[p].row = 0 THEN rows ELSE [rows EXCEPT ![req[p].row] = x]
    BY <1>6, <2>2, HolderType DEF LoginCommit
  <2>4. x \in Row /\ x.user = u /\ x.acct = a
    BY <2>2, InHand, UnionSavedOK DEF Row, Request
  <2> HIDE DEF x
  <2>5. \/ Owner' = Owner
        \/ Owner[a] = NULL /\ Owner' = [Owner EXCEPT ![a] = u]
    <3>1. CASE req[p].row = 0
      <4>1. rows' = rows
        BY <2>3, <3>1
      <4>2. QED
        BY <4>1, OwnerSame
    <3>2. CASE req[p].row # 0
      <4>1. rows' = [rows EXCEPT ![req[p].row] = x] /\ ~Taken(x.acct)
        BY <2>2, <2>3, <2>4, <3>2
      <4>2. req[p].row \in Ids => rows[req[p].row] = NULL
        <5>1. req[p].row \in Ids /\ rows[req[p].row] # NULL =>
                 rows[req[p].row].acct = a
          BY <1>4, <2>2, <3>2 DEF BornFor, Consistent, TableOK
        <5>2. QED
          BY <5>1, <4>1, <2>4 DEF Taken, Social, Present
      <4>3. QED
        BY <1>3, <2>2, <2>4, <4>1, <4>2
    <3>3. QED
      BY <3>1, <3>2
  <2>6. Registry!Register(u, holder[a])
    BY <2>2, <2>3, <2>5 DEF Registry!Register
  <2>7. QED
    BY <2>2, <2>3, <2>6
<1>7. ASSUME NEW p \in Worker, BindInsert(p) PROVE Goal
  <2>1. ReqOK(f, req[p]) /\ req[p].pc = "insert" /\ last \in Nat
    BY <1>4, <1>7, InHand DEF Consistent, BindInsert, At
  <2>2. /\ req[p].user \in User /\ req[p].acct \in Account
        /\ human[req[p].user] # NULL /\ UNCHANGED human
    BY <1>7, <2>1, HolderType DEF ReqOK, BindInsert
  <2>3. CASE LookAgain(p)
    BY <1>1, <2>2, <2>3 DEF LookAgain
  <2>4. CASE Insert(p)
    <3> DEFINE x == Created(p)
    <3>1. x \in Row /\ x.user = req[p].user /\ x.acct = req[p].acct
      BY <2>2 DEF Created, Row, On
    <3> HIDE DEF x
    <3>2. /\ rows' = [rows EXCEPT ![last + 1] = x] /\ ~Taken(x.acct)
          /\ last + 1 \in Nat
      BY <2>1, <2>4, <3>1 DEF Insert, x
    <3>3. last + 1 \in Ids => rows[last + 1] = NULL
      BY <1>4, <2>1 DEF Consistent, TableOK
    <3>4. \/ Owner' = Owner
          \/ Owner[x.acct] = NULL /\ Owner' = [Owner EXCEPT ![x.acct] = x.user]
      BY <1>3, <3>1, <3>2, <3>3
    <3>5. UNCHANGED <<human, Owner>> \/ Registry!Bind(req[p].user, req[p].acct)
      BY <2>2, <3>1, <3>4 DEF Registry!Bind
    <3>6. QED
      BY <2>2, <3>5
  <2>5. QED
    BY <1>7, <2>3, <2>4 DEF BindInsert
<1>8. ASSUME NEW p \in Worker, BindSave(p) PROVE Goal
  <2>1. ReqOK(f, req[p]) /\ req[p].pc = "save" /\ req[p].row \in Nat
    BY <1>4, <1>8, InHand DEF Consistent, BindSave, At, Request
  <2>2. /\ req[p].user \in User /\ req[p].acct \in Account /\ BornFor(f, req[p])
        /\ human[req[p].user] # NULL /\ UNCHANGED human
    BY <1>8, <2>1, HolderType DEF ReqOK, BindSave
  <2>3. CASE UNCHANGED rows
    BY <1>1, <2>2, <2>3
  <2>4. CASE /\ rows[req[p].row] # NULL \/ ~Taken(req[p].acct)
             /\ rows' = [rows EXCEPT ![req[p].row] = Complete(p)]
    <3> DEFINE x == Complete(p)
    <3>1. x \in Row /\ x.user = req[p].user /\ x.acct = req[p].acct
      <4>1. req[p].on \in On
        BY InHand DEF Request
      <4>2. QED
        BY <2>2, <4>1, UnionSavedOK DEF Complete, Created, Row
    <3>2. rows' = [rows EXCEPT ![req[p].row] = x]
      BY <2>4
    <3> HIDE DEF x
    <3>3. req[p].row \in Ids /\ rows[req[p].row] # NULL =>
             /\ rows[req[p].row].user = x.user
             /\ rows[req[p].row].acct = x.acct
      BY <1>4, <2>2, <3>1 DEF BornFor, Consistent, TableOK
    <3>4. \/ Owner' = Owner
          \/ Owner[x.acct] = NULL /\ Owner' = [Owner EXCEPT ![x.acct] = x.user]
      BY <1>3, <2>1, <2>4, <3>1, <3>2, <3>3
    <3>5. UNCHANGED <<human, Owner>> \/ Registry!Bind(req[p].user, req[p].acct)
      BY <2>2, <3>1, <3>4 DEF Registry!Bind
    <3>6. QED
      BY <2>2, <3>5
  <2>5. QED
    BY <1>8, <2>3, <2>4 DEF BindSave
<1>9. ASSUME NEW p \in Worker, Delete(p) PROVE Goal
  <2> DEFINE S == OfProvider(View(p), req[p].user, req[p].prov)
  <2>1. req[p].user \in User /\ TableOK(f, View(p))
    BY <1>4, <1>9, ViewOK DEF Consistent, ReqOK, Delete, At
  <2>2. rows' = Without(S) /\ UNCHANGED human
    BY <1>9 DEF Delete
  <2>3. ASSUME NEW i \in S \cap Ids, rows[i] # NULL PROVE rows[i].user = req[p].user
    <3>1. View(p)[i] # NULL /\ View(p)[i].user = req[p].user
      BY <2>3 DEF OfProvider, Of, Present
    <3>2. QED
      BY <1>5, <2>1, <2>3, <3>1
  <2> HIDE DEF S
  <2>4. QED
    BY <1>2, <2>1, <2>2, <2>3
<1>10. ASSUME NEW p \in Worker, DisconnectEntry(p) PROVE Goal
  <2>1. PICK i \in req[p].ids : rows' = Without({i}) /\ UNCHANGED human
    BY <1>10 DEF DisconnectEntry
  <2>2. ReqOK(f, req[p]) /\ req[p].pc = "disconnect"
    BY <1>4, <1>10 DEF Consistent, DisconnectEntry, At
  <2>3. req[p].user \in User /\ (i \in Ids => f[i].user = req[p].user)
    BY <2>1, <2>2 DEF ReqOK
  <2>4. \A j \in {i} \cap Ids : rows[j] # NULL => rows[j].user = req[p].user
    BY <1>4, <2>3 DEF Consistent, TableOK
  <2>5. QED
    BY <1>2, <2>1, <2>3, <2>4
<1>11. ASSUME NEW p \in Worker,
              \/ Start(p) \/ Crash(p) \/ \E u \in User : LoginCreate(p, u)
              \/ LoginAssociate(p) \/ SaveUser(p) \/ LoginAnswer(p) \/ Entries(p)
              \/ Disconnected(p) \/ SaveProfile(p)
       PROVE  Goal
  <2>1. UNCHANGED <<human, rows>>
    BY <1>11 DEF Start, Login, Bind, Unbind, Disconnect, BindPhone, Crash, LoginCreate,
                 LoginAssociate, SaveUser, LoginAnswer, Entries, Disconnected, SaveProfile
  <2>2. QED
    BY <1>1, <2>1
<1>12. CASE UNCHANGED vars
  BY <1>1, <1>12 DEF vars
<1>13. CASE Next
  <2>1. PICK p \in Worker : Start(p) \/ Step(p) \/ Crash(p)
    BY <1>13 DEF Next
  <2>2. QED
    BY <2>1, <1>6, <1>7, <1>8, <1>9, <1>10, <1>11 DEF Step
<1>14. QED
  BY <1>12, <1>13

\* Whatever the interleaving of logins, bindings and unbindings, their lost
\* races, revived rows and crashes, the tables keep AccountRegistry.
THEOREM RegistryImplemented == Spec => RegistryKept
<1>1. Init => Registry!Init
  <2>1. ASSUME Init, NEW a \in Account PROVE OwnerOf(rows, a) = NULL
    BY <2>1 DEF Init, OwnerOf, Social, Present
  <2>2. QED
    BY <2>1, SocialAssumption DEF Init, Owner, Registry!Init
<1>2. Inv /\ Inv' /\ [Next]_vars => [Registry!Next]_<<human, Owner>>
  BY RegistryStep
<1>3. QED
  BY <1>1, <1>2, InvAlways, PTL DEF Spec, RegistryKept, Registry!Spec
=============================================================================

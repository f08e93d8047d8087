---------------------------- MODULE Server_proofs ----------------------------
(***************************************************************************)
(* Proofs about the parts of the server that stand side by side in         *)
(* MCServer, for any sets of users, workers and uploads.                   *)
(***************************************************************************)
EXTENDS MCServer, Sequences, FiniteSetTheorems, TLAPS

-----------------------------------------------------------------------------
(* Uploaded logs.                                                          *)

\* Every file has a name: its own, or android.
AllNamed == DOMAIN files = named \cup ({current} \ {NULL})

\* What a worker holds: the file it opened, and the log it will answer for.
LogInHand(p) ==
    /\ job[p].pc # "idle" => job[p].what \in Upload
    /\ job[p].pc \in {"write", "rename"} => job[p].file \in DOMAIN files
    /\ job[p].pc = "rename" => job[p].what \in files[job[p].file]

LogsInv ==
    Logs!TypeOK /\ AllNamed /\ (\A p \in Worker : LogInHand(p)) /\ Logs!StoredIsKept

\* At the start there is no file and no write in hand.
LEMMA LogsInit == ASSUME Logs!Init PROVE LogsInv
<1>1. Logs!Idle.pc = "idle" /\ Logs!Idle.what = NULL /\ Logs!Idle.file = NULL
  BY DEF Logs!Idle
<1>2. files = <<>> /\ DOMAIN files = {}
  BY DEF Logs!Init
<1>3. Logs!TypeOK
  <2>1. /\ files \in Seq(SUBSET Upload) /\ left \subseteq Upload /\ stored \subseteq Upload
        /\ named \subseteq DOMAIN files /\ current \in DOMAIN files \cup {NULL}
        /\ job \in [Worker -> [pc : {"idle", "write", "rename", "make", "store"},
                               what : Upload \cup {NULL}, file : DOMAIN files \cup {NULL}]]
    BY <1>2 DEF Logs!Init, Logs!Idle
  <2>2. today \in BOOLEAN
    BY Zenon DEF Logs!Init
  <2> QED BY <2>1, <2>2, Zenon DEF Logs!TypeOK
<1>4. AllNamed /\ Logs!StoredIsKept /\ \A p \in Worker : LogInHand(p)
  BY <1>1, <1>2 DEF Logs!Init, AllNamed, Logs!StoredIsKept, LogInHand
<1> QED BY <1>3, <1>4 DEF LogsInv

\* A new file is the last one; the others stay what they are.
LEMMA LogsAppend ==
    ASSUME files \in Seq(SUBSET Upload), NEW x \in SUBSET Upload, files' = Append(files, x)
    PROVE  /\ files' \in Seq(SUBSET Upload)
           /\ DOMAIN files' = DOMAIN files \cup {Len(files) + 1}
           /\ Len(files) + 1 \notin DOMAIN files /\ Len(files) + 1 \in Nat
           /\ files'[Len(files) + 1] = x
           /\ \A i \in DOMAIN files : files'[i] = files[i]
OBVIOUS

\* Every step of the upload handlers keeps the invariant, another worker's too.
LEMMA LogsNext == ASSUME LogsInv, Logs!Next PROVE LogsInv'
<1> USE AssumptionOfLogs DEF Logs!LogsAssumption
<1>1. PICK p \in Worker :
          \/ \E x \in Upload : Logs!Open(p, x) \/ Logs!OpenFails(p, x) \/ Logs!LookForDirectory(p, x)
          \/ Logs!Write(p) \/ Logs!WriteFails(p) \/ Logs!Rename(p) \/ Logs!MakeDirectory(p)
          \/ Logs!Store(p) \/ Logs!Crash(p)
  BY DEF Logs!Next
<1>2. /\ files \in Seq(SUBSET Upload) /\ current \in DOMAIN files \cup {NULL}
      /\ DOMAIN files \subseteq Nat
  BY DEF LogsInv, Logs!TypeOK
<1>3. ASSUME NEW x \in Upload, Logs!Open(p, x) PROVE LogsInv'
  <2>1. PICK i : /\ Logs!Become(p, [pc |-> "write", what |-> x, file |-> i])
                 /\ \/ i = current /\ current # NULL /\ UNCHANGED <<files, current>>
                    \/ /\ current = NULL /\ current' = i /\ i = Len(files) + 1
                       /\ files' = Append(files, {})
    BY <1>3 DEF Logs!Open
  <2>2. /\ files' \in Seq(SUBSET Upload) /\ i \in DOMAIN files' /\ i \in Nat
        /\ \A j \in DOMAIN files : j \in DOMAIN files' /\ files'[j] = files[j]
        /\ DOMAIN files' = named \cup ({current'} \ {NULL}) /\ DOMAIN files \subseteq DOMAIN files'
    BY <1>2, <2>1, LogsAppend DEF LogsInv, AllNamed
  <2>3. Logs!TypeOK'
    BY <1>2, <1>3, <2>1, <2>2 DEF LogsInv, Logs!TypeOK, Logs!Open, Logs!Become
  <2>4. AllNamed' /\ Logs!StoredIsKept'
    BY <1>3, <2>2 DEF LogsInv, AllNamed, Logs!StoredIsKept, Logs!Open
  <2>5. \A q \in Worker : LogInHand(q)'
    BY <2>1, <2>2 DEF LogsInv, LogInHand, Logs!Become, Logs!TypeOK
  <2> QED BY <2>3, <2>4, <2>5 DEF LogsInv
<1>4. CASE Logs!Write(p)
  <2> DEFINE f == job[p].file
  <2>1. f \in DOMAIN files /\ job[p].what \in Upload
    BY <1>4 DEF LogsInv, LogInHand, Logs!Write, Logs!At
  <2>2. /\ files' \in Seq(SUBSET Upload) /\ DOMAIN files' = DOMAIN files
        /\ \A j \in DOMAIN files : files[j] \subseteq files'[j]
        /\ job[p].what \in files'[f]
    BY <1>2, <1>4, <2>1 DEF Logs!Write
  <2>3. Logs!TypeOK'
    BY <1>4, <2>2 DEF LogsInv, Logs!TypeOK, Logs!Write, Logs!Become
  <2>4. AllNamed' /\ Logs!StoredIsKept'
    BY <1>4, <2>2 DEF LogsInv, AllNamed, Logs!StoredIsKept, Logs!Write
  <2>5. \A q \in Worker : LogInHand(q)'
    BY <1>4, <2>1, <2>2 DEF LogsInv, LogInHand, Logs!Write, Logs!Become, Logs!TypeOK
  <2> QED BY <2>3, <2>4, <2>5 DEF LogsInv
<1>5. CASE Logs!Store(p)
  <2>1. job[p].what \in Upload
    BY <1>5 DEF LogsInv, LogInHand, Logs!Store, Logs!At
  <2>2. files' = Append(files, {job[p].what}) /\ named' = named \cup {Len(files) + 1}
    BY <1>5 DEF Logs!Store
  <2>3. /\ files' \in Seq(SUBSET Upload) /\ DOMAIN files' = DOMAIN files \cup {Len(files) + 1}
        /\ files'[Len(files) + 1] = {job[p].what}
        /\ \A j \in DOMAIN files : files'[j] = files[j]
    BY <1>2, <2>1, <2>2, LogsAppend
  <2>4. Logs!TypeOK'
    BY <1>5, <2>1, <2>2, <2>3
       DEF LogsInv, Logs!TypeOK, Logs!Store, Logs!Done, Logs!Become, Logs!Idle
  <2>5. AllNamed' /\ Logs!StoredIsKept'
    BY <1>2, <1>5, <2>2, <2>3 DEF LogsInv, AllNamed, Logs!StoredIsKept, Logs!Store
  <2>6. \A q \in Worker : LogInHand(q)'
    BY <1>5, <2>3
       DEF LogsInv, LogInHand, Logs!Store, Logs!Done, Logs!Become, Logs!Idle, Logs!TypeOK
  <2> QED BY <2>4, <2>5, <2>6 DEF LogsInv
<1>6. CASE Logs!Rename(p)
  <2>1. job[p].what \in Upload /\ job[p].file \in DOMAIN files /\ job[p].what \in files[job[p].file]
    BY <1>6 DEF LogsInv, LogInHand, Logs!Rename, Logs!At
  <2>2. /\ files' = files /\ named' \subseteq DOMAIN files /\ current' \in {current, NULL}
        /\ DOMAIN files = named' \cup ({current'} \ {NULL})
        /\ stored' = stored \cup {job[p].what}
    BY <1>6 DEF LogsInv, AllNamed, Logs!Rename
  <2>3. Logs!TypeOK'
    BY <1>6, <2>1, <2>2 DEF LogsInv, Logs!TypeOK, Logs!Rename, Logs!Done, Logs!Become, Logs!Idle
  <2>4. AllNamed' /\ Logs!StoredIsKept'
    BY <2>1, <2>2 DEF LogsInv, AllNamed, Logs!StoredIsKept
  <2>5. \A q \in Worker : LogInHand(q)'
    BY <1>6, <2>2
       DEF LogsInv, LogInHand, Logs!Rename, Logs!Done, Logs!Become, Logs!Idle, Logs!TypeOK
  <2> QED BY <2>3, <2>4, <2>5 DEF LogsInv
<1>7. CASE \E x \in Upload : Logs!OpenFails(p, x)
  BY <1>7 DEF LogsInv, Logs!TypeOK, AllNamed, LogInHand, Logs!StoredIsKept, Logs!OpenFails
<1>8. CASE \/ \E x \in Upload : Logs!LookForDirectory(p, x)
           \/ Logs!MakeDirectory(p) \/ Logs!Crash(p) \/ Logs!WriteFails(p)
  <2>1. UNCHANGED <<files, named, current, stored>>
    BY <1>8 DEF Logs!LookForDirectory, Logs!MakeDirectory, Logs!Crash, Logs!WriteFails
  <2>2. PICK j \in [pc : {"idle", "make", "store"}, what : Upload \cup {NULL}, file : DOMAIN files \cup {NULL}] :
            Logs!Become(p, j) /\ (j.pc # "idle" => j.what \in Upload)
    <3>1. CASE \E x \in Upload : Logs!LookForDirectory(p, x)
      BY <3>1 DEF Logs!LookForDirectory
    <3>2. CASE Logs!MakeDirectory(p) /\ ~today
      BY <3>2 DEF LogsInv, Logs!TypeOK, LogInHand, Logs!MakeDirectory, Logs!At
    <3>3. CASE Logs!Crash(p) \/ Logs!WriteFails(p) \/ (Logs!MakeDirectory(p) /\ today)
      BY <3>3 DEF Logs!MakeDirectory, Logs!Crash, Logs!WriteFails, Logs!Done, Logs!Idle
    <3> QED BY <1>8, <3>1, <3>2, <3>3
  <2>3. left' \subseteq Upload /\ today' \in BOOLEAN
    <3>1. CASE \E x \in Upload : Logs!LookForDirectory(p, x)
      BY <3>1 DEF LogsInv, Logs!TypeOK, Logs!LookForDirectory
    <3>2. CASE Logs!MakeDirectory(p)
      BY <3>2 DEF LogsInv, Logs!TypeOK, LogInHand, Logs!MakeDirectory, Logs!At
    <3>3. CASE Logs!Crash(p) \/ Logs!WriteFails(p)
      BY <3>3 DEF LogsInv, Logs!TypeOK, Logs!Crash, Logs!WriteFails
    <3> QED BY <1>8, <3>1, <3>2, <3>3
  <2>4. Logs!TypeOK'
    BY <2>1, <2>2, <2>3 DEF LogsInv, Logs!TypeOK, Logs!Become
  <2>5. AllNamed' /\ Logs!StoredIsKept'
    BY <2>1 DEF LogsInv, AllNamed, Logs!StoredIsKept
  <2>6. \A q \in Worker : LogInHand(q)'
    BY <2>1, <2>2 DEF LogsInv, LogInHand, Logs!Become, Logs!TypeOK
  <2> QED BY <2>4, <2>5, <2>6 DEF LogsInv
<1> QED BY <1>1, <1>3, <1>4, <1>5, <1>6, <1>7, <1>8

-----------------------------------------------------------------------------
(* Users.                                                                  *)

\* What a request has in hand is of the human it serves: the password it asks
\* for, the row it read and the phone it will save.  Something was saved only
\* for a request that can no longer be refused.
UserInHand(r) ==
    /\ r.pc \notin {"idle", "refused"} => r.user \in User /\ users[r.user] # NULL
    /\ r.ask.password # NULL => chooser[r.ask.password] = userHuman[r.user]
    /\ r.row.password # NULL => chooser[r.row.password] = userHuman[r.user]
    /\ r.phone # NULL => phoneHolder[r.phone] = userHuman[r.user]
    /\ r.saved => r.pc = "saveUser" \/ (r.pc = "saveProfile" /\ r.op = "edit")

PhonesOfUsers == \A u \in User : phone[u] # NULL => users[u] # NULL

UsersInv ==
    /\ Users!TypeOK /\ Users!OwnWays /\ PhonesOfUsers
    /\ \A p \in Worker : UserInHand(userReq[p])

\* A worker without a request holds nothing.
LEMMA UsersIdle ==
    /\ Users!Idle \in Users!Request /\ UserInHand(Users!Idle)
    /\ [Users!Idle EXCEPT !.pc = "refused"] \in Users!Request
    /\ UserInHand([Users!Idle EXCEPT !.pc = "refused"])
BY DEF Users!Idle, Users!Request, Users!Label, Users!Operation, Users!Asked, Users!Nothing,
       Users!Row, Users!Bare, UserInHand

\* No user has a phone or a password at the beginning.
LEMMA UsersInit == ASSUME Users!Init PROVE UsersInv
<1>1. Users!Bare \in Users!Row /\ Users!Bare.password = NULL
  BY DEF Users!Bare, Users!Row
<1>2. Users!TypeOK
  BY <1>1, UsersIdle DEF Users!Init, Users!TypeOK
<1>3. Users!OwnWays /\ PhonesOfUsers
  BY <1>1 DEF Users!Init, Users!OwnWays, PhonesOfUsers
<1>4. \A p \in Worker : UserInHand(userReq[p])
  BY UsersIdle DEF Users!Init
<1> QED BY <1>2, <1>3, <1>4 DEF UsersInv

\* A step that changes one request, and users that stay users, keeps the invariant if
\* it keeps it for that request and for the tables.
LEMMA UsersStep ==
    ASSUME UsersInv, NEW p \in Worker, NEW r \in Users!Request, Users!Become(p, r), UserInHand(r),
           users' \in [User -> Users!Row \cup {NULL}], phone' \in [User -> Phone \cup {NULL}],
           \A u \in User : users[u] # NULL => users'[u] # NULL,
           Users!OwnWays', PhonesOfUsers'
    PROVE  UsersInv'
<1>1. userReq' = [userReq EXCEPT ![p] = r] /\ userReq \in [Worker -> Users!Request]
  BY DEF UsersInv, Users!TypeOK, Users!Become
<1>2. Users!TypeOK'
  BY <1>1 DEF Users!TypeOK
<1>3. ASSUME NEW q \in Worker PROVE UserInHand(userReq[q])'
  <2>1. UserInHand(userReq'[q])
    BY <1>1 DEF UsersInv
  <2> QED BY <2>1 DEF UserInHand
<1> QED BY <1>2, <1>3 DEF UsersInv

\* The same for a step that leaves the tables alone.
LEMMA UsersMove ==
    ASSUME UsersInv, NEW p \in Worker, NEW r \in Users!Request, Users!Become(p, r), UserInHand(r),
           UNCHANGED <<users, phone>>
    PROVE  UsersInv'
<1>1. /\ users' \in [User -> Users!Row \cup {NULL}] /\ phone' \in [User -> Phone \cup {NULL}]
      /\ \A u \in User : users[u] # NULL => users'[u] # NULL
      /\ Users!OwnWays' /\ PhonesOfUsers'
  BY DEF UsersInv, Users!TypeOK, Users!OwnWays, PhonesOfUsers
<1> QED BY <1>1, UsersStep

\* A request ends, or is refused when it has saved nothing.
LEMMA UsersEnd ==
    ASSUME UsersInv, NEW p \in Worker, UNCHANGED <<users, phone>>,
           Users!Done(p) \/ (Users!Refuse(p) /\ ~userReq[p].saved)
    PROVE  UsersInv'
<1>1. CASE Users!Done(p)
  BY <1>1, UsersIdle, UsersMove DEF Users!Done
<1>2. CASE Users!Refuse(p) /\ ~userReq[p].saved
  <2>1. userReq[p].saved = FALSE
    BY <1>2 DEF UsersInv, Users!TypeOK, Users!Request
  <2>2. PICK r : /\ r = [Users!Idle EXCEPT !.pc = "refused", !.saved = userReq[p].saved]
                 /\ Users!Become(p, r)
    BY <1>2 DEF Users!Refuse
  <2>3. r = [Users!Idle EXCEPT !.pc = "refused", !.saved = FALSE]
    BY <2>1, <2>2, Zenon
  <2>4. r \in Users!Request /\ UserInHand(r)
    BY <2>3
       DEF Users!Idle, Users!Request, Users!Label, Users!Operation, Users!Asked, Users!Nothing,
           Users!Row, Users!Bare, UserInHand
  <2> QED BY <2>2, <2>4, UsersMove
<1> QED BY <1>1, <1>2

\* A request begins with what its human asks for.
LEMMA UsersBegin ==
    ASSUME UsersInv, NEW p \in Worker, NEW label \in {"user", "profile"},
           NEW op \in Users!Operation, NEW u \in User, users[u] # NULL, NEW ask \in Users!Asked,
           ask.password # NULL => chooser[ask.password] = userHuman[u],
           Users!Begin(p, label, op, u, ask)
    PROVE  UsersInv'
<1>1. PICK r : /\ r = [Users!Idle EXCEPT !.pc = label, !.op = op, !.user = u, !.ask = ask]
               /\ Users!Become(p, r) /\ UNCHANGED <<users, phone>>
  BY DEF Users!Begin
<1>2. r \in Users!Request /\ UserInHand(r)
  BY <1>1
     DEF Users!Idle, Users!Request, Users!Label, Users!Asked, Users!Nothing, Users!Row,
         Users!Bare, UserInHand
<1> QED BY <1>1, <1>2, UsersMove

\* What can be asked for: nothing, or one or two of a phone, a password and an e-mail.
LEMMA UsersAsks ==
    ASSUME NEW ph \in Phone \cup {NULL}, NEW s \in Secret \cup {NULL}, NEW e \in Email \cup {NULL}
    PROVE  /\ [Users!Nothing EXCEPT !.password = s] \in Users!Asked
           /\ [Users!Nothing EXCEPT !.password = s].password = s
           /\ [Users!Nothing EXCEPT !.phone = ph] \in Users!Asked
           /\ [Users!Nothing EXCEPT !.phone = ph].password = NULL
           /\ [Users!Nothing EXCEPT !.phone = ph, !.password = s] \in Users!Asked
           /\ [Users!Nothing EXCEPT !.phone = ph, !.password = s].password = s
           /\ [Users!Nothing EXCEPT !.email = e, !.password = s] \in Users!Asked
           /\ [Users!Nothing EXCEPT !.email = e, !.password = s].password = s
BY DEF Users!Nothing, Users!Asked

\* Every beginning keeps the invariant.  A password is reset for who holds the phone
\* of the user, and that phone is the user's own.
LEMMA UsersStart == ASSUME UsersInv, NEW p \in Worker, Users!Start(p) PROVE UsersInv'
<1>1. PICK u \in User, ph \in Phone \cup {NULL}, s \in Secret \cup {NULL} :
          \/ s # NULL /\ Users!ChangePassword(p, u, s)
          \/ Users!EditProfile(p, u, s)
          \/ Users!PutProfile(p, u, ph)
          \/ ph # NULL /\ Users!BindPhone(p, u, ph, s)
          \/ ph # NULL /\ s # NULL /\ Users!ResetPassword(p, u, ph, s)
          \/ \E e \in Email : Users!BindEmail(p, u, e, s)
  BY DEF Users!Start
<1>2. {"reset", "change", "edit", "put", "bind", "email"} = Users!Operation
  BY DEF Users!Operation
<1>3. CASE s # NULL /\ Users!ChangePassword(p, u, s)
  <2>1. /\ [Users!Nothing EXCEPT !.password = s] \in Users!Asked
        /\ [Users!Nothing EXCEPT !.password = s].password = s
    BY UsersAsks
  <2> QED BY <1>2, <1>3, <2>1, UsersBegin DEF Users!ChangePassword
<1>4. CASE Users!EditProfile(p, u, s)
  <2>1. /\ [Users!Nothing EXCEPT !.password = s] \in Users!Asked
        /\ [Users!Nothing EXCEPT !.password = s].password = s
    BY UsersAsks
  <2> QED BY <1>2, <1>4, <2>1, UsersBegin DEF Users!EditProfile
<1>5. CASE Users!PutProfile(p, u, ph)
  <2>1. /\ [Users!Nothing EXCEPT !.phone = ph] \in Users!Asked
        /\ [Users!Nothing EXCEPT !.phone = ph].password = NULL
    BY UsersAsks
  <2>2. "put" \in Users!Operation /\ "profile" \in {"user", "profile"} BY <1>2
  <2>3. users[u] # NULL /\ Users!Begin(p, "profile", "put", u, [Users!Nothing EXCEPT !.phone = ph])
    BY <1>5 DEF Users!PutProfile
  <2> QED BY <2>1, <2>2, <2>3, UsersBegin
<1>6. CASE ph # NULL /\ Users!BindPhone(p, u, ph, s)
  <2>1. /\ [Users!Nothing EXCEPT !.phone = ph, !.password = s] \in Users!Asked
        /\ [Users!Nothing EXCEPT !.phone = ph, !.password = s].password = s
    BY UsersAsks
  <2> QED BY <1>2, <1>6, <2>1, UsersBegin DEF Users!BindPhone
<1>7. CASE ph # NULL /\ s # NULL /\ Users!ResetPassword(p, u, ph, s)
  <2>1. phone[u] = ph /\ phoneHolder[ph] = chooser[s]
    BY <1>7 DEF Users!ResetPassword, Users!Proves
  <2>2. users[u] # NULL /\ chooser[s] = userHuman[u]
    BY <1>7, <2>1 DEF UsersInv, PhonesOfUsers, Users!OwnWays
  <2>3. /\ [Users!Nothing EXCEPT !.password = s] \in Users!Asked
        /\ [Users!Nothing EXCEPT !.password = s].password = s
    BY UsersAsks
  <2> QED BY <1>2, <1>7, <2>2, <2>3, UsersBegin DEF Users!ResetPassword
<1>8. ASSUME NEW e \in Email, Users!BindEmail(p, u, e, s) PROVE UsersInv'
  <2>1. /\ [Users!Nothing EXCEPT !.email = e, !.password = s] \in Users!Asked
        /\ [Users!Nothing EXCEPT !.email = e, !.password = s].password = s
    BY UsersAsks
  <2> QED BY <1>2, <1>8, <2>1, UsersBegin DEF Users!BindEmail
<1> QED BY <1>1, <1>3, <1>4, <1>5, <1>6, <1>7, <1>8

\* A registration makes a user of the human who chose the password and holds the phone.
LEMMA UsersEnvironment == ASSUME UsersInv, Users!Environment PROVE UsersInv'
<1>1. ASSUME NEW u \in User, users[u] = NULL, NEW r \in Users!Row,
             r.password # NULL => chooser[r.password] = userHuman[u],
             users' = [users EXCEPT ![u] = r], NEW ph \in Phone \cup {NULL},
             ph # NULL => phoneHolder[ph] = userHuman[u] /\ \A v \in User : phone[v] # ph,
             phone' = [phone EXCEPT ![u] = ph], userReq' = userReq
      PROVE  UsersInv'
  <2>1. r # NULL
    BY NoRowIsNull DEF Users!NullAssumption
  <2>2. Users!TypeOK'
    BY <1>1 DEF UsersInv, Users!TypeOK
  <2>3. Users!OwnWays' /\ PhonesOfUsers'
    BY <1>1, <2>1 DEF UsersInv, Users!TypeOK, Users!OwnWays, PhonesOfUsers
  <2>4. \A v \in User : users[v] # NULL => users'[v] # NULL
    BY <1>1, <2>1 DEF UsersInv, Users!TypeOK
  <2>5. \A q \in Worker : UserInHand(userReq[q])'
    BY <1>1, <2>4 DEF UsersInv, UserInHand
  <2> QED BY <2>2, <2>3, <2>5 DEF UsersInv
<1>2. ASSUME NEW u \in User, NEW s \in Secret, NEW ph \in Phone, Users!CreateUserWithPhone(u, ph, s)
      PROVE  UsersInv'
  <2>1. /\ [Users!Bare EXCEPT !.password = s] \in Users!Row
        /\ [Users!Bare EXCEPT !.password = s].password = s
    BY DEF Users!Bare, Users!Row
  <2>2. /\ phoneHolder[ph] = userHuman[u] /\ chooser[s] = userHuman[u]
        /\ \A v \in User : phone[v] # ph
    BY <1>2 DEF Users!CreateUserWithPhone, Users!Proves, Users!Range, UsersInv, Users!TypeOK
  <2> QED BY <1>1, <1>2, <2>1, <2>2 DEF Users!CreateUserWithPhone
<1>3. ASSUME NEW u \in User, NEW s \in Secret, NEW e \in Email \cup {NULL}, Users!CreateUser(u, e, s)
      PROVE  UsersInv'
  <2>1. [password |-> s, email |-> e] \in Users!Row
    BY DEF Users!Row
  <2>2. phone[u] = NULL
    BY <1>3 DEF UsersInv, PhonesOfUsers, Users!CreateUser
  <2>3. phone' = [phone EXCEPT ![u] = NULL]
    BY <1>3, <2>2 DEF UsersInv, Users!TypeOK, Users!CreateUser
  <2> QED BY <1>1, <1>3, <2>1, <2>3 DEF Users!CreateUser
<1> QED BY <1>2, <1>3 DEF Users!Environment

\* What is known of the request of a worker that is at work.
LEMMA UsersHand ==
    ASSUME UsersInv, NEW p \in Worker, NEW r, r = userReq[p], ~Users!At(p, "idle"), ~Users!At(p, "refused")
    PROVE  /\ r \in Users!Request /\ UserInHand(r) /\ r.user \in User
           /\ users[r.user] \in Users!Row /\ users[r.user] # NULL
           /\ r.ask \in Users!Asked /\ r.row \in Users!Row /\ phone[r.user] \in Phone \cup {NULL}
BY DEF UsersInv, Users!TypeOK, UserInHand, Users!At, Users!Request

\* The row that is read is the user's own.
LEMMA UsersReadUser == ASSUME UsersInv, NEW p \in Worker, Users!ReadUser(p) PROVE UsersInv'
<1>1. PICK r : r = userReq[p]
  OBVIOUS
<1>2. r.pc = "user" /\ UNCHANGED <<users, phone>>
  BY <1>1 DEF Users!ReadUser, Users!At
<1>3. /\ r \in Users!Request /\ UserInHand(r) /\ r.user \in User
      /\ users[r.user] \in Users!Row /\ users[r.user] # NULL
  BY <1>1, <1>2, UsersHand DEF Users!At
<1>4. ~r.saved
  BY <1>2, <1>3 DEF UserInHand
<1>5. CASE Users!Refuse(p)
  BY <1>1, <1>2, <1>4, <1>5, UsersEnd
<1>6. CASE ~Users!Refuse(p)
  <2>1. PICK w, label, t :
            /\ w \in {Users!Bare, users[r.user]} /\ label \in {"check", "saveProfile", "saveUser"}
            /\ t = [r EXCEPT !.row = w, !.pc = label] /\ Users!Become(p, t)
    BY <1>1, <1>6 DEF Users!ReadUser
  <2>2. w \in Users!Row /\ (w.password # NULL => chooser[w.password] = userHuman[r.user])
    BY <1>3, <2>1 DEF UsersInv, Users!OwnWays, Users!Bare, Users!Row
  <2>3. /\ t \in Users!Request /\ t.row = w /\ t.user = r.user /\ t.ask = r.ask
        /\ t.phone = r.phone /\ t.pc = label /\ t.saved = r.saved
    BY <1>3, <2>1, <2>2 DEF Users!Request, Users!Label
  <2>4. UserInHand(t)
    BY <1>3, <1>4, <2>2, <2>3 DEF UserInHand
  <2> QED BY <1>2, <2>1, <2>3, <2>4, UsersMove
<1> QED BY <1>5, <1>6

\* A request that passes its checks goes on as it is.
LEMMA UsersCheck ==
    ASSUME UsersInv, NEW p \in Worker, Users!CheckPhone(p) \/ Users!CheckEmail(p)
    PROVE  UsersInv'
<1>1. PICK r : r = userReq[p]
  OBVIOUS
<1>2. r.pc = "check" /\ UNCHANGED <<users, phone>>
  BY <1>1 DEF Users!CheckPhone, Users!CheckEmail, Users!At
<1>3. r \in Users!Request /\ UserInHand(r)
  BY <1>1, <1>2, UsersHand DEF Users!At
<1>4. ~r.saved
  BY <1>2, <1>3 DEF UserInHand
<1>5. CASE Users!Refuse(p)
  BY <1>1, <1>2, <1>4, <1>5, UsersEnd
<1>6. CASE ~Users!Refuse(p)
  <2>1. PICK label, t :
            label \in {"profile", "saveUser"} /\ t = [r EXCEPT !.pc = label] /\ Users!Become(p, t)
    BY <1>1, <1>6 DEF Users!CheckPhone, Users!CheckEmail
  <2>2. /\ t \in Users!Request /\ t.row = r.row /\ t.user = r.user /\ t.ask = r.ask
        /\ t.phone = r.phone /\ t.pc = label /\ t.saved = r.saved
    BY <1>3, <2>1 DEF Users!Request, Users!Label
  <2>3. UserInHand(t)
    BY <1>2, <1>3, <1>4, <2>1, <2>2 DEF UserInHand
  <2> QED BY <1>2, <2>1, <2>2, <2>3, UsersMove
<1> QED BY <1>5, <1>6

\* A phone is taken in hand only when the human holds it, or the user had it.
LEMMA UsersReadProfile == ASSUME UsersInv, NEW p \in Worker, Users!ReadProfile(p) PROVE UsersInv'
<1>1. PICK r : r = userReq[p]
  OBVIOUS
<1>2. r.pc = "profile" /\ UNCHANGED <<users, phone>>
  BY <1>1 DEF Users!ReadProfile, Users!At
<1>3. /\ r \in Users!Request /\ UserInHand(r) /\ r.user \in User
      /\ r.ask \in Users!Asked /\ phone[r.user] \in Phone \cup {NULL}
  BY <1>1, <1>2, UsersHand DEF Users!At
<1>4. ~r.saved
  BY <1>2, <1>3 DEF UserInHand
<1>5. CASE Users!Refuse(p)
  BY <1>1, <1>2, <1>4, <1>5, UsersEnd
<1>6. CASE ~Users!Refuse(p)
  <2>1. PICK label, t :
            /\ label \in {"user", "saveProfile"} /\ Users!AdmitsPhone(r)
            /\ t = [r EXCEPT !.phone = Users!NewPhone(r), !.pc = label] /\ Users!Become(p, t)
    BY <1>1, <1>6 DEF Users!ReadProfile
  <2>2. /\ Users!NewPhone(r) \in Phone \cup {NULL}
        /\ Users!NewPhone(r) # NULL => phoneHolder[Users!NewPhone(r)] = userHuman[r.user]
    BY <1>3, <2>1
       DEF Users!NewPhone, Users!AdmitsPhone, Users!Proves, UsersInv, Users!OwnWays, Users!Asked
  <2>3. /\ t \in Users!Request /\ t.row = r.row /\ t.user = r.user /\ t.ask = r.ask
        /\ t.phone = Users!NewPhone(r) /\ t.pc = label /\ t.saved = r.saved
    BY <1>3, <2>1, <2>2 DEF Users!Request, Users!Label
  <2>4. UserInHand(t)
    BY <1>2, <1>3, <1>4, <2>1, <2>2, <2>3 DEF UserInHand
  <2> QED BY <1>2, <2>1, <2>3, <2>4, UsersMove
<1> QED BY <1>5, <1>6

\* The profile is saved with a phone of its human, or not at all.
LEMMA UsersSaveProfile == ASSUME UsersInv, NEW p \in Worker, Users!SaveProfile(p) PROVE UsersInv'
<1>1. PICK r : r = userReq[p]
  OBVIOUS
<1>2. r.pc = "saveProfile" /\ users' = users
  BY <1>1 DEF Users!SaveProfile, Users!At
<1>3. r \in Users!Request /\ UserInHand(r) /\ r.user \in User /\ users[r.user] # NULL
  BY <1>1, <1>2, UsersHand DEF Users!At
<1>4. r.op # "edit" => ~r.saved
  BY <1>2, <1>3 DEF UserInHand
<1>5. CASE /\ phone' = phone
           /\ Users!Break(p) \/ Users!Done(p) \/ (Users!Refuse(p) /\ r.op # "edit")
  BY <1>1, <1>2, <1>4, <1>5, UsersEnd DEF Users!Break, Users!Done
<1>6. ASSUME NEW t \in Users!Request, Users!Become(p, t), UserInHand(t), ~Users!TakenPhone(r),
             phone' = [phone EXCEPT ![r.user] = r.phone]
      PROVE  UsersInv'
  <2>1. r.phone \in Phone \cup {NULL} /\ (r.phone # NULL => phoneHolder[r.phone] = userHuman[r.user])
    BY <1>3 DEF Users!Request, UserInHand
  <2>2. /\ users' \in [User -> Users!Row \cup {NULL}] /\ phone' \in [User -> Phone \cup {NULL}]
        /\ \A u \in User : users[u] # NULL => users'[u] # NULL
    BY <1>2, <1>6, <2>1 DEF UsersInv, Users!TypeOK
  <2>3. \A v \in User \ {r.user} : r.phone # NULL => phone[v] # r.phone
    BY <1>6 DEF Users!TakenPhone
  <2>4. PhonesOfUsers' /\ Users!OwnWays'
    BY <1>2, <1>3, <1>6, <2>1, <2>3 DEF UsersInv, Users!TypeOK, Users!OwnWays, PhonesOfUsers
  <2> QED BY <1>6, <2>2, <2>4, UsersStep
<1>7. CASE ~Users!TakenPhone(r) /\ phone' = [phone EXCEPT ![r.user] = r.phone] /\ Users!Done(p)
  BY <1>6, <1>7, UsersIdle DEF Users!Done
<1>8. ASSUME NEW t, t = [r EXCEPT !.pc = "saveUser", !.phone = NULL, !.saved = TRUE],
             Users!Become(p, t), ~Users!TakenPhone(r), phone' = [phone EXCEPT ![r.user] = r.phone]
      PROVE  UsersInv'
  <2>1. /\ t \in Users!Request /\ t.row = r.row /\ t.user = r.user /\ t.ask = r.ask
        /\ t.phone = NULL /\ t.pc = "saveUser"
    BY <1>3, <1>8 DEF Users!Request, Users!Label
  <2>2. UserInHand(t)
    BY <1>2, <1>3, <2>1 DEF UserInHand
  <2> QED BY <1>6, <1>8, <2>1, <2>2
<1> QED BY <1>1, <1>5, <1>7, <1>8 DEF Users!SaveProfile

\* The user is saved with a password that its human chose.
LEMMA UsersSaveUser == ASSUME UsersInv, NEW p \in Worker, Users!SaveUser(p) PROVE UsersInv'
<1>1. PICK r : r = userReq[p]
  OBVIOUS
<1>2. r.pc = "saveUser" /\ phone' = phone
  BY <1>1 DEF Users!SaveUser, Users!At
<1>3. /\ r \in Users!Request /\ UserInHand(r) /\ r.user \in User
      /\ users[r.user] # NULL /\ r.ask \in Users!Asked /\ r.row \in Users!Row
  BY <1>1, <1>2, UsersHand DEF Users!At
<1>4. PICK w : w = Users!Changed(r.row, r.ask) /\ users' = [users EXCEPT ![r.user] = w]
  BY <1>1 DEF Users!SaveUser
<1>5. w \in Users!Row /\ w # NULL /\ (w.password # NULL => chooser[w.password] = userHuman[r.user])
  <2>1. w \in Users!Row /\ (w.password # NULL => chooser[w.password] = userHuman[r.user])
    BY <1>3, <1>4 DEF Users!Changed, Users!Row, Users!Asked, UserInHand
  <2> QED BY <2>1, NoRowIsNull DEF Users!NullAssumption
<1>6. /\ users' \in [User -> Users!Row \cup {NULL}] /\ phone' \in [User -> Phone \cup {NULL}]
      /\ \A u \in User : users[u] # NULL => users'[u] # NULL
  BY <1>2, <1>3, <1>4, <1>5 DEF UsersInv, Users!TypeOK
<1>7. Users!OwnWays' /\ PhonesOfUsers'
  BY <1>2, <1>3, <1>4, <1>5 DEF UsersInv, Users!TypeOK, Users!OwnWays, PhonesOfUsers
<1>8. CASE Users!Done(p)
  BY <1>6, <1>7, <1>8, UsersIdle, UsersStep DEF Users!Done
<1>9. ASSUME NEW t, t = [r EXCEPT !.pc = "saveProfile", !.row = Users!Bare, !.saved = TRUE],
             Users!Become(p, t), r.op = "edit"
      PROVE  UsersInv'
  <2>1. Users!Bare \in Users!Row /\ Users!Bare.password = NULL
    BY DEF Users!Bare, Users!Row
  <2>2. /\ t \in Users!Request /\ t.row = Users!Bare /\ t.user = r.user /\ t.ask = r.ask
        /\ t.phone = r.phone /\ t.pc = "saveProfile" /\ t.op = "edit"
    BY <1>3, <1>9, <2>1 DEF Users!Request, Users!Label
  <2>3. UserInHand(t)
    BY <1>2, <1>3, <2>1, <2>2 DEF UserInHand
  <2> QED BY <1>6, <1>7, <1>9, <2>2, <2>3, UsersStep
<1> QED BY <1>1, <1>8, <1>9 DEF Users!SaveUser

\* So does every step of the handlers of users.
LEMMA UsersNext == ASSUME UsersInv, Users!Next PROVE UsersInv'
<1>1. ASSUME NEW p \in Worker, Users!AnswerError(p) \/ Users!Crash(p) PROVE UsersInv'
  BY <1>1, UsersEnd DEF Users!AnswerError, Users!Crash, Users!Break, Users!Done
<1>2. ASSUME NEW p \in Worker, Users!Step(p) PROVE UsersInv'
  BY <1>1, <1>2, UsersReadUser, UsersCheck, UsersReadProfile, UsersSaveProfile, UsersSaveUser
     DEF Users!Step
<1> QED BY <1>1, <1>2, UsersStart, UsersEnvironment DEF Users!Next

-----------------------------------------------------------------------------
(* Users who take turns.                                                   *)

\* What a request has in hand is what the tables hold, or what it asks for.
UpToDate(r) ==
    /\ r.pc = "user" => r.op \in {"bind", "email", "edit"} \/ r.ask.password # NULL
    /\ r.pc \in {"check", "saveUser"} \/ (r.pc \in {"profile", "saveProfile"} /\ r.op = "bind") =>
           r.row = users[r.user]
    /\ r.pc = "saveProfile" \/ (r.pc \in {"user", "saveUser"} /\ r.op = "edit") =>
           r.phone = phone[r.user] \/ (r.ask.phone # NULL /\ r.phone = r.ask.phone)

TurnsInv == alone => ~Overlap /\ \A p \in Worker : UpToDate(userReq[p])

\* A request at rest has nothing that could be out of date.
LEMMA TurnsRest ==
    ASSUME NEW p \in Worker, userReq \in [Worker -> Users!Request], Users!Done(p) \/ Users!Refuse(p)
    PROVE  UpToDate(userReq[p])'
<1>1. CASE Users!Done(p)
  <2>1. userReq'[p] = Users!Idle
    BY <1>1 DEF Users!Done, Users!Become
  <2>2. userReq'[p].pc = "idle"
    BY <2>1 DEF Users!Idle
  <2> QED BY <2>2 DEF UpToDate
<1>2. CASE Users!Refuse(p)
  <2>1. PICK b : userReq' = [userReq EXCEPT ![p] = [Users!Idle EXCEPT !.pc = "refused", !.saved = b]]
    BY <1>2 DEF Users!Refuse, Users!Become
  <2>2. userReq'[p] = [Users!Idle EXCEPT !.pc = "refused", !.saved = b]
    BY <2>1
  <2>3. userReq'[p].pc = "refused"
    BY <2>2 DEF Users!Idle
  <2> QED BY <2>3 DEF UpToDate
<1> QED BY <1>1, <1>2

\* Nor has one that begins: it has read nothing.
LEMMA TurnsStart ==
    ASSUME UsersInv, NEW p \in Worker, Users!Start(p)
    PROVE  UpToDate(userReq[p])' /\ UNCHANGED <<users, phone>>
<1> DEFINE Begins(label, op, u, ask) ==
               /\ Users!Begin(p, label, op, u, ask)
               /\ \/ label = "user" /\ op \in {"reset", "change", "bind", "email"}
                  \/ label = "profile" /\ op \in {"edit", "put"}
               /\ op \in {"reset", "change"} => ask.password # NULL
<1>1. PICK label, op, u, ask : Begins(label, op, u, ask)
  <2>1. PICK u \in User, ph \in Phone \cup {NULL}, s \in Secret \cup {NULL} :
            \/ s # NULL /\ Users!ChangePassword(p, u, s)
            \/ Users!EditProfile(p, u, s)
            \/ Users!PutProfile(p, u, ph)
            \/ ph # NULL /\ Users!BindPhone(p, u, ph, s)
            \/ ph # NULL /\ s # NULL /\ Users!ResetPassword(p, u, ph, s)
            \/ \E e \in Email : Users!BindEmail(p, u, e, s)
    BY DEF Users!Start
  <2>2. CASE s # NULL /\ Users!ChangePassword(p, u, s)
    <3>1. Begins("user", "change", u, [Users!Nothing EXCEPT !.password = s])
      BY <2>2, UsersAsks DEF Users!ChangePassword
    <3> QED BY <3>1
  <2>3. CASE Users!EditProfile(p, u, s)
    <3>1. Begins("profile", "edit", u, [Users!Nothing EXCEPT !.password = s])
      BY <2>3 DEF Users!EditProfile
    <3> QED BY <3>1
  <2>4. CASE Users!PutProfile(p, u, ph)
    <3>1. Begins("profile", "put", u, [Users!Nothing EXCEPT !.phone = ph])
      BY <2>4 DEF Users!PutProfile
    <3> QED BY <3>1
  <2>5. CASE Users!BindPhone(p, u, ph, s)
    <3>1. Begins("user", "bind", u, [Users!Nothing EXCEPT !.phone = ph, !.password = s])
      BY <2>5 DEF Users!BindPhone
    <3> QED BY <3>1
  <2>6. CASE s # NULL /\ Users!ResetPassword(p, u, ph, s)
    <3>1. Begins("user", "reset", u, [Users!Nothing EXCEPT !.password = s])
      BY <2>6, UsersAsks DEF Users!ResetPassword
    <3> QED BY <3>1
  <2>7. ASSUME NEW e \in Email, Users!BindEmail(p, u, e, s)
        PROVE  \E label, op, v, ask : Begins(label, op, v, ask)
    <3>1. Begins("user", "email", u, [Users!Nothing EXCEPT !.email = e, !.password = s])
      BY <2>7 DEF Users!BindEmail
    <3> QED BY <3>1
  <2> QED BY <2>1, <2>2, <2>3, <2>4, <2>5, <2>6, <2>7
<1>2. PICK r : /\ r = [Users!Idle EXCEPT !.pc = label, !.op = op, !.user = u, !.ask = ask]
               /\ userReq' = [userReq EXCEPT ![p] = r]
  BY <1>1 DEF Users!Begin, Users!Become
<1>3. r.pc = label /\ r.op = op /\ r.ask = ask /\ userReq'[p] = r
  BY <1>2 DEF Users!Idle, UsersInv, Users!TypeOK
<1> QED BY <1>1, <1>3 DEF UpToDate, Users!Begin

\* A row that is read is up to date.
LEMMA TurnsReads ==
    ASSUME UsersInv, NEW p \in Worker, UpToDate(userReq[p]),
           \/ Users!ReadUser(p) \/ Users!CheckPhone(p) \/ Users!CheckEmail(p) \/ Users!ReadProfile(p)
    PROVE  UpToDate(userReq[p])' /\ UNCHANGED <<users, phone>>
<1>1. PICK r : r = userReq[p]
  OBVIOUS
<1>2. UNCHANGED <<users, phone>> /\ userReq \in [Worker -> Users!Request]
  BY DEF Users!ReadUser, Users!CheckPhone, Users!CheckEmail, Users!ReadProfile, UsersInv,
         Users!TypeOK
<1>3. r \in Users!Request
  BY <1>1, <1>2
<1>4. CASE Users!Refuse(p)
  BY <1>2, <1>4, TurnsRest
<1>5. ASSUME ~Users!Refuse(p), Users!ReadUser(p) PROVE UpToDate(userReq[p])'
  <2>1. PICK w, label, t :
            /\ r.pc = "user" /\ t = [r EXCEPT !.row = w, !.pc = label] /\ Users!Become(p, t)
            /\ \/ label \in {"check", "saveUser"} /\ w = users[r.user]
               \/ label = "saveProfile" /\ r.op \notin {"bind", "email"}
            /\ label = "check" => r.op \in {"bind", "email"}
            /\ label = "saveProfile" => r.ask.password = NULL
    BY <1>1, <1>5 DEF Users!ReadUser, Users!At
  <2>2. label = "saveProfile" => r.op = "edit"
    BY <1>1, <2>1 DEF UpToDate
  <2>3. /\ t.row = w /\ t.user = r.user /\ t.pc = label /\ t.op = r.op /\ t.ask = r.ask
        /\ t.phone = r.phone /\ userReq'[p] = t
    BY <1>2, <1>3, <2>1 DEF Users!Request, Users!Become
  <2> QED BY <1>1, <1>2, <2>1, <2>2, <2>3 DEF UpToDate
<1>6. ASSUME ~Users!Refuse(p), Users!CheckPhone(p) \/ Users!CheckEmail(p)
      PROVE  UpToDate(userReq[p])'
  <2>1. ASSUME NEW label, r.pc = "check", Users!Become(p, [r EXCEPT !.pc = label]),
               \/ label = "profile" /\ r.op = "bind"
               \/ label = "saveUser" /\ r.op = "email"
        PROVE  UpToDate(userReq[p])'
    <3>1. PICK t : t = [r EXCEPT !.pc = label]
      OBVIOUS
    <3>2. t.row = r.row /\ t.user = r.user /\ t.pc = label /\ t.op = r.op /\ userReq'[p] = t
      BY <1>2, <1>3, <2>1, <3>1 DEF Users!Request, Users!Become
    <3> QED BY <1>1, <1>2, <2>1, <3>2 DEF UpToDate
  <2>2. CASE Users!CheckPhone(p)
    BY <1>1, <1>6, <2>1, <2>2 DEF Users!CheckPhone, Users!At
  <2>3. CASE Users!CheckEmail(p)
    BY <1>1, <1>6, <2>1, <2>3 DEF Users!CheckEmail, Users!At
  <2> QED BY <1>6, <2>2, <2>3
<1>7. ASSUME ~Users!Refuse(p), Users!ReadProfile(p) PROVE UpToDate(userReq[p])'
  <2>1. /\ r.pc = "profile"
        /\ Users!Become(p, [r EXCEPT !.phone = Users!NewPhone(r),
                                     !.pc = IF r.op = "edit" THEN "user" ELSE "saveProfile"])
    BY <1>1, <1>7 DEF Users!ReadProfile, Users!At
  <2>2. PICK label : label = IF r.op = "edit" THEN "user" ELSE "saveProfile"
    OBVIOUS
  <2>3. PICK t : t = [r EXCEPT !.phone = Users!NewPhone(r), !.pc = label] /\ Users!Become(p, t)
    BY <2>1, <2>2
  <2>4. /\ t.row = r.row /\ t.user = r.user /\ t.pc = label /\ t.op = r.op /\ t.ask = r.ask
        /\ t.phone = Users!NewPhone(r) /\ userReq'[p] = t
    BY <1>2, <1>3, <2>3 DEF Users!Request, Users!Become
  <2> QED BY <1>1, <1>2, <2>1, <2>2, <2>4 DEF UpToDate, Users!NewPhone
<1> QED BY <1>2, <1>4, <1>5, <1>6, <1>7

\* The profile is saved with the phone it had, or the one the request asks for.
LEMMA TurnsSaveProfile ==
    ASSUME UsersInv, NEW p \in Worker, UpToDate(userReq[p]), Users!SaveProfile(p)
    PROVE  UpToDate(userReq[p])' /\ \A u \in User : Users!ChangesAsked(u)
<1>1. PICK r : r = userReq[p]
  OBVIOUS
<1>2. r.pc = "saveProfile" /\ users' = users /\ userReq \in [Worker -> Users!Request]
  BY <1>1 DEF Users!SaveProfile, Users!At, UsersInv, Users!TypeOK
<1>3. r \in Users!Request /\ r.user \in User
  BY <1>1, <1>2, UsersHand DEF Users!At
<1>4. r.phone = phone[r.user] \/ (r.ask.phone # NULL /\ r.phone = r.ask.phone)
  BY <1>1, <1>2 DEF UpToDate
<1>5. phone' = phone \/ phone' = [phone EXCEPT ![r.user] = r.phone]
  BY <1>1 DEF Users!SaveProfile
<1>6. \A u \in User : phone'[u] # phone[u] => u = r.user /\ r.ask.phone # NULL /\ phone'[u] = r.ask.phone
  BY <1>3, <1>4, <1>5 DEF UsersInv, Users!TypeOK
<1>7. \A u \in User : Users!ChangesAsked(u)
  BY <1>1, <1>2, <1>6 DEF Users!ChangesAsked, Users!Asks
<1>8. CASE Users!Break(p) \/ Users!Done(p) \/ Users!Refuse(p)
  BY <1>2, <1>7, <1>8, TurnsRest DEF Users!Break, Users!Done
<1>9. ASSUME NEW t, t = [r EXCEPT !.pc = "saveUser", !.phone = NULL, !.saved = TRUE], r.op = "bind",
             Users!Become(p, t)
      PROVE  UpToDate(userReq[p])'
  <2>1. t.row = r.row /\ t.user = r.user /\ t.pc = "saveUser" /\ t.op = r.op /\ userReq'[p] = t
    BY <1>2, <1>3, <1>9 DEF Users!Request, Users!Become
  <2> QED BY <1>1, <1>2, <1>9, <2>1 DEF UpToDate
<1> QED BY <1>1, <1>7, <1>8, <1>9 DEF Users!SaveProfile

\* The user is saved with what his row holds, but for what the request asks for.
LEMMA TurnsSaveUser ==
    ASSUME UsersInv, NEW p \in Worker, UpToDate(userReq[p]), Users!SaveUser(p)
    PROVE  UpToDate(userReq[p])' /\ \A u \in User : Users!ChangesAsked(u)
<1>1. PICK r : r = userReq[p]
  OBVIOUS
<1>2. r.pc = "saveUser" /\ phone' = phone /\ userReq \in [Worker -> Users!Request]
  BY <1>1 DEF Users!SaveUser, Users!At, UsersInv, Users!TypeOK
<1>3. /\ r \in Users!Request /\ r.user \in User
      /\ r.ask \in Users!Asked /\ r.row \in Users!Row
  BY <1>1, <1>2, UsersHand DEF Users!At
<1>4. r.row = users[r.user]
  BY <1>1, <1>2 DEF UpToDate
<1>5. PICK w : w = Users!Changed(r.row, r.ask) /\ users' = [users EXCEPT ![r.user] = w]
  BY <1>1 DEF Users!SaveUser
<1>6. /\ w.password # r.row.password => r.ask.password # NULL /\ w.password = r.ask.password
      /\ w.email # r.row.email => r.ask.email # NULL /\ w.email = r.ask.email
  BY <1>5 DEF Users!Changed
<1>7. /\ users'[r.user] = w
      /\ \A u \in User : u # r.user => users'[u] = users[u]
  BY <1>3, <1>5 DEF UsersInv, Users!TypeOK
<1>8. \A u \in User, field \in {"password", "email"} :
          users'[u][field] # users[u][field] =>
              u = r.user /\ r.ask[field] # NULL /\ users'[u][field] = r.ask[field]
  BY <1>3, <1>4, <1>6, <1>7
<1>9. \A u \in User : Users!ChangesAsked(u)
  BY <1>1, <1>2, <1>8 DEF Users!ChangesAsked, Users!Asks
<1>10. CASE Users!Done(p)
  BY <1>2, <1>9, <1>10, TurnsRest
<1>11. ASSUME NEW t, t = [r EXCEPT !.pc = "saveProfile", !.row = Users!Bare, !.saved = TRUE],
              r.op = "edit", Users!Become(p, t)
       PROVE  UpToDate(userReq[p])'
  <2>1. /\ t.phone = r.phone /\ t.user = r.user /\ t.pc = "saveProfile" /\ t.op = r.op
        /\ t.ask = r.ask /\ userReq'[p] = t
    BY <1>2, <1>3, <1>11 DEF Users!Request, Users!Become
  <2> QED BY <1>1, <1>2, <1>11, <2>1 DEF UpToDate
<1> QED BY <1>1, <1>9, <1>10, <1>11 DEF Users!SaveUser

\* Tables that stay as they are change nothing, and a registration changes nobody.
LEMMA TurnsTables ==
    ASSUME UsersInv, UNCHANGED <<users, phone>> \/ Users!Environment
    PROVE  /\ \A u \in User : Users!ChangesAsked(u)
           /\ UNCHANGED userReq /\ (\A p \in Worker : UpToDate(userReq[p])) =>
                  \A p \in Worker : UpToDate(userReq[p])'
<1>1. \A u \in User : users[u] # NULL => users'[u] = users[u] /\ phone'[u] = phone[u]
  BY DEF Users!Environment, Users!CreateUserWithPhone, Users!CreateUser, UsersInv, Users!TypeOK
<1>2. \A u \in User : Users!ChangesAsked(u)
  BY <1>1 DEF Users!ChangesAsked
<1>3. ASSUME UNCHANGED userReq, NEW p \in Worker, UpToDate(userReq[p]) PROVE UpToDate(userReq[p])'
  <2>1. userReq[p].pc \notin {"idle", "refused"} =>
            /\ users'[userReq[p].user] = users[userReq[p].user]
            /\ phone'[userReq[p].user] = phone[userReq[p].user]
    BY <1>1 DEF UsersInv, UserInHand
  <2> QED BY <1>3, <2>1 DEF UpToDate
<1> QED BY <1>2, <1>3

\* A request is in hand before its step or after it.
LEMMA BusyOrBegins ==
    ASSUME UsersInv, NEW p \in Worker, Users!Start(p) \/ Users!Step(p) \/ Users!Crash(p)
    PROVE  ~Users!At(p, "idle") \/ ~Users!At(p, "idle")'
<1>1. ASSUME NEW op, NEW label \in {"user", "profile"}, NEW u, NEW ask,
             Users!Begin(p, label, op, u, ask)
      PROVE  ~Users!At(p, "idle")'
  <2>1. userReq'[p] = [Users!Idle EXCEPT !.pc = label, !.op = op, !.user = u, !.ask = ask]
    BY <1>1 DEF Users!Begin, Users!Become, UsersInv, Users!TypeOK
  <2>2. userReq'[p].pc = label
    BY <2>1 DEF Users!Idle
  <2> QED BY <2>2 DEF Users!At
<1>2. CASE Users!Start(p)
  <2>1. PICK u \in User, ph \in Phone \cup {NULL}, s \in Secret \cup {NULL} :
            \/ Users!ChangePassword(p, u, s) \/ Users!EditProfile(p, u, s)
            \/ Users!PutProfile(p, u, ph) \/ Users!BindPhone(p, u, ph, s)
            \/ Users!ResetPassword(p, u, ph, s) \/ \E e \in Email : Users!BindEmail(p, u, e, s)
    BY <1>2 DEF Users!Start
  <2> QED
    BY <2>1, <1>1 DEF Users!ChangePassword, Users!EditProfile, Users!PutProfile,
       Users!BindPhone, Users!ResetPassword, Users!BindEmail
<1>3. CASE Users!Step(p) \/ Users!Crash(p)
  BY <1>3 DEF Users!Step, Users!ReadUser, Users!CheckPhone, Users!CheckEmail, Users!ReadProfile,
     Users!SaveProfile, Users!SaveUser, Users!AnswerError, Users!Crash, Users!At
<1> QED BY <1>2, <1>3

\* A request writes no register but its own.
LEMMA StepIsOwn ==
    ASSUME UsersInv, NEW p \in Worker, Users!Start(p) \/ Users!Step(p) \/ Users!Crash(p)
    PROVE  \A q \in Worker : q # p => userReq'[q] = userReq[q]
<1> DEFINE Own == \A q \in Worker : q # p => userReq'[q] = userReq[q]
<1> SUFFICES Own OBVIOUS
<1> HIDE DEF Own
<1>1. ASSUME NEW r, Users!Become(p, r) PROVE Own
  BY <1>1 DEF Own, Users!Become, UsersInv, Users!TypeOK
<1>2. Users!Break(p) \/ Users!Done(p) \/ Users!Refuse(p) => Own
  BY <1>1 DEF Users!Break, Users!Done, Users!Refuse
<1>3. ASSUME NEW op, NEW label, NEW u, NEW ask, Users!Begin(p, label, op, u, ask) PROVE Own
  BY <1>3, <1>1 DEF Users!Begin
<1>4. CASE Users!Start(p)
  <2>1. PICK u \in User, ph \in Phone \cup {NULL}, s \in Secret \cup {NULL} :
            \/ Users!ChangePassword(p, u, s) \/ Users!EditProfile(p, u, s)
            \/ Users!PutProfile(p, u, ph) \/ Users!BindPhone(p, u, ph, s)
            \/ Users!ResetPassword(p, u, ph, s) \/ \E e \in Email : Users!BindEmail(p, u, e, s)
    BY <1>4 DEF Users!Start
  <2> QED
    BY <2>1, <1>3 DEF Users!ChangePassword, Users!EditProfile, Users!PutProfile,
       Users!BindPhone, Users!ResetPassword, Users!BindEmail
<1>5. CASE Users!ReadUser(p) BY <1>5, <1>1, <1>2 DEF Users!ReadUser
<1>6. CASE Users!CheckPhone(p) BY <1>6, <1>1, <1>2 DEF Users!CheckPhone
<1>7. CASE Users!CheckEmail(p) BY <1>7, <1>1, <1>2 DEF Users!CheckEmail
<1>8. CASE Users!ReadProfile(p) BY <1>8, <1>1, <1>2 DEF Users!ReadProfile
<1>9. CASE Users!SaveProfile(p) BY <1>9, <1>1, <1>2 DEF Users!SaveProfile
<1>10. CASE Users!SaveUser(p) BY <1>10, <1>1, <1>2 DEF Users!SaveUser
<1>11. CASE Users!AnswerError(p) \/ Users!Crash(p)
  BY <1>11, <1>2 DEF Users!AnswerError, Users!Crash
<1> QED
  BY <1>4, <1>5, <1>6, <1>7, <1>8, <1>9, <1>10, <1>11 DEF Users!Step

\* A step of a request, while the others rest.
LEMMA TurnsStep ==
    ASSUME UsersInv, NEW p \in Worker, UpToDate(userReq[p]),
           Users!Start(p) \/ Users!Step(p) \/ Users!Crash(p)
    PROVE  /\ UpToDate(userReq[p])' /\ \A u \in User : Users!ChangesAsked(u)
           /\ \A q \in Worker : q # p => userReq'[q] = userReq[q]
<1>1. \A q \in Worker : q # p => userReq'[q] = userReq[q]
  BY StepIsOwn
<1>2. CASE Users!Start(p)
  BY <1>1, <1>2, TurnsStart, TurnsTables
<1>3. CASE \/ Users!ReadUser(p) \/ Users!CheckPhone(p) \/ Users!CheckEmail(p) \/ Users!ReadProfile(p)
  BY <1>1, <1>3, TurnsReads, TurnsTables
<1>4. CASE Users!AnswerError(p) \/ Users!Crash(p)
  BY <1>1, <1>4, TurnsRest, TurnsTables
     DEF Users!AnswerError, Users!Crash, Users!Break, Users!Done, UsersInv, Users!TypeOK
<1>5. CASE Users!SaveProfile(p) \/ Users!SaveUser(p)
  BY <1>1, <1>5, TurnsSaveProfile, TurnsSaveUser
<1> QED BY <1>2, <1>3, <1>4, <1>5 DEF Users!Step

\* When requests take turns, each works on rows that are up to date, and changes what it
\* is asked to.
LEMMA TurnsNext ==
    ASSUME UsersInv, TurnsInv, alone, alone' = alone,
           (Users!Next /\ ~Overlap') \/ UNCHANGED userVars
    PROVE  TurnsInv' /\ \A u \in User : Users!ChangesAsked(u)
<1>1. ~Overlap /\ \A p \in Worker : UpToDate(userReq[p])
  BY DEF TurnsInv
<1>2. CASE UNCHANGED userVars
  BY <1>1, <1>2, TurnsTables DEF userVars, TurnsInv, Overlap, Users!At
<1>3. CASE Users!Environment /\ ~Overlap'
  BY <1>1, <1>3, TurnsTables
     DEF TurnsInv, Users!Environment, Users!CreateUserWithPhone, Users!CreateUser
<1>4. ASSUME NEW p \in Worker, Users!Start(p) \/ Users!Step(p) \/ Users!Crash(p), ~Overlap'
      PROVE  TurnsInv' /\ \A u \in User : Users!ChangesAsked(u)
  <2>1. /\ UpToDate(userReq[p])' /\ \A u \in User : Users!ChangesAsked(u)
        /\ \A q \in Worker : q # p => userReq'[q] = userReq[q]
    BY <1>1, <1>4, TurnsStep
  <2>2. ~Users!At(p, "idle") \/ ~Users!At(p, "idle")'
    BY <1>4, BusyOrBegins
  <2>3. ASSUME NEW q \in Worker, q # p PROVE UpToDate(userReq[q])'
    <3>1. userReq'[q].pc = "idle"
      BY <1>1, <1>4, <2>1, <2>2, <2>3 DEF Overlap, Users!At
    <3> QED BY <3>1 DEF UpToDate
  <2> QED BY <1>4, <2>1, <2>3 DEF TurnsInv
<1> QED BY <1>2, <1>3, <1>4 DEF Users!Next

-----------------------------------------------------------------------------
(* Accounts with one worker, at REPEATABLE READ.                           *)

\* Without the rows gone the user still has a way to log in.
Stays(u, gone) == u \in usable \/ Accounts!Of(rows, u) \ gone # {}

\* What the worker holds between two calls is still what the tables say: the snapshot is
\* the table, a new row has its place, and what was counted before a removal stays true.
AccountInHand(r) ==
    /\ r.view \in {NULL, rows}
    /\ r.pc \in {"create", "associate", "commit", "insert", "save"} => r.acct \in Account
    /\ r.pc \in {"create", "associate", "insert"} => last < MaxRow
    /\ r.pc \in {"associate", "commit"} => r.user \in AccountUser /\ human[r.user] = NULL
    /\ r.pc = "commit" => r.row \in Accounts!Ids /\ r.row = last /\ rows[r.row] = NULL
    /\ r.pc \in {"insert", "save", "userSave", "profileSave", "delete", "entries", "disconnect"}
           => r.user \in AccountUser /\ human[r.user] # NULL
    /\ r.pc = "insert" => Accounts!OfProvider(rows, r.user, provider[r.acct]) = {}
    /\ r.pc = "save" =>
           /\ r.row \in Accounts!Ids /\ rows[r.row] # NULL
           /\ rows[r.row].user = r.user /\ rows[r.row].acct = r.acct
    /\ r.pc \in {"userSave", "profileSave"} =>
           usable \cap {r.user} \subseteq r.usable /\ r.usable \subseteq {r.user}
    /\ r.pc = "delete" => Stays(r.user, Accounts!OfProvider(rows, r.user, r.prov))
    /\ r.pc = "entries" =>
           Stays(r.user, IF r.row = 0 THEN Accounts!OfProvider(rows, r.user, r.prov) ELSE {r.row})
    /\ r.pc = "disconnect" =>
           /\ Stays(r.user, r.ids) /\ r.ids \subseteq Accounts!Of(rows, r.user)
           /\ r.view = NULL

\* What the tables say by themselves: rows in order of their keys, of users who exist, one of
\* each provider; and everybody can log in.
Registry ==
    /\ \A i \in Accounts!Ids : rows[i] # NULL => i <= last /\ human[rows[i].user] # NULL
    /\ \A i, j \in Accounts!Ids :
           /\ rows[i] # NULL /\ rows[j] # NULL /\ rows[i].user = rows[j].user
           /\ provider[rows[i].acct] = provider[rows[j].acct]
           => i = j
    /\ \A u \in usable : human[u] # NULL
    /\ Accounts!KeepsALogin

AccountsRest == Registry /\ AccountInHand(socialReq[Only])

AccountsInv == Accounts!TypeOK /\ AccountsRest

\* With one worker there is one request; a step that gives it another one, does so.
LEMMA AccountsOnly ==
    ASSUME Accounts!TypeOK
    PROVE  /\ socialReq[Only] \in Accounts!Request
           /\ \A x \in Accounts!Request : Accounts!Become(Only, x) =>
                  socialReq'[Only] = x /\ socialReq' \in [{Only} -> Accounts!Request]
BY DEF Accounts!TypeOK, Accounts!Become

\* The answers are typed, and hold nothing.
LEMMA AccountsAnswers ==
    ASSUME NEW label \in {"ok", "failed", "kept"}, NEW x,
           x = [Accounts!Idle EXCEPT !.pc = label] \/ (label = "ok" /\ x = Accounts!Idle)
    PROVE  x \in Accounts!Request /\ x.pc = label /\ x.view = NULL /\ AccountInHand(x)
<1>1. Accounts!Idle \in Accounts!Request /\ Accounts!Idle.view = NULL /\ Accounts!Idle.pc = "ok"
  BY DEF Accounts!Idle, Accounts!Request, Accounts!Label, Accounts!Answer, Accounts!On
<1>2. ASSUME NEW i \in Accounts!Request, NEW y, y = [i EXCEPT !.pc = label]
      PROVE  y \in Accounts!Request /\ y.view = i.view /\ y.pc = label
  BY <1>2 DEF Accounts!Request, Accounts!Label, Accounts!Answer
<1>3. x \in Accounts!Request /\ x.view = NULL /\ x.pc = label
  BY <1>1, <1>2
<1> QED BY <1>3 DEF AccountInHand

\* A worker that ends a request takes up one of them.
LEMMA AccountsEnd ==
    ASSUME Accounts!Succeed(Only) \/ Accounts!Fail(Only) \/ Accounts!NotAllowedToDisconnect(Only)
    PROVE  \E x \in Accounts!Request :
               /\ Accounts!Become(Only, x) /\ AccountInHand(x) /\ x.view = NULL
               /\ x.pc \in {"ok", "failed", "kept"} /\ (Accounts!Fail(Only) => x.pc = "failed")
<1>1. CASE Accounts!Fail(Only)
  BY <1>1, AccountsAnswers DEF Accounts!Fail, Accounts!Failed
<1>2. CASE ~Accounts!Fail(Only)
  BY <1>2, AccountsAnswers DEF Accounts!Succeed, Accounts!NotAllowedToDisconnect
<1> QED BY <1>1, <1>2

\* A step that leaves the tables of users and accounts alone keeps the invariant if it takes
\* up a request that agrees with them.
LEMMA AccountsMove ==
    ASSUME AccountsInv, NEW x \in Accounts!Request, Accounts!Become(Only, x), AccountInHand(x),
           UNCHANGED <<human, usable, rows, last>>, contact' \in SUBSET AccountUser
    PROVE  AccountsInv'
<1>1. socialReq'[Only] = x /\ socialReq' \in [{Only} -> Accounts!Request]
  BY AccountsOnly DEF AccountsInv
<1>2. Accounts!TypeOK'
  BY <1>1 DEF AccountsInv, Accounts!TypeOK
<1>3. Registry'
  BY DEF AccountsInv, AccountsRest, Registry, Accounts!KeepsALogin, Accounts!Known, Accounts!Of,
     Accounts!Present, Accounts!Ids
<1>4. AccountInHand(socialReq[Only])'
  BY <1>1 DEF AccountInHand, Stays, Accounts!OfProvider, Accounts!Of, Accounts!Present,
     Accounts!Ids
<1> QED BY <1>2, <1>3, <1>4 DEF AccountsInv, AccountsRest

\* It does so if the request ends.
LEMMA AccountsMoveEnd ==
    ASSUME AccountsInv, UNCHANGED <<human, usable, rows, last>>,
           contact' \in SUBSET AccountUser,
           Accounts!Succeed(Only) \/ Accounts!Fail(Only) \/ Accounts!NotAllowedToDisconnect(Only)
    PROVE  AccountsInv'
BY AccountsEnd, AccountsMove

\* What the worker reads is the table, whatever snapshot it has.
LEMMA AccountsView == ASSUME AccountsInv PROVE Accounts!View(Only) = rows
BY DEF AccountsInv, AccountsRest, AccountInHand, Accounts!View

\* A request that begins: its snapshot is the table.
LEMMA AccountsNewRequest ==
    ASSUME AccountsInv
    PROVE  /\ Accounts!NewRequest \in Accounts!Request
           /\ Accounts!NewRequest.view \in {NULL, rows} /\ Accounts!NewRequest.row = 0
<1>1. Accounts!Snapshot = rows /\ rows \in Accounts!Table
  BY DEF Accounts!Snapshot, AccountsInv, Accounts!TypeOK
<1>2. Accounts!Idle \in Accounts!Request /\ Accounts!Idle.row = 0
  BY DEF Accounts!Idle, Accounts!Request, Accounts!Label, Accounts!Answer, Accounts!On
<1>3. ASSUME NEW i \in Accounts!Request, NEW y, y = [i EXCEPT !.view = rows]
      PROVE  y \in Accounts!Request /\ y.view = rows /\ y.row = i.row
  BY <1>1, <1>3 DEF Accounts!Request
<1> QED BY <1>1, <1>2, <1>3 DEF Accounts!NewRequest

\* An idle worker leaves room for the rows it may insert.
LEMMA AccountsRoom ==
    ASSUME AccountsInv, Accounts!Ready(Only), Accounts!Room
    PROVE  last < MaxRow
<1>1. Accounts!Busy = {}
  BY DEF Accounts!Busy
<1>2. Accounts!Cardinality(Accounts!Busy) = 0
  BY <1>1, FS_EmptySet DEF Accounts!Cardinality, Cardinality
<1>3. last \in Nat /\ MaxRow \in Nat
  BY AssumptionOfAccounts DEF AccountsInv, Accounts!TypeOK, Accounts!SocialAssumption
<1> QED BY <1>2, <1>3 DEF Accounts!Room

\* What a worker has in hand when it has logged somebody in.
LEMMA AccountsLoggedIn ==
    ASSUME NEW u \in AccountUser, NEW a \in Account, NEW way \in Accounts!On, NEW pw,
           Accounts!LoggedIn(Only, u, a, way, pw)
    PROVE  \E x \in Accounts!Request :
              /\ Accounts!Become(Only, x) /\ x.pc \in {"userSave", "loggedIn"}
              /\ x.view = NULL /\ x.user = u /\ x.usable = {u} \cap pw
<1>1. Accounts!AfterLogin(way) \in {"userSave", "loggedIn"}
  BY DEF Accounts!AfterLogin
<1>2. Accounts!Idle \in Accounts!Request /\ Accounts!Idle.view = NULL
  BY DEF Accounts!Idle, Accounts!Request, Accounts!Label, Accounts!Answer, Accounts!On
<1>3. {u} \cap pw \in SUBSET AccountUser
  OBVIOUS
<1> DEFINE n == Accounts!Idle
           S == {u} \cap pw
           l == Accounts!AfterLogin(way)
           x == [n EXCEPT !.pc = l, !.user = u, !.acct = a, !.on = way, !.usable = S]
<1>4. Accounts!Become(Only, x) /\ S = {u} \cap pw
  BY DEF Accounts!LoggedIn
<1>5. n \in Accounts!Request /\ n.view = NULL /\ l \in Accounts!Label
  BY <1>1, <1>2 DEF Accounts!Label
<1>6. l \in {"userSave", "loggedIn"} /\ S \in SUBSET AccountUser
  BY <1>1, <1>3
<1> HIDE DEF n, S, l
<1>7. x \in Accounts!Request
  BY <1>5, <1>6 DEF Accounts!Request
<1>8. x.pc = l /\ x.view = NULL /\ x.user = u /\ x.usable = S
  BY <1>5 DEF Accounts!Request
<1> HIDE DEF x
<1> QED BY <1>4, <1>6, <1>7, <1>8

\* Logging in: the user found is one who exists, with the password he has.
LEMMA AccountsLogin ==
    ASSUME AccountsInv, NEW a \in Account, NEW way \in Accounts!On, Accounts!Login(Only, a, way)
    PROVE  AccountsInv'
<1>1. /\ UNCHANGED <<human, usable, contact, rows, last>> /\ last < MaxRow
      /\ contact \in SUBSET AccountUser
  BY AccountsRoom DEF Accounts!Login, AccountsInv, Accounts!TypeOK
<1>2. ASSUME NEW i \in Accounts!Home(rows, a),
             Accounts!LoggedIn(Only, rows[i].user, a, way, usable)
      PROVE  AccountsInv'
  <2>1. i \in Accounts!Ids /\ rows[i] # NULL
    BY DEF Accounts!Home, Accounts!FirstKin, Accounts!Least, Accounts!Kin, Accounts!Social,
       Accounts!Present
  <2>2. rows[i].user \in AccountUser
    BY <2>1 DEF AccountsInv, Accounts!TypeOK, Accounts!Table, Accounts!Row
  <2>3. human[rows[i].user] # NULL
    BY <2>1 DEF AccountsInv, AccountsRest, Registry
  <2>4. PICK x \in Accounts!Request :
              /\ Accounts!Become(Only, x) /\ x.pc \in {"userSave", "loggedIn"}
              /\ x.view = NULL /\ x.user = rows[i].user /\ x.usable = {rows[i].user} \cap usable
    BY <1>2, <2>2, AccountsLoggedIn
  <2>5. AccountInHand(x)
    BY <2>2, <2>3, <2>4 DEF AccountInHand
  <2> QED BY <1>1, <2>4, <2>5, AccountsMove
<1>3. ASSUME Accounts!Become(Only, [Accounts!NewRequest EXCEPT !.pc = "create", !.acct = a,
                                                             !.on = way])
      PROVE  AccountsInv'
  <2> DEFINE n == Accounts!NewRequest
             x == [n EXCEPT !.pc = "create", !.acct = a, !.on = way]
  <2>1. n \in Accounts!Request /\ n.view \in {NULL, rows}
    BY AccountsNewRequest
  <2> HIDE DEF n
  <2>2. x \in Accounts!Request /\ x.pc = "create" /\ x.acct = a /\ x.view = n.view
    BY <2>1 DEF Accounts!Request, Accounts!Label
  <2>3. Accounts!Become(Only, x)
    BY <1>3 DEF n
  <2> HIDE DEF x
  <2>4. AccountInHand(x)
    BY <1>1, <2>1, <2>2 DEF AccountInHand
  <2> QED BY <1>1, <2>2, <2>3, <2>4, AccountsMove
<1> QED BY <1>2, <1>3 DEF Accounts!Login

\* Binding: the user has no account of that provider.
LEMMA AccountsBind ==
    ASSUME AccountsInv, NEW u \in AccountUser, NEW a \in Account, NEW way \in Accounts!On,
           Accounts!Bind(Only, u, a, way)
    PROVE  AccountsInv'
<1>1. /\ UNCHANGED <<human, usable, contact, rows, last>> /\ last < MaxRow
      /\ contact \in SUBSET AccountUser
  BY AccountsRoom DEF Accounts!Bind, AccountsInv, Accounts!TypeOK
<1>2. human[u] # NULL
  BY AssumptionOfAccounts DEF Accounts!Bind, Accounts!SocialAssumption
<1>3. CASE Accounts!OfProvider(rows, u, provider[a]) # {}
  BY <1>1, <1>3, AccountsMoveEnd DEF Accounts!Bind
<1>4. CASE Accounts!OfProvider(rows, u, provider[a]) = {}
  <2> DEFINE n == Accounts!NewRequest
             x == [n EXCEPT !.pc = "insert", !.user = u, !.acct = a, !.on = way]
  <2>1. n \in Accounts!Request /\ n.view \in {NULL, rows}
    BY AccountsNewRequest
  <2>2. Accounts!Become(Only, x)
    BY <1>4 DEF Accounts!Bind
  <2> HIDE DEF n
  <2>3. /\ x \in Accounts!Request /\ x.pc = "insert" /\ x.acct = a /\ x.user = u
        /\ x.view = n.view
    BY <2>1 DEF Accounts!Request, Accounts!Label
  <2> HIDE DEF x
  <2>4. AccountInHand(x)
    BY <1>1, <1>2, <1>4, <2>1, <2>3 DEF AccountInHand
  <2> QED BY <1>1, <2>2, <2>3, <2>4, AccountsMove
<1> QED BY <1>3, <1>4

\* A user with more than his only account has two, of different providers.
LEMMA AccountsTwo ==
    ASSUME AccountsInv, NEW u \in AccountUser, human[u] # NULL, ~Accounts!OnlyAccount(u),
           NEW k
    PROVE  Stays(u, Accounts!OfProvider(rows, u, k))
<1> DEFINE S == Accounts!Of(rows, u)
<1>1. CASE u \in usable
  BY <1>1 DEF Stays
<1>2. CASE u \notin usable
  <2>1. S # {}
    BY <1>2 DEF AccountsInv, AccountsRest, Registry, Accounts!KeepsALogin, Accounts!Known
  <2>2. PICK i \in S : TRUE
    BY <2>1
  <2>3. S # {i}
    <3>1. Accounts!Cardinality({i}) = 1
      BY FS_Singleton DEF Accounts!Cardinality, Cardinality
    <3> QED BY <1>2, <3>1 DEF Accounts!OnlyAccount
  <2>4. PICK j \in S : j # i
    BY <2>2, <2>3
  <2>5. ~(i \in Accounts!OfProvider(rows, u, k) /\ j \in Accounts!OfProvider(rows, u, k))
    BY <2>4 DEF Accounts!OfProvider, Accounts!Of, Accounts!Present, AccountsInv, AccountsRest,
       Registry
  <2> QED BY <2>2, <2>4, <2>5 DEF Stays
<1> QED BY <1>1, <1>2

\* Unbinding and disconnecting: what stays was counted.
LEMMA AccountsUnbind ==
    ASSUME AccountsInv, NEW u \in AccountUser, NEW k \in Provider,
           NEW i \in Accounts!Ids \cup {0},
           Accounts!Unbind(Only, u, k) \/ Accounts!Disconnect(Only, u, k, i)
    PROVE  AccountsInv'
<1>1. /\ UNCHANGED <<human, usable, contact, rows, last>> /\ human[u] # NULL
      /\ contact \in SUBSET AccountUser
  BY DEF Accounts!Unbind, Accounts!Disconnect, Accounts!Known, AccountsInv, Accounts!TypeOK
<1>2. CASE Accounts!NotAllowedToDisconnect(Only)
  BY <1>1, <1>2, AccountsMoveEnd
<1> DEFINE n == Accounts!NewRequest
           x == [n EXCEPT !.pc = "delete", !.user = u, !.prov = k]
           y == [n EXCEPT !.pc = "entries", !.user = u, !.prov = k, !.row = i]
<1>3. n \in Accounts!Request /\ n.view \in {NULL, rows}
  BY AccountsNewRequest
<1>4. \/ Accounts!NotAllowedToDisconnect(Only)
      \/ Accounts!Become(Only, x) /\ ~Accounts!OnlyAccount(u)
      \/ Accounts!Become(Only, y) /\ Accounts!Allowed(u, k, i)
  BY DEF Accounts!Unbind, Accounts!Disconnect
<1> HIDE DEF n
<1>5. i \in Nat
  BY AssumptionOfAccounts DEF Accounts!Ids, Accounts!SocialAssumption
<1>6. /\ x \in Accounts!Request /\ x.pc = "delete" /\ x.user = u /\ x.prov = k /\ x.view = n.view
  BY <1>3 DEF Accounts!Request, Accounts!Label
<1>7. /\ y \in Accounts!Request /\ y.pc = "entries" /\ y.user = u /\ y.prov = k /\ y.row = i
      /\ y.view = n.view
  BY <1>3, <1>5 DEF Accounts!Request, Accounts!Label
<1> HIDE DEF x, y
<1>8. CASE Accounts!Become(Only, x) /\ ~Accounts!OnlyAccount(u)
  <2>1. AccountInHand(x)
    BY <1>1, <1>3, <1>6, <1>8, AccountsTwo DEF AccountInHand
  <2> QED BY <1>1, <1>6, <1>8, <2>1, AccountsMove
<1>9. CASE Accounts!Become(Only, y) /\ Accounts!Allowed(u, k, i)
  <2>1. AccountInHand(y)
    BY <1>1, <1>3, <1>7, <1>9 DEF AccountInHand, Stays, Accounts!Allowed
  <2> QED BY <1>1, <1>7, <1>9, <2>1, AccountsMove
<1> QED BY <1>2, <1>4, <1>8, <1>9

\* Binding a phone: the password in hand is the user's, or one he sets.
LEMMA AccountsBindPhone ==
    ASSUME AccountsInv, NEW u \in AccountUser, NEW password \in BOOLEAN,
           Accounts!BindPhone(Only, u, password)
    PROVE  AccountsInv'
<1>1. /\ UNCHANGED <<human, usable, contact, rows, last>> /\ human[u] # NULL
      /\ contact \in SUBSET AccountUser /\ usable \in SUBSET AccountUser
  BY DEF Accounts!BindPhone, Accounts!Known, AccountsInv, Accounts!TypeOK
<1>2. CASE Accounts!Fail(Only)
  BY <1>1, <1>2, AccountsMoveEnd
<1>3. PICK S \in {{u}, {u} \cap usable} :
          \/ Accounts!Fail(Only)
          \/ Accounts!Become(Only, [Accounts!Idle EXCEPT !.pc = "profileSave", !.user = u,
                                                         !.usable = S])
  BY DEF Accounts!BindPhone, Accounts!Fail
<1>4. ASSUME NEW n \in Accounts!Request, n.view = NULL, NEW x,
             x = [n EXCEPT !.pc = "profileSave", !.user = u, !.usable = S],
             Accounts!Become(Only, x)
      PROVE  AccountsInv'
  <2>1. x \in Accounts!Request /\ x.pc = "profileSave" /\ x.user = u /\ x.usable = S
        /\ x.view = NULL
    BY <1>3, <1>4 DEF Accounts!Request, Accounts!Label
  <2>2. AccountInHand(x)
    BY <1>1, <1>3, <2>1 DEF AccountInHand
  <2> QED BY <1>1, <1>4, <2>1, <2>2, AccountsMove
<1>5. Accounts!Idle \in Accounts!Request /\ Accounts!Idle.view = NULL
  BY AccountsAnswers
<1> QED BY <1>2, <1>3, <1>4, <1>5

\* A new user is promised to the transaction; he has no row and no password.
LEMMA AccountsCreate ==
    ASSUME AccountsInv, NEW u \in AccountUser, Accounts!LoginCreate(Only, u)
    PROVE  AccountsInv'
<1> DEFINE r == socialReq[Only]
           x == [r EXCEPT !.pc = "associate", !.user = u]
<1>1. /\ UNCHANGED <<human, usable, contact, rows, last>> /\ human[u] = NULL
      /\ r.pc = "create" /\ Accounts!Become(Only, x) /\ contact \in SUBSET AccountUser
  BY DEF Accounts!LoginCreate, Accounts!At, AccountsInv, Accounts!TypeOK
<1>2. r \in Accounts!Request /\ AccountInHand(r)
  BY AccountsOnly DEF AccountsInv, AccountsRest
<1>3. /\ x \in Accounts!Request /\ x.pc = "associate" /\ x.user = u /\ x.acct = r.acct
      /\ x.view = r.view
  BY <1>2 DEF Accounts!Request, Accounts!Label
<1> HIDE DEF x
<1>4. AccountInHand(x)
  BY <1>1, <1>2, <1>3 DEF AccountInHand
<1> QED BY <1>1, <1>3, <1>4, AccountsMove

\* The row of an account that nobody has gets the next key. One that is taken is found by
\* the look-up, for the snapshot is the table, and the login fails.
LEMMA AccountsAssociate ==
    ASSUME AccountsInv, Accounts!LoginAssociate(Only)
    PROVE  AccountsInv'
<1> DEFINE r == socialReq[Only]
           x == [r EXCEPT !.pc = "commit", !.row = last + 1]
<1>1. /\ UNCHANGED <<human, usable, contact, rows>> /\ r.pc = "associate"
      /\ contact \in SUBSET AccountUser /\ last \in Nat /\ rows \in Accounts!Table
      /\ MaxRow \in Nat
  BY AssumptionOfAccounts DEF Accounts!LoginAssociate, Accounts!At, AccountsInv,
     Accounts!TypeOK, Accounts!SocialAssumption
<1>2. r \in Accounts!Request /\ AccountInHand(r) /\ Accounts!View(Only) = rows
  BY AccountsOnly, AccountsView DEF AccountsInv, AccountsRest
<1>3. CASE Accounts!Taken(r.acct)
  <2>1. Accounts!Fail(Only) /\ last' = last
    BY <1>2, <1>3 DEF Accounts!LoginAssociate, Accounts!Taken
  <2> QED BY <1>1, <2>1, AccountsMoveEnd
<1>4. CASE ~Accounts!Taken(r.acct)
  <2>1. last' = last + 1 /\ (Accounts!Fail(Only) \/ Accounts!Become(Only, x))
    BY <1>4 DEF Accounts!LoginAssociate
  <2>2. last < MaxRow /\ r.user \in AccountUser /\ human[r.user] = NULL /\ r.acct \in Account
    BY <1>1, <1>2 DEF AccountInHand
  <2>3. last + 1 \in Accounts!Ids /\ rows[last + 1] = NULL
    BY <1>1, <2>2 DEF AccountsInv, AccountsRest, Registry, Accounts!Ids
  <2> DEFINE k == last + 1
  <2>4. k \in Nat
    BY <1>1
  <2> HIDE DEF k
  <2>5. LET y == [r EXCEPT !.pc = "commit", !.row = k]
        IN  /\ y \in Accounts!Request /\ y.pc = "commit" /\ y.user = r.user
            /\ y.acct = r.acct /\ y.view = r.view /\ y.row = k
    BY <1>2, <2>4 DEF Accounts!Request, Accounts!Label
  <2>6. PICK y \in Accounts!Request :
            /\ Accounts!Become(Only, y)
            /\ \/ y.pc \in {"ok", "failed", "kept"} /\ y.view = NULL
               \/ /\ y.pc = "commit" /\ y.user = r.user /\ y.acct = r.acct
                  /\ y.view = r.view /\ y.row = last + 1
    <3>1. CASE Accounts!Fail(Only)
      BY <3>1, AccountsEnd
    <3>2. CASE Accounts!Become(Only, x)
      BY <2>5, <3>2 DEF k
    <3> QED BY <2>1, <3>1, <3>2
  <2>7. socialReq'[Only] = y /\ socialReq' \in [{Only} -> Accounts!Request]
    BY <2>6, AccountsOnly DEF AccountsInv
  <2>8. Accounts!TypeOK'
    BY <1>1, <2>1, <2>7 DEF AccountsInv, Accounts!TypeOK
  <2>9. Registry'
    <3>1. \A i \in Accounts!Ids : i <= last => i <= last'
      BY <1>1, <2>1 DEF Accounts!Ids
    <3> QED BY <1>1, <3>1 DEF AccountsInv, AccountsRest, Registry, Accounts!KeepsALogin,
        Accounts!Known, Accounts!Of, Accounts!Present, Accounts!Ids
  <2>10. AccountInHand(socialReq[Only])'
    BY <1>1, <1>2, <2>1, <2>2, <2>3, <2>6, <2>7 DEF AccountInHand
  <2> QED BY <2>8, <2>9, <2>10 DEF AccountsInv, AccountsRest
<1> QED BY <1>3, <1>4

\* The new user appears with his row, the only one of his.
LEMMA AccountsCommit ==
    ASSUME AccountsInv, Accounts!LoginCommit(Only)
    PROVE  AccountsInv' /\ usable' = usable
<1> DEFINE r == socialReq[Only]
           a == r.acct
           u == r.user
           n == [user |-> u, acct |-> a, on |-> r.on, union |-> Accounts!UnionSaved(a)]
<1>1. r \in Accounts!Request /\ AccountInHand(r) /\ r.pc = "commit"
  BY AccountsOnly DEF AccountsInv, AccountsRest, Accounts!LoginCommit, Accounts!At
<1>2. /\ u \in AccountUser /\ human[u] = NULL /\ a \in Account
      /\ r.row \in Accounts!Ids /\ r.row = last /\ rows[r.row] = NULL /\ r.on \in Accounts!On
  BY <1>1 DEF AccountInHand, Accounts!Request
<1>3. r.row # 0 /\ MaxRow \in Nat /\ accountHolder[a] \in Person /\ accountHolder[a] # NULL
  BY <1>2, AssumptionOfAccounts DEF Accounts!Ids, Accounts!SocialAssumption
<1>4. /\ human' = [human EXCEPT ![u] = accountHolder[a]] /\ rows' = [rows EXCEPT ![r.row] = n]
      /\ Accounts!LoggedIn(Only, u, a, r.on, {}) /\ UNCHANGED <<usable, contact, last>>
  BY <1>3 DEF Accounts!LoginCommit
<1>5. PICK x \in Accounts!Request :
          /\ Accounts!Become(Only, x) /\ x.pc \in {"userSave", "loggedIn"}
          /\ x.view = NULL /\ x.user = u /\ x.usable = {u} \cap {}
  <2>1. ASSUME NEW none, Accounts!LoggedIn(Only, u, a, r.on, none)
        PROVE  \E x \in Accounts!Request :
                   /\ Accounts!Become(Only, x) /\ x.pc \in {"userSave", "loggedIn"}
                   /\ x.view = NULL /\ x.user = u /\ x.usable = {u} \cap none
    <3> HIDE DEF a, u, n, r
    <3> QED BY <1>2, <2>1, AccountsLoggedIn
  <2> QED BY <1>4, <2>1
<1>6. socialReq'[Only] = x /\ socialReq' \in [{Only} -> Accounts!Request]
  BY <1>5, AccountsOnly DEF AccountsInv
<1>7. /\ human \in [AccountUser -> Person \cup {NULL}] /\ rows \in Accounts!Table
      /\ usable \in SUBSET AccountUser
  BY DEF AccountsInv, Accounts!TypeOK
<1>8. n \in Accounts!Row /\ n.user = u /\ n.acct = a /\ n # NULL
  <2>1. Accounts!UnionSaved(a) \in Accounts!Union \cup {NULL}
    BY <1>2 DEF Accounts!UnionSaved, Accounts!Union
  <2>2. n \in Accounts!Row
    BY <1>2, <2>1 DEF Accounts!Row
  <2> QED BY <2>2, NoAccountRowIsNull DEF Accounts!NullAssumption
<1> HIDE DEF n
<1>9. Accounts!TypeOK'
  BY <1>2, <1>3, <1>4, <1>6, <1>7, <1>8 DEF AccountsInv, Accounts!TypeOK, Accounts!Table
<1>10. /\ \A i \in Accounts!Ids : rows[i] # NULL =>
              i <= last /\ human[rows[i].user] # NULL /\ rows[i].user # u
       /\ \A v \in usable : human[v] # NULL /\ v # u
  BY <1>2 DEF AccountsInv, AccountsRest, Registry
<1>11. /\ rows'[r.row] = n /\ human'[u] # NULL
       /\ \A i \in Accounts!Ids : i # r.row => rows'[i] = rows[i]
       /\ \A v \in AccountUser : v # u => human'[v] = human[v]
       /\ \A i \in Accounts!Ids : rows[i] # NULL => rows[i].user \in AccountUser
  BY <1>2, <1>3, <1>4, <1>7 DEF Accounts!Table, Accounts!Row
<1>12. \A i \in Accounts!Ids : rows'[i] # NULL => i <= last' /\ human'[rows'[i].user] # NULL
  <2>1. last <= last
    BY DEF AccountsInv, Accounts!TypeOK
  <2> QED BY <1>2, <1>4, <1>8, <1>10, <1>11, <2>1
<1>13. ASSUME NEW i \in Accounts!Ids, NEW j \in Accounts!Ids, rows'[i] # NULL, rows'[j] # NULL,
              rows'[i].user = rows'[j].user,
              provider[rows'[i].acct] = provider[rows'[j].acct]
       PROVE  i = j
  BY <1>8, <1>10, <1>11, <1>13 DEF AccountsInv, AccountsRest, Registry
<1>14. Accounts!KeepsALogin'
  <2>1. ASSUME NEW v \in AccountUser, human'[v] # NULL, v \notin usable
        PROVE  Accounts!Of(rows', v) # {}
    <3>1. CASE v = u
      BY <1>2, <1>8, <1>11, <3>1 DEF Accounts!Of, Accounts!Present
    <3>2. CASE v # u
      <4>1. PICK i \in Accounts!Of(rows, v) : TRUE
        BY <1>11, <2>1, <3>2 DEF AccountsInv, AccountsRest, Registry, Accounts!KeepsALogin,
           Accounts!Known
      <4>2. i \in Accounts!Of(rows', v)
        BY <1>2, <1>11, <4>1 DEF Accounts!Of, Accounts!Present
      <4> QED BY <4>2
    <3> QED BY <3>1, <3>2
  <2> QED BY <1>4, <2>1 DEF Accounts!KeepsALogin, Accounts!Known, Accounts!Of,
      Accounts!Present, Accounts!Ids
<1>15. Registry'
  <2>1. \A v \in usable' : human'[v] # NULL
    BY <1>4, <1>7, <1>10, <1>11
  <2> QED BY <1>12, <1>13, <1>14, <2>1 DEF Registry, Accounts!Ids
<1>16. AccountInHand(socialReq[Only])'
  BY <1>2, <1>5, <1>6, <1>10, <1>11, <1>4 DEF AccountInHand
<1> QED BY <1>4, <1>9, <1>15, <1>16 DEF AccountsInv, AccountsRest

\* Saving the user writes back the password he has, or the one he set.
LEMMA AccountsSaveUser ==
    ASSUME AccountsInv, Accounts!SaveUser(Only)
    PROVE  AccountsInv'
<1> DEFINE r == socialReq[Only]
           u == r.user
<1>1. r \in Accounts!Request /\ AccountInHand(r) /\ r.pc = "userSave"
  BY AccountsOnly DEF AccountsInv, AccountsRest, Accounts!SaveUser, Accounts!At
<1>2. /\ usable' = (usable \ {u}) \cup r.usable
      /\ UNCHANGED <<human, contact, rows, last>>
  BY DEF Accounts!SaveUser
<1>3. /\ u \in AccountUser /\ human[u] # NULL /\ usable \cap {u} \subseteq r.usable
      /\ r.usable \subseteq {u} /\ r.view \in {NULL, rows}
  BY <1>1 DEF AccountInHand
<1>4. usable \subseteq usable' /\ usable' \subseteq usable \cup {u} /\ usable \subseteq AccountUser
  BY <1>2, <1>3 DEF AccountsInv, Accounts!TypeOK
<1>5. PICK x \in Accounts!Request :
          /\ Accounts!Become(Only, x) /\ x.view \in {NULL, rows}
          /\ x.pc \in {"ok", "failed", "kept", "loggedIn"}
  <2> DEFINE y == [r EXCEPT !.pc = "loggedIn"]
  <2>1. y \in Accounts!Request /\ y.pc = "loggedIn" /\ y.view = r.view
    BY <1>1 DEF Accounts!Request, Accounts!Label
  <2>2. Accounts!Succeed(Only) \/ Accounts!Become(Only, y)
    BY DEF Accounts!SaveUser, Accounts!Goto
  <2> HIDE DEF y
  <2>3. CASE Accounts!Succeed(Only)
    BY <2>3, AccountsEnd
  <2> QED BY <1>3, <2>1, <2>2, <2>3
<1>6. socialReq'[Only] = x /\ socialReq' \in [{Only} -> Accounts!Request]
  BY <1>5, AccountsOnly DEF AccountsInv
<1>7. Accounts!TypeOK'
  BY <1>2, <1>3, <1>4, <1>6 DEF AccountsInv, Accounts!TypeOK
<1>8. Registry'
  <2>1. \A v \in usable' : human'[v] # NULL
    BY <1>2, <1>3, <1>4 DEF AccountsInv, AccountsRest, Registry
  <2>2. Accounts!KeepsALogin'
    BY <1>2, <1>4 DEF AccountsInv, AccountsRest, Registry, Accounts!KeepsALogin,
       Accounts!Known, Accounts!Of, Accounts!Present, Accounts!Ids
  <2> QED BY <1>2, <2>1, <2>2 DEF AccountsInv, AccountsRest, Registry, Accounts!Ids
<1>9. AccountInHand(socialReq[Only])'
  BY <1>2, <1>5, <1>6 DEF AccountInHand
<1> QED BY <1>4, <1>7, <1>8, <1>9 DEF AccountsInv, AccountsRest

\* The steps that write no row of a user or an account.
LEMMA AccountsGoOn ==
    ASSUME AccountsInv,
           \/ Accounts!LoginAnswer(Only) \/ Accounts!Entries(Only)
           \/ Accounts!Disconnected(Only) \/ Accounts!SaveProfile(Only)
           \/ Accounts!Crash(Only)
    PROVE  AccountsInv'
<1> DEFINE r == socialReq[Only]
<1>1. /\ UNCHANGED <<human, usable, rows, last>> /\ contact \in SUBSET AccountUser
      /\ r \in Accounts!Request /\ AccountInHand(r) /\ Accounts!View(Only) = rows
  BY AccountsOnly, AccountsView DEF AccountsInv, AccountsRest, Accounts!TypeOK,
     Accounts!LoginAnswer, Accounts!Entries, Accounts!Disconnected, Accounts!SaveProfile,
     Accounts!Crash
<1>2. CASE Accounts!LoginAnswer(Only) \/ Accounts!Disconnected(Only) \/ Accounts!Crash(Only)
  BY <1>1, <1>2, AccountsMoveEnd DEF Accounts!LoginAnswer, Accounts!Disconnected, Accounts!Crash
<1>3. CASE Accounts!Entries(Only)
  <2> DEFINE all == Accounts!OfProvider(rows, r.user, r.prov)
             S == IF r.row = 0 THEN all ELSE all \cap {r.row}
             x == [r EXCEPT !.pc = "disconnect", !.view = NULL, !.ids = S]
  <2>1. /\ Accounts!Become(Only, x) /\ r.pc = "entries" /\ contact' = contact
    BY <1>1, <1>3 DEF Accounts!Entries, Accounts!At
  <2>2. /\ all \subseteq Accounts!Of(rows, r.user) /\ all \subseteq Accounts!Ids
        /\ Accounts!Ids \subseteq Nat
    BY AssumptionOfAccounts DEF Accounts!OfProvider, Accounts!Of, Accounts!Present,
       Accounts!Ids, Accounts!SocialAssumption
  <2>3. /\ r.user \in AccountUser /\ human[r.user] # NULL
        /\ Stays(r.user, IF r.row = 0 THEN all ELSE {r.row})
    BY <1>1, <2>1 DEF AccountInHand
  <2>4. Stays(r.user, S) /\ S \subseteq Accounts!Of(rows, r.user) /\ S \in SUBSET Nat
    BY <2>2, <2>3 DEF Stays
  <2> HIDE DEF S
  <2>5. /\ x \in Accounts!Request /\ x.pc = "disconnect" /\ x.view = NULL /\ x.ids = S
        /\ x.user = r.user
    BY <1>1, <2>4 DEF Accounts!Request, Accounts!Label
  <2> HIDE DEF x
  <2>6. AccountInHand(x)
    BY <2>3, <2>4, <2>5 DEF AccountInHand
  <2> QED BY <1>1, <2>1, <2>5, <2>6, AccountsMove
<1>4. CASE Accounts!SaveProfile(Only)
  <2> DEFINE x == [r EXCEPT !.pc = "userSave"]
  <2>1. /\ r.pc = "profileSave" /\ contact' \in {contact, contact \cup {r.user}}
        /\ Accounts!Become(Only, x) \/ Accounts!Fail(Only)
    BY <1>4 DEF Accounts!SaveProfile, Accounts!At, Accounts!Goto
  <2>2. /\ x \in Accounts!Request /\ x.pc = "userSave" /\ x.view = r.view /\ x.user = r.user
        /\ x.usable = r.usable
    BY <1>1 DEF Accounts!Request, Accounts!Label
  <2>3. r.user \in AccountUser
    BY <1>1, <2>1 DEF AccountInHand
  <2> HIDE DEF x
  <2>4. AccountInHand(x)
    BY <1>1, <2>1, <2>2 DEF AccountInHand
  <2> QED BY <1>1, <2>1, <2>2, <2>3, <2>4, AccountsMove, AccountsMoveEnd
<1> QED BY <1>2, <1>3, <1>4

\* A row of u's for account a is written: the only one of its provider.
LEMMA AccountsWrite ==
    ASSUME AccountsInv, NEW u \in AccountUser, NEW a \in Account, NEW i \in Accounts!Ids,
           NEW n \in Accounts!Row, n.user = u, n.acct = a, human[u] # NULL,
           rows' = [rows EXCEPT ![i] = n], UNCHANGED <<human, usable, contact>>,
           last' \in Nat, last' >= last, i <= last',
           \A j \in Accounts!OfProvider(rows, u, provider[a]) : j = i,
           rows[i] # NULL => rows[i].user = u,
           NEW x \in Accounts!Request, Accounts!Become(Only, x), x.view = NULL,
           \/ x.pc \in {"ok", "failed", "kept"}
           \/ x.pc = "save" /\ x.user = u /\ x.acct = a /\ x.row = i
    PROVE  AccountsInv'
<1>1. socialReq'[Only] = x /\ socialReq' \in [{Only} -> Accounts!Request]
  BY AccountsOnly DEF AccountsInv
<1>2. /\ rows \in Accounts!Table /\ last \in Nat /\ n # NULL
      /\ \A j \in Accounts!Ids : j \in Nat
  BY NoAccountRowIsNull, AssumptionOfAccounts DEF AccountsInv, Accounts!TypeOK,
     Accounts!NullAssumption, Accounts!Ids, Accounts!SocialAssumption
<1>3. rows'[i] = n /\ \A j \in Accounts!Ids : j # i => rows'[j] = rows[j]
  BY <1>2 DEF Accounts!Table
<1>4. Accounts!TypeOK'
  BY <1>1, <1>2 DEF AccountsInv, Accounts!TypeOK, Accounts!Table
<1>5. \A j \in Accounts!Ids : rows'[j] # NULL => j <= last' /\ human'[rows'[j].user] # NULL
  <2>1. \A j \in Accounts!Ids : rows[j] # NULL => j <= last /\ human[rows[j].user] # NULL
    BY DEF AccountsInv, AccountsRest, Registry
  <2>2. ASSUME NEW j \in Accounts!Ids, rows'[j] # NULL, j # i
        PROVE  j <= last' /\ human'[rows'[j].user] # NULL
    <3>1. rows'[j] = rows[j] /\ j <= last /\ human[rows[j].user] # NULL
      BY <1>3, <2>1, <2>2
    <3> QED BY <1>2, <3>1
  <2> QED BY <1>3, <2>2
<1>6. ASSUME NEW j \in Accounts!Ids, NEW k \in Accounts!Ids, rows'[j] # NULL, rows'[k] # NULL,
             rows'[j].user = rows'[k].user, provider[rows'[j].acct] = provider[rows'[k].acct]
      PROVE  j = k
  <2>1. \A m \in Accounts!Ids : rows[m] # NULL /\ rows[m].user = u
                                   /\ provider[rows[m].acct] = provider[a] => m = i
    BY DEF Accounts!OfProvider, Accounts!Of, Accounts!Present
  <2> QED BY <1>3, <1>6, <2>1 DEF AccountsInv, AccountsRest, Registry
<1>7. Accounts!KeepsALogin'
  <2>1. ASSUME NEW v \in AccountUser, Accounts!Of(rows, v) # {}
        PROVE  Accounts!Of(rows', v) # {}
    <3>1. PICK j \in Accounts!Of(rows, v) : TRUE
      BY <2>1
    <3>2. j \in Accounts!Of(rows', v)
      BY <1>2, <1>3 DEF Accounts!Of, Accounts!Present
    <3> QED BY <3>2
  <2>2. Accounts!KeepsALogin
    BY DEF AccountsInv, AccountsRest, Registry
  <2> QED BY <2>1, <2>2 DEF Accounts!KeepsALogin, Accounts!Known, Accounts!Of,
      Accounts!Present, Accounts!Ids
<1>8. Registry'
  BY <1>5, <1>6, <1>7 DEF AccountsInv, AccountsRest, Registry, Accounts!Ids
<1>9. AccountInHand(socialReq[Only])'
  BY <1>1, <1>2, <1>3 DEF AccountInHand, Accounts!Ids
<1> QED BY <1>4, <1>8, <1>9 DEF AccountsInv, AccountsRest

\* Inserting the row of a binding: a row that is there already is another user's, for this
\* one had none of the provider.
LEMMA AccountsInsert ==
    ASSUME AccountsInv, Accounts!BindInsert(Only)
    PROVE  AccountsInv'
<1> DEFINE r == socialReq[Only]
<1>1. /\ r \in Accounts!Request /\ AccountInHand(r) /\ r.pc = "insert"
      /\ Accounts!View(Only) = rows /\ UNCHANGED <<human, usable, contact>>
      /\ contact \in SUBSET AccountUser /\ rows \in Accounts!Table /\ last \in Nat
  BY AccountsOnly, AccountsView DEF AccountsInv, AccountsRest, Accounts!TypeOK,
     Accounts!BindInsert, Accounts!At
<1>2. /\ r.user \in AccountUser /\ human[r.user] # NULL /\ r.acct \in Account /\ last < MaxRow
      /\ Accounts!OfProvider(rows, r.user, provider[r.acct]) = {}
  BY <1>1 DEF AccountInHand
<1>3. CASE Accounts!Insert(Only)
  <2> DEFINE n == Accounts!Created(Only)
             k == last + 1
             x == [r EXCEPT !.pc = "save", !.row = k, !.view = NULL]
  <2>1. rows' = [rows EXCEPT ![k] = n] /\ last' = k /\ Accounts!Become(Only, x)
    BY <1>3 DEF Accounts!Insert
  <2>2. n \in Accounts!Row /\ n.user = r.user /\ n.acct = r.acct
    BY <1>2 DEF Accounts!Created, Accounts!Row, Accounts!On
  <2>3. k \in Accounts!Ids /\ k \in Nat /\ k >= last /\ k <= k
    BY <1>1, <1>2, AssumptionOfAccounts DEF Accounts!Ids, Accounts!SocialAssumption
  <2>4. rows[k] = NULL
    BY <1>1, <2>3 DEF AccountsInv, AccountsRest, Registry
  <2> HIDE DEF k, n
  <2>5. /\ x \in Accounts!Request /\ x.pc = "save" /\ x.view = NULL /\ x.row = k
        /\ x.user = r.user /\ x.acct = r.acct
    BY <1>1, <2>3 DEF Accounts!Request, Accounts!Label
  <2> HIDE DEF x, r
  <2> QED BY <1>1, <1>2, <2>1, <2>2, <2>3, <2>4, <2>5, AccountsWrite
<1>4. CASE Accounts!LookAgain(Only)
  <2>1. \A i \in Accounts!Social(rows, r.acct) : rows[i].user # r.user
    BY <1>2 DEF Accounts!Social, Accounts!OfProvider, Accounts!Of, Accounts!Present
  <2>2. Accounts!Social(rows, r.acct) # {}
    BY <1>4 DEF Accounts!LookAgain, Accounts!Taken
  <2>3. Accounts!Fail(Only) /\ UNCHANGED <<rows, last>>
    BY <1>1, <1>4, <2>1, <2>2 DEF Accounts!LookAgain
  <2> QED BY <1>1, <2>3, AccountsMoveEnd
<1> QED BY <1>3, <1>4 DEF Accounts!BindInsert

\* Completing the row, which is still there.
LEMMA AccountsComplete ==
    ASSUME AccountsInv, Accounts!BindSave(Only)
    PROVE  AccountsInv'
<1> DEFINE r == socialReq[Only]
           n == Accounts!Complete(Only)
<1>1. /\ r \in Accounts!Request /\ AccountInHand(r) /\ r.pc = "save"
      /\ UNCHANGED <<human, usable, contact, last>>
      /\ contact \in SUBSET AccountUser /\ rows \in Accounts!Table /\ last \in Nat
  BY AccountsOnly DEF AccountsInv, AccountsRest, Accounts!TypeOK, Accounts!BindSave, Accounts!At
<1>2. /\ r.user \in AccountUser /\ human[r.user] # NULL /\ r.acct \in Account
      /\ r.row \in Accounts!Ids /\ rows[r.row] # NULL /\ rows[r.row].user = r.user
      /\ rows[r.row].acct = r.acct
  BY <1>1 DEF AccountInHand
<1>3. CASE rows' = rows /\ Accounts!Fail(Only)
  BY <1>1, <1>3, AccountsMoveEnd
<1>4. CASE rows' = [rows EXCEPT ![r.row] = n] /\ Accounts!Succeed(Only)
  <2>1. n \in Accounts!Row /\ n.user = r.user /\ n.acct = r.acct
    <3>1. Accounts!UnionSaved(r.acct) \in Accounts!Union \cup {NULL} /\ r.on \in Accounts!On
      BY <1>1, <1>2 DEF Accounts!UnionSaved, Accounts!Union, Accounts!Request
    <3> DEFINE s == Accounts!UnionSaved(r.acct)
               w == r.on
    <3>2. n = [[user |-> r.user, acct |-> r.acct, on |-> "web", union |-> NULL]
                  EXCEPT !.on = w, !.union = s]
      BY DEF Accounts!Complete, Accounts!Created
    <3>3. w \in Accounts!On /\ s \in Accounts!Union \cup {NULL}
      BY <3>1
    <3> HIDE DEF n, s, w
    <3> QED BY <1>2, <3>2, <3>3 DEF Accounts!Row
  <2>2. \A j \in Accounts!OfProvider(rows, r.user, provider[r.acct]) : j = r.row
    BY <1>2 DEF Accounts!OfProvider, Accounts!Of, Accounts!Present, AccountsInv, AccountsRest,
       Registry
  <2>3. PICK x \in Accounts!Request :
          /\ Accounts!Become(Only, x) /\ x.view = NULL /\ x.pc \in {"ok", "failed", "kept"}
    BY <1>4, AccountsEnd
  <2>4. r.row <= last /\ last >= last
    BY <1>1, <1>2 DEF AccountsInv, AccountsRest, Registry
  <2> HIDE DEF n, r
  <2> QED BY <1>1, <1>2, <1>4, <2>1, <2>2, <2>3, <2>4, AccountsWrite
<1> QED BY <1>3, <1>4 DEF Accounts!BindSave

\* Rows of u's are removed; one that was counted stays.
LEMMA AccountsRemove ==
    ASSUME AccountsInv, NEW u \in AccountUser, NEW gone \in SUBSET Accounts!Of(rows, u),
           Stays(u, gone), human[u] # NULL,
           rows' = Accounts!Without(gone), UNCHANGED <<human, usable, contact, last>>,
           NEW x \in Accounts!Request, Accounts!Become(Only, x), x.view = NULL,
           \/ x.pc \in {"ok", "failed", "kept"}
           \/ /\ x.pc = "disconnect" /\ x.user = u /\ Stays(u, gone \cup x.ids)
              /\ x.ids \subseteq Accounts!Of(rows, u) \ gone
    PROVE  AccountsInv'
<1>1. socialReq'[Only] = x /\ socialReq' \in [{Only} -> Accounts!Request]
  BY AccountsOnly DEF AccountsInv
<1>2. rows \in Accounts!Table
  BY DEF AccountsInv, Accounts!TypeOK
<1>3. \A i \in Accounts!Ids : rows'[i] = IF i \in gone THEN NULL ELSE rows[i]
  BY DEF Accounts!Without
<1>4. rows' \in Accounts!Table
  BY <1>2 DEF Accounts!Without, Accounts!Table
<1>5. Accounts!TypeOK'
  BY <1>1, <1>4 DEF AccountsInv, Accounts!TypeOK
<1>6. \A v : Accounts!Of(rows', v) = Accounts!Of(rows, v) \ gone
  BY <1>3 DEF Accounts!Of, Accounts!Present
<1>7. \A v : v # u => gone \cap Accounts!Of(rows, v) = {}
  BY DEF Accounts!Of
<1>8. Accounts!KeepsALogin'
  <2>1. ASSUME NEW v \in AccountUser, human[v] # NULL, v \notin usable
        PROVE  Accounts!Of(rows', v) # {}
    <3>1. Accounts!Of(rows, v) # {}
      BY <2>1 DEF AccountsInv, AccountsRest, Registry, Accounts!KeepsALogin, Accounts!Known
    <3> QED BY <1>6, <1>7, <2>1, <3>1 DEF Stays
  <2> QED BY <2>1 DEF Accounts!KeepsALogin, Accounts!Known, Accounts!Of, Accounts!Present,
      Accounts!Ids
<1>9. Registry'
  BY <1>3, <1>8 DEF AccountsInv, AccountsRest, Registry, Accounts!Ids
<1>10. AccountInHand(socialReq[Only])'
  <2>1. CASE x.pc \in {"ok", "failed", "kept"}
    BY <1>1, <2>1 DEF AccountInHand
  <2>2. CASE x.pc = "disconnect"
    <3>1. x.ids \subseteq Accounts!Of(rows', u)
      BY <1>6, <2>2
    <3>2. u \in usable \/ Accounts!Of(rows', u) \ x.ids # {}
      BY <1>6, <2>2 DEF Stays
    <3>3. Accounts!Of(rows', u) = Accounts!Of(rows, u)'
      BY DEF Accounts!Of, Accounts!Present, Accounts!Ids
    <3>4. socialReq'[Only].user = u
      BY <1>1, <2>2
    <3> QED BY <1>1, <2>2, <3>1, <3>2, <3>3, <3>4 DEF AccountInHand, Stays, Accounts!Of,
        Accounts!Present, Accounts!Ids
  <2> QED BY <2>1, <2>2
<1> QED BY <1>5, <1>9, <1>10 DEF AccountsInv, AccountsRest

\* Deleting the rows of one provider, all at once or one after the other.
LEMMA AccountsDelete ==
    ASSUME AccountsInv, Accounts!Delete(Only) \/ Accounts!DisconnectEntry(Only)
    PROVE  AccountsInv'
<1> DEFINE r == socialReq[Only]
<1>1. /\ r \in Accounts!Request /\ AccountInHand(r) /\ Accounts!View(Only) = rows
      /\ UNCHANGED <<human, usable, contact, last>>
  BY AccountsOnly, AccountsView DEF AccountsInv, AccountsRest, Accounts!Delete,
     Accounts!DisconnectEntry
<1>2. CASE Accounts!Delete(Only)
  <2> DEFINE gone == Accounts!OfProvider(rows, r.user, r.prov)
  <2>1. r.pc = "delete" /\ rows' = Accounts!Without(gone) /\ Accounts!Succeed(Only)
    BY <1>1, <1>2 DEF Accounts!Delete, Accounts!At
  <2>2. /\ r.user \in AccountUser /\ human[r.user] # NULL /\ Stays(r.user, gone)
    BY <1>1, <2>1 DEF AccountInHand
  <2>3. gone \in SUBSET Accounts!Of(rows, r.user)
    BY DEF Accounts!OfProvider
  <2>4. PICK x \in Accounts!Request :
          /\ Accounts!Become(Only, x) /\ x.view = NULL /\ x.pc \in {"ok", "failed", "kept"}
    BY <2>1, AccountsEnd
  <2> HIDE DEF gone
  <2> QED BY <1>1, <2>1, <2>2, <2>3, <2>4, AccountsRemove
<1>3. CASE Accounts!DisconnectEntry(Only)
  <2>1. r.pc = "disconnect"
    BY <1>3 DEF Accounts!DisconnectEntry, Accounts!At
  <2>2. PICK i \in r.ids :
            /\ rows' = Accounts!Without({i})
            /\ Accounts!Become(Only, [r EXCEPT !.ids = r.ids \ {i}])
    BY <1>3 DEF Accounts!DisconnectEntry
  <2> DEFINE x == [r EXCEPT !.ids = r.ids \ {i}]
  <2>3. /\ r.user \in AccountUser /\ human[r.user] # NULL /\ Stays(r.user, r.ids)
        /\ r.ids \subseteq Accounts!Of(rows, r.user)
    BY <1>1, <2>1 DEF AccountInHand
  <2>4. /\ x \in Accounts!Request /\ x.pc = "disconnect" /\ x.user = r.user
        /\ x.ids = r.ids \ {i} /\ x.view = r.view
    BY <1>1, <2>1 DEF Accounts!Request
  <2>5. {i} \cup (r.ids \ {i}) = r.ids /\ {i} \in SUBSET Accounts!Of(rows, r.user)
    BY <2>3
  <2>6. Stays(r.user, {i})
    BY <2>3 DEF Stays
  <2>7. r.view = NULL
    BY <1>1, <2>1 DEF AccountInHand
  <2> DEFINE gone == {i}
  <2>8. /\ rows' = Accounts!Without(gone) /\ Accounts!Become(Only, x) /\ x.view = NULL
        /\ gone \in SUBSET Accounts!Of(rows, r.user) /\ Stays(r.user, gone)
        /\ Stays(r.user, gone \cup x.ids)
    BY <2>2, <2>3, <2>4, <2>5, <2>6, <2>7
  <2>9. x.ids \subseteq Accounts!Of(rows, r.user) \ gone
    BY <2>3, <2>4
  <2> HIDE DEF x, r, gone
  <2> QED BY <1>1, <2>3, <2>4, <2>8, <2>9, AccountsRemove
<1> QED BY <1>2, <1>3

\* Every step of the one worker keeps the invariant.
LEMMA AccountsNext == ASSUME AccountsInv, Accounts!Next PROVE AccountsInv'
<1>1. CASE Accounts!Start(Only)
  <2>1. 0 \in Accounts!Ids \cup {0}
    OBVIOUS
  <2> QED BY <1>1, <2>1, AccountsLogin, AccountsBind, AccountsUnbind, AccountsBindPhone
      DEF Accounts!Start
<1>2. CASE Accounts!Step(Only) \/ Accounts!Crash(Only)
  BY <1>2, AccountsCreate, AccountsAssociate, AccountsCommit, AccountsInsert, AccountsComplete,
     AccountsSaveUser, AccountsGoOn, AccountsDelete DEF Accounts!Step
<1> QED BY <1>1, <1>2 DEF Accounts!Next

\* At the start there is no row, and every user has a password.
LEMMA AccountsInit == ASSUME Accounts!Init PROVE AccountsInv
<1>1. /\ human = registered /\ usable = {u \in AccountUser : registered[u] # NULL}
      /\ contact = usable /\ last = 0 /\ rows = [i \in Accounts!Ids |-> NULL]
      /\ socialReq = [p \in {Only} |-> Accounts!Idle]
  BY DEF Accounts!Init
<1>2. Accounts!Idle \in Accounts!Request /\ AccountInHand(Accounts!Idle)
  BY AccountsAnswers
<1>3. Accounts!TypeOK
  BY <1>1, <1>2, AssumptionOfAccounts DEF Accounts!TypeOK, Accounts!Table,
     Accounts!SocialAssumption
<1>4. Registry
  BY <1>1 DEF Registry, Accounts!KeepsALogin, Accounts!Known
<1> QED BY <1>1, <1>2, <1>3, <1>4 DEF AccountsInv, AccountsRest

\* One account of a provider at most, as it is counted.
LEMMA AccountsCounted == ASSUME AccountsInv PROVE Accounts!OneAccountPerProvider
<1>1. ASSUME NEW u \in AccountUser, NEW k \in Provider
      PROVE  Accounts!Cardinality(Accounts!OfProvider(rows, u, k)) <= 1
  <2> DEFINE S == Accounts!OfProvider(rows, u, k)
  <2>1. \A i, j \in S : i = j
    BY DEF Accounts!OfProvider, Accounts!Of, Accounts!Present, AccountsInv, AccountsRest,
       Registry
  <2>2. CASE S = {}
    <3>1. Accounts!Cardinality(S) = 0
      BY <2>2, FS_EmptySet DEF Accounts!Cardinality, Cardinality
    <3> QED BY <3>1
  <2>3. CASE S # {}
    <3>1. PICK i \in S : S = {i}
      BY <2>1, <2>3
    <3>2. Accounts!Cardinality({i}) = 1
      BY FS_Singleton DEF Accounts!Cardinality, Cardinality
    <3> QED BY <3>1, <3>2
  <2> QED BY <2>2, <2>3
<1> QED BY <1>1 DEF Accounts!OneAccountPerProvider

-----------------------------------------------------------------------------
(* Codes with one worker.                                                  *)

\* What the worker holds between two calls is still what the tables say.
CodeInHand(r) ==
    /\ r.pc = "idle" => r = Codes!Idle
    /\ r.pc = "incrementSave" => r.fail = failures[r.phone] /\ r.fail.id # 0
    /\ r.pc = "clearDelete" => r.fail.id = failures[r.phone].id
    /\ r.pc = "new" => \A c \in Codes!Waiting(r.phone) : now > row[c].created + FREQUENTLY_TIME
    /\ r.pc = "checkSave" =>
           r.code \in Code /\ row[r.code].status = "wait" /\ r.verdict # "wait"
    /\ r.pc \in {"confirmList", "confirmSave"} => r.typed \in Code
    /\ r.token # NULL => ~Codes!TokenUsed(r.token)

\* A message of r for ph was admitted that is not counted yet.
Uncounted(r, ph) == r.pc \in {"incrementGet", "incrementSave"} /\ r.sending /\ r.phone = ph

\* Messages without captcha are counted, or one of them will be.
Counted(r, ph) ==
    /\ free[ph] <= MAX_FAILED
    /\ free[ph] <= failures[ph].count + (IF Uncounted(r, ph) THEN 1 ELSE 0)

\* What the tables say by themselves.
Tables ==
    /\ \A ph \in CodePhone : failures[ph].id = 0 => failures[ph].count = 0
    /\ \A c \in Code : row[c].created <= now
    /\ \A c \in Code : row[c].status = "absent" => row[c].token = NULL
    /\ \A c, d \in Code : c # d /\ row[c].token # NULL => row[c].token # row[d].token

CodesRest ==
    /\ Tables /\ Codes!WaitingCodesSpaced
    /\ CodeInHand(codeReq[Only]) /\ \A ph \in CodePhone : Counted(codeReq[Only], ph)

CodesInv == Codes!TypeOK /\ CodesRest

\* What a row that is not there reads as is typed like a row.
LEMMA CodesAbsentType == Codes!Absent \in Codes!Row
<1>1. Codes!Absent.phone \in CodePhone
  BY AssumptionOfCodes DEF Codes!Absent
<1>2. QED
  BY <1>1 DEF Codes!Absent, Codes!Row, Codes!Status, Codes!Token

\* So is the request of an idle process like a request.
LEMMA CodesIdleType == Codes!Idle \in Codes!Request
<1>1. Codes!Absent.phone \in CodePhone
  BY AssumptionOfCodes DEF Codes!Absent
<1>2. Codes!NoFailure \in Codes!Failure
  BY DEF Codes!NoFailure, Codes!Failure
<1>3. QED
  BY <1>1, <1>2 DEF Codes!Idle, Codes!Request, Codes!Label, Codes!Status

\* The requests stay typed when one changes.
LEMMA CodesBecomeType ==
    ASSUME Codes!TypeOK, NEW p, NEW r \in Codes!Request, Codes!Become(p, r)
    PROVE  codeReq' \in [Codes!Proc -> Codes!Request]
BY DEF Codes!TypeOK, Codes!Become

\* They do when one goes on to another label.
LEMMA CodesGotoType ==
    ASSUME Codes!TypeOK, NEW p \in Codes!Proc, NEW label \in Codes!Label, Codes!Goto(p, label)
    PROVE  codeReq' \in [Codes!Proc -> Codes!Request]
<1>1. [codeReq[p] EXCEPT !.pc = label] \in Codes!Request
  BY DEF Codes!TypeOK, Codes!Request
<1>2. QED
  BY <1>1, CodesBecomeType DEF Codes!Goto

\* They do when one ends.
LEMMA CodesDoneType ==
    ASSUME Codes!TypeOK, NEW p, Codes!Done(p)
    PROVE  codeReq' \in [Codes!Proc -> Codes!Request]
BY CodesBecomeType, CodesIdleType DEF Codes!Done

\* Saving a status keeps the rows typed.
LEMMA CodesSaveType ==
    ASSUME Codes!TypeOK, NEW c, NEW s \in Codes!Status, Codes!SaveStatus(c, s)
    PROVE  row' \in [Code -> Codes!Row]
<1>1. row \in [Code -> Codes!Row] /\ now \in Nat
  BY DEF Codes!TypeOK
<1> DEFINE saved == [row EXCEPT ![c] = [row[c] EXCEPT !.status = s]]
<1>2. row' = [saved EXCEPT ![c] = [saved[c] EXCEPT !.updated = now]]
  BY DEF Codes!SaveStatus
<1>3. saved \in [Code -> Codes!Row]
  BY <1>1 DEF Codes!Row
<1>4. \A y \in Codes!Row : [y EXCEPT !.updated = now] \in Codes!Row
  BY <1>1 DEF Codes!Row
<1> HIDE DEF saved
<1>5. c \in Code => [saved[c] EXCEPT !.updated = now] \in Codes!Row
  BY <1>3, <1>4
<1> DEFINE new == [saved[c] EXCEPT !.updated = now]
<1>6. row' = [saved EXCEPT ![c] = new] /\ (c \in Code => new \in Codes!Row)
  BY <1>2, <1>5
<1> HIDE DEF new
<1> QED BY <1>3, <1>6

\* Noting a proof keeps the proofs typed.
LEMMA CodesProofType ==
    ASSUME Codes!TypeOK, NEW p \in Codes!Proc, NEW c, Codes!RecordProof(p, c)
    PROVE  proof' \in [Code -> Codes!Proof \cup {NULL}]
<1>1. codeReq[p].clock \in Nat /\ codeReq[p].phone \in CodePhone /\ now \in Nat
  BY DEF Codes!TypeOK, Codes!Request
<1> QED BY <1>1 DEF Codes!TypeOK, Codes!RecordProof, Codes!Proof

\* Every step keeps the types.
LEMMA CodesTypeStep ==
    ASSUME Codes!TypeOK, Codes!Next
    PROVE  Codes!TypeOK'
<1> USE AssumptionOfCodes DEF Codes!SmsAssumption
<1>1. CASE UNCHANGED Codes!vars
  BY <1>1 DEF Codes!vars, Codes!TypeOK
<1>2. CASE Codes!Tick
  BY <1>2 DEF Codes!Tick, Codes!TypeOK
<1>3. ASSUME NEW p \in Codes!Proc PROVE codeReq[p] \in Codes!Request
  BY DEF Codes!TypeOK
<1>4. ASSUME NEW p \in {Only}, Codes!WebStart(p) PROVE Codes!TypeOK'
  <2>1. codeReq[p] \in Codes!Request
    BY <1>3 DEF Codes!Proc
  <2>2. CASE Codes!ShowImage(p)
    BY <2>2 DEF Codes!ShowImage, Codes!TypeOK, Codes!Proc
  <2>3. ASSUME NEW ph \in CodePhone, Codes!SendRefused(p, ph) PROVE Codes!TypeOK'
    BY <2>3 DEF Codes!SendRefused, Codes!Locked, Codes!TypeOK
  <2>4. ASSUME NEW ph \in CodePhone, Codes!SendAdmitted(p, ph) PROVE Codes!TypeOK'
    <3>1. [codeReq[p] EXCEPT !.pc = "incrementGet", !.phone = ph,
                         !.sending = TRUE] \in Codes!Request
      BY <2>1 DEF Codes!Request, Codes!Label
    <3>2. codeReq' \in [Codes!Proc -> Codes!Request]
      BY <2>4, <3>1, CodesBecomeType DEF Codes!SendAdmitted
    <3>3. free' \in [CodePhone -> Nat]
      BY <2>4 DEF Codes!SendAdmitted, Codes!Inc, Codes!TypeOK
    <3>4. session' \in [Codes!Proc -> {"none", "answer", "!"}]
      BY <2>4 DEF Codes!SendAdmitted, Codes!Locked, Codes!TypeOK
    <3>5. QED
      BY <2>4, <3>2, <3>3, <3>4 DEF Codes!SendAdmitted, Codes!TypeOK
  <2>5. ASSUME NEW ph \in CodePhone, NEW c \in Code, Codes!CheckExists(p, ph, c)
        PROVE  Codes!TypeOK'
    <3>1. [codeReq[p] EXCEPT
              !.pc = IF Codes!Waiting(ph) = {} THEN "incrementGet"
                     ELSE "checkList",
              !.phone = ph, !.typed = c, !.clock = now] \in Codes!Request
      BY <2>1 DEF Codes!Request, Codes!Label, Codes!TypeOK
    <3>2. codeReq' \in [Codes!Proc -> Codes!Request]
      BY <2>5, <3>1, CodesBecomeType DEF Codes!CheckExists
    <3>3. QED
      BY <2>5, <3>2 DEF Codes!CheckExists, Codes!TypeOK
  <2>6. QED
    BY <1>4, <2>2, <2>3, <2>4, <2>5 DEF Codes!WebStart
<1>5. ASSUME NEW p \in {Only}, Codes!ApiStart(p) PROVE Codes!TypeOK'
  <2>1. codeReq[p] \in Codes!Request
    BY <1>3 DEF Codes!Proc
  <2>2. ASSUME NEW t \in Codes!Token, Codes!ApiSend(p, t) PROVE Codes!TypeOK'
    <3>1. [codeReq[p] EXCEPT !.pc = "sendLook", !.phone = t[1], !.token = t,
                         !.sending = TRUE] \in Codes!Request
      BY <2>1 DEF Codes!Request, Codes!Label, Codes!Token
    <3>2. codeReq' \in [Codes!Proc -> Codes!Request]
      BY <2>2, <3>1, CodesBecomeType DEF Codes!ApiSend
    <3>3. QED
      BY <2>2, <3>2 DEF Codes!ApiSend, Codes!TypeOK
  <2>3. ASSUME NEW ph \in CodePhone, NEW c \in Code,
               Codes!Confirm(p, ph, c) \/ Codes!Grant(p, ph, c)
        PROVE  Codes!TypeOK'
    <3>1. /\ [codeReq[p] EXCEPT !.pc = "confirmList", !.phone = ph, !.typed = c, !.clock = now]
                \in Codes!Request
          /\ [codeReq[p] EXCEPT !.pc = "grantClock", !.phone = ph, !.typed = c] \in Codes!Request
      BY <2>1 DEF Codes!Request, Codes!Label, Codes!TypeOK
    <3>2. codeReq' \in [Codes!Proc -> Codes!Request]
      BY <2>3, <3>1, CodesBecomeType DEF Codes!Confirm, Codes!Grant
    <3>3. QED
      BY <2>3, <3>2 DEF Codes!Confirm, Codes!Grant, Codes!TypeOK
  <2>4. QED
    BY <1>5, <2>2, <2>3 DEF Codes!ApiStart
<1>6. ASSUME NEW p \in Codes!Proc, Codes!Continue(p) PROVE Codes!TypeOK'
  <2>1. codeReq[p] \in Codes!Request
    BY <1>3
  <2>2. /\ codeReq[p].phone \in CodePhone /\ codeReq[p].fail \in Codes!Failure
        /\ codeReq[p].verdict \in Codes!Status /\ Codes!NoFailure \in Codes!Failure
    BY <2>1 DEF Codes!Request, Codes!NoFailure, Codes!Failure
  <2>3. CASE Codes!IncrementGet(p)
    <3>1. ASSUME NEW f \in Codes!Failure
          PROVE [codeReq[p] EXCEPT !.pc = "incrementSave", !.fail = f]
                   \in Codes!Request
      BY <2>1 DEF Codes!Request, Codes!Label
    <3>2. CASE Codes!HasFailures(codeReq[p].phone)
      <4>1. failures[codeReq[p].phone] \in Codes!Failure
        BY <2>2 DEF Codes!TypeOK
      <4>2. codeReq' \in [Codes!Proc -> Codes!Request]
        BY <2>3, <3>1, <3>2, <4>1, CodesBecomeType DEF Codes!IncrementGet
      <4>3. QED
        BY <2>3, <3>2, <4>2 DEF Codes!IncrementGet, Codes!TypeOK
    <3>3. CASE ~Codes!HasFailures(codeReq[p].phone)
      <4>1. PICK id \in Nat :
               LET f == [Codes!NoFailure EXCEPT !.id = id] IN
               /\ failures' = [failures EXCEPT ![codeReq[p].phone] = f]
               /\ Codes!Become(p, [codeReq[p] EXCEPT !.pc = "incrementSave",
                                           !.fail = f])
        <5>1. \A id \in 1 .. (Codes!Cardinality(Codes!Proc) + 1) : id \in Nat
          OBVIOUS
        <5>2. QED
          BY <2>3, <3>3, <5>1 DEF Codes!IncrementGet
      <4>2. [Codes!NoFailure EXCEPT !.id = id] \in Codes!Failure
        BY DEF Codes!NoFailure, Codes!Failure
      <4>3. codeReq' \in [Codes!Proc -> Codes!Request]
        BY <3>1, <4>1, <4>2, CodesBecomeType
      <4>4. failures' \in [CodePhone -> Codes!Failure]
        BY <4>1, <4>2 DEF Codes!TypeOK
      <4>5. QED
        BY <2>3, <4>3, <4>4 DEF Codes!IncrementGet, Codes!TypeOK
    <3>4. QED
      BY <3>2, <3>3
  <2>4. CASE Codes!IncrementSave(p)
    <3> DEFINE n == Codes!Inc(codeReq[p].fail.count)
               rec == [id |-> codeReq[p].fail.id, count |-> n,
                       until |-> IF n >= MAX_FAILED
                                 THEN now + LOCKOUT_PERIOD
                                 ELSE codeReq[p].fail.until]
    <3>1. rec \in Codes!Failure
      BY <2>2 DEF Codes!Failure, Codes!Inc, Codes!TypeOK
    <3>2. failures' \in [CodePhone -> Codes!Failure]
      BY <2>4, <3>1 DEF Codes!IncrementSave, Codes!TypeOK
    <3>3. [codeReq[p] EXCEPT !.pc = "sendLook", !.fail = Codes!NoFailure] \in Codes!Request
      BY <2>1, <2>2 DEF Codes!Request, Codes!Label
    <3>4. codeReq' \in [Codes!Proc -> Codes!Request]
      BY <2>4, <3>3, CodesBecomeType, CodesDoneType DEF Codes!IncrementSave
    <3>5. QED
      BY <2>4, <3>2, <3>4 DEF Codes!IncrementSave, Codes!TypeOK
  <2>5. CASE Codes!ClearGet(p)
    <3>1. failures[codeReq[p].phone] \in Codes!Failure
      BY <2>2 DEF Codes!TypeOK
    <3>2. [codeReq[p] EXCEPT !.pc = "clearDelete",
                         !.fail = failures[codeReq[p].phone]] \in Codes!Request
      BY <2>1, <3>1 DEF Codes!Request, Codes!Label
    <3>3. codeReq' \in [Codes!Proc -> Codes!Request]
      BY <2>5, <3>2, CodesBecomeType, CodesDoneType DEF Codes!ClearGet
    <3>4. QED
      BY <2>5, <3>3 DEF Codes!ClearGet, Codes!TypeOK
  <2>6. CASE Codes!ClearDelete(p)
    BY <2>2, <2>6, CodesDoneType DEF Codes!ClearDelete, Codes!TypeOK
  <2>7. CASE Codes!SendLook(p)
    <3>1. codeReq' \in [Codes!Proc -> Codes!Request]
      BY <2>7, CodesGotoType DEF Codes!SendLook, Codes!Label
    <3>2. QED
      BY <2>7, <3>1 DEF Codes!SendLook, Codes!TypeOK
  <2>8. CASE Codes!SendAge(p)
    <3>1. codeReq' \in [Codes!Proc -> Codes!Request]
      BY <2>8, CodesGotoType, CodesDoneType DEF Codes!SendAge, Codes!Label
    <3>2. QED
      BY <2>8, <3>1 DEF Codes!SendAge, Codes!TypeOK
  <2>9. CASE Codes!New(p)
    <3>1. Codes!NewRow(p) \in Codes!Row
      BY <2>1 DEF Codes!NewRow, Codes!Row, Codes!Status, Codes!Request, Codes!TypeOK
    <3>2. row' \in [Code -> Codes!Row]
      BY <2>9, <3>1 DEF Codes!New, Codes!Insert, Codes!TypeOK
    <3>3. QED
      BY <2>9, <3>2, CodesDoneType DEF Codes!New, Codes!TypeOK
  <2>10. CASE Codes!CheckList(p)
    <3>1. \A S \in SUBSET Code :
             [codeReq[p] EXCEPT !.pc = "expireOlder", !.older = S] \in Codes!Request
      BY <2>1 DEF Codes!Request, Codes!Label
    <3>2. \A c : Codes!Waiting(codeReq[p].phone) \ {c} \in SUBSET Code
      BY DEF Codes!Waiting
    <3>3. codeReq' \in [Codes!Proc -> Codes!Request]
      BY <2>10, <3>1, <3>2, CodesBecomeType, CodesGotoType DEF Codes!CheckList, Codes!Label
    <3>4. QED
      BY <2>10, <3>3 DEF Codes!CheckList, Codes!TypeOK
  <2>11. CASE Codes!ExpireOlder(p)
    <3>1. PICK c \in Codes!Newest(codeReq[p].older) :
              /\ Codes!SaveStatus(c, "outOfDate")
              /\ Codes!Become(p, [codeReq[p] EXCEPT !.older = @ \ {c}])
      BY <2>11 DEF Codes!ExpireOlder
    <3>2. row' \in [Code -> Codes!Row]
      BY <3>1, CodesSaveType DEF Codes!Status
    <3>3. [codeReq[p] EXCEPT !.older = @ \ {c}] \in Codes!Request
      BY <2>1 DEF Codes!Request
    <3>4. codeReq' \in [Codes!Proc -> Codes!Request]
      BY <3>1, <3>3, CodesBecomeType
    <3>5. QED
      BY <2>11, <3>2, <3>4 DEF Codes!ExpireOlder, Codes!TypeOK
  <2>12. CASE Codes!CheckNewest(p)
    <3>1. ASSUME NEW c \in Codes!Newest(Codes!Waiting(codeReq[p].phone))
          PROVE  [codeReq[p] EXCEPT
                     !.pc = "checkSave", !.code = c,
                     !.verdict = Codes!Verdict(c, codeReq[p].typed)] \in Codes!Request
      <4>1. c \in Code
        BY DEF Codes!Newest, Codes!Waiting
      <4>2. Codes!Verdict(c, codeReq[p].typed) \in Codes!Status
        BY DEF Codes!Verdict, Codes!Status
      <4>3. QED
        BY <2>1, <4>1, <4>2 DEF Codes!Request, Codes!Label
    <3>2. codeReq' \in [Codes!Proc -> Codes!Request]
      BY <2>12, <3>1, CodesBecomeType, CodesDoneType DEF Codes!CheckNewest
    <3>3. QED
      BY <2>12, <3>2 DEF Codes!CheckNewest, Codes!TypeOK
  <2>13. CASE Codes!CheckSave(p)
    <3>1. row' \in [Code -> Codes!Row]
      BY <2>2, <2>13, CodesSaveType DEF Codes!CheckSave
    <3>2. proof' \in [Code -> Codes!Proof \cup {NULL}]
      BY <2>2, <2>13, CodesProofType DEF Codes!CheckSave, Codes!TypeOK
    <3>3. [Codes!Idle EXCEPT
              !.pc = IF codeReq[p].verdict = "success" THEN "clearGet"
                     ELSE "incrementGet",
              !.phone = codeReq[p].phone] \in Codes!Request
      BY <2>2, CodesIdleType DEF Codes!Request, Codes!Label
    <3>4. codeReq' \in [Codes!Proc -> Codes!Request]
      BY <2>13, <3>3, CodesBecomeType DEF Codes!CheckSave
    <3>5. QED
      BY <2>13, <3>1, <3>2, <3>4 DEF Codes!CheckSave, Codes!TypeOK
  <2>14. CASE Codes!ConfirmSave(p)
    <3>1. row' \in [Code -> Codes!Row]
      BY <2>14, CodesSaveType DEF Codes!ConfirmSave, Codes!Status
    <3>2. proof' \in [Code -> Codes!Proof \cup {NULL}]
      BY <2>2, <2>14, CodesProofType DEF Codes!ConfirmSave
    <3>3. QED
      BY <2>14, <3>1, <3>2, CodesDoneType DEF Codes!ConfirmSave, Codes!TypeOK
  <2>15. CASE Codes!Finish(p)
    BY <2>15, CodesDoneType DEF Codes!Finish, Codes!TypeOK
  <2>16. CASE Codes!ConfirmList(p) \/ Codes!GrantList(p)
    <3>1. codeReq' \in [Codes!Proc -> Codes!Request]
      BY <2>16, CodesGotoType, CodesDoneType DEF Codes!ConfirmList, Codes!GrantList, Codes!Label
    <3>2. QED
      BY <2>16, <3>1 DEF Codes!ConfirmList, Codes!GrantList, Codes!TypeOK
  <2>17. CASE Codes!GrantClock(p)
    <3>1. [codeReq[p] EXCEPT !.pc = "grantList", !.clock = now] \in Codes!Request
      BY <2>1 DEF Codes!Request, Codes!Label, Codes!TypeOK
    <3>2. codeReq' \in [Codes!Proc -> Codes!Request]
      BY <2>17, <3>1, CodesBecomeType DEF Codes!GrantClock
    <3>3. QED
      BY <2>17, <3>2 DEF Codes!GrantClock, Codes!TypeOK
  <2>18. QED
    BY <1>6, <2>3, <2>4, <2>5, <2>6, <2>7, <2>8, <2>9, <2>10, <2>11,
       <2>12, <2>13, <2>14, <2>15, <2>16, <2>17 DEF Codes!Continue
<1>7. QED
  BY <1>1, <1>2, <1>4, <1>5, <1>6 DEF Codes!Next

\* With one worker there is one request; a step that gives it another one, does so.
LEMMA CodesOnly ==
    ASSUME Codes!TypeOK
    PROVE  /\ Codes!Proc = {Only} /\ codeReq[Only] \in Codes!Request
           /\ \A x : Codes!Become(Only, x) => codeReq'[Only] = x
<1>1. Codes!Proc = {Only}
  BY DEF Codes!Proc
<1> QED BY <1>1 DEF Codes!TypeOK, Codes!Become

\* The fields of the request of an idle worker.
LEMMA CodesIdle ==
    /\ Codes!Idle.pc = "idle" /\ Codes!Idle.token = NULL /\ Codes!Idle.sending = FALSE
    /\ CodeInHand(Codes!Idle)
<1>1. Codes!Idle.pc = "idle" /\ Codes!Idle.token = NULL /\ Codes!Idle.sending = FALSE
  BY DEF Codes!Idle
<1> QED BY <1>1 DEF CodeInHand

\* A step that leaves the tables alone keeps the invariant if it takes up a request that
\* agrees with them.
LEMMA CodesMove ==
    ASSUME CodesInv, NEW x, Codes!Become(Only, x), UNCHANGED <<now, row, failures, free>>,
           CodeInHand(x),
           \A ph \in CodePhone : Uncounted(codeReq[Only], ph) => Uncounted(x, ph)
    PROVE  CodesRest'
<1>1. codeReq'[Only] = x
  BY CodesOnly DEF CodesInv
<1>2. Tables' /\ Codes!WaitingCodesSpaced'
  BY DEF CodesInv, CodesRest, Tables, Codes!WaitingCodesSpaced
<1>3. CodeInHand(codeReq[Only])'
  BY <1>1 DEF CodeInHand, Codes!Waiting, Codes!TokenUsed, Codes!Idle, Codes!Absent,
     Codes!NoFailure
<1>4. ASSUME NEW ph \in CodePhone PROVE Counted(codeReq[Only], ph)'
  <2>1. free[ph] \in Nat /\ failures[ph].count \in Nat
    BY DEF CodesInv, Codes!TypeOK, Codes!Failure
  <2>2. Counted(codeReq[Only], ph) /\ (Uncounted(codeReq[Only], ph) => Uncounted(x, ph))
    BY DEF CodesInv, CodesRest
  <2>3. Uncounted(codeReq[Only], ph)' = Uncounted(x, ph)
    BY <1>1 DEF Uncounted
  <2> HIDE DEF Uncounted
  <2> QED BY <2>1, <2>2, <2>3 DEF Counted
<1> QED BY <1>2, <1>3, <1>4 DEF CodesRest

\* So does a step that moves the clock alone, or nothing.
LEMMA CodesStand ==
    ASSUME CodesInv, UNCHANGED <<row, failures, codeReq, free>>, now' \in Nat, now' >= now
    PROVE  CodesRest'
<1>1. Tables'
  BY DEF CodesInv, CodesRest, Tables, Codes!TypeOK, Codes!Row
<1>2. Codes!WaitingCodesSpaced'
  BY DEF CodesInv, CodesRest, Codes!WaitingCodesSpaced
<1>3. CodeInHand(codeReq[Only])'
  <2>1. ASSUME NEW c \in Code, now > row[c].created + FREQUENTLY_TIME
        PROVE  now' > row[c].created + FREQUENTLY_TIME
    BY <2>1, AssumptionOfCodes DEF CodesInv, Codes!TypeOK, Codes!Row, Codes!SmsAssumption
  <2>2. codeReq[Only]' = codeReq[Only] /\ codeReq'[Only] = codeReq[Only]
    OBVIOUS
  <2>3. CodeInHand(codeReq[Only])
    BY DEF CodesInv, CodesRest
  <2>4. \A ph : Codes!Waiting(ph)' = Codes!Waiting(ph) /\ Codes!Waiting(ph) \subseteq Code
    BY DEF Codes!Waiting
  <2> QED BY <2>1, <2>2, <2>3, <2>4 DEF CodeInHand, Codes!TokenUsed, Codes!Idle, Codes!Absent,
      Codes!NoFailure
<1>4. \A ph \in CodePhone : Counted(codeReq[Only], ph)'
  BY DEF CodesInv, CodesRest, Counted, Uncounted
<1> QED BY <1>1, <1>2, <1>3, <1>4 DEF CodesRest

\* Starting a request: a web request to send is counted as soon as it is admitted, and it
\* is admitted without captcha only while fewer than MAX_FAILED are counted.
LEMMA CodesSend ==
    ASSUME CodesInv, NEW ph \in CodePhone, Codes!SendAdmitted(Only, ph)
    PROVE  CodesRest'
<1> DEFINE r == codeReq[Only]
           x == [r EXCEPT !.pc = "incrementGet", !.phone = ph, !.sending = TRUE]
<1>1. r.pc = "idle" /\ Codes!Become(Only, x) /\ UNCHANGED <<now, row, failures>>
  BY DEF Codes!SendAdmitted
<1>2. r \in Codes!Request /\ r = Codes!Idle
  BY <1>1, CodesOnly DEF CodesInv, CodesRest, CodeInHand
<1>3. x.pc = "incrementGet" /\ x.phone = ph /\ x.sending /\ x.token = NULL
  BY <1>2, CodesIdle DEF Codes!Request
<1>4. codeReq'[Only] = x
  BY <1>1, CodesOnly DEF CodesInv
<1>5. Tables' /\ Codes!WaitingCodesSpaced'
  BY <1>1 DEF CodesInv, CodesRest, Tables, Codes!WaitingCodesSpaced
<1>6. CodeInHand(codeReq[Only])'
  BY <1>3, <1>4 DEF CodeInHand
<1>7. ASSUME NEW q \in CodePhone PROVE Counted(codeReq[Only], q)'
  <2>1. /\ free[q] \in Nat /\ failures[q].count \in Nat /\ failures[q].id \in Nat
        /\ free \in [CodePhone -> Nat]
    BY DEF CodesInv, Codes!TypeOK, Codes!Failure
  <2>2. free[q] <= MAX_FAILED /\ free[q] <= failures[q].count
    <3>1. ~Uncounted(r, q)
      BY <1>1 DEF Uncounted
    <3>2. Counted(r, q)
      BY DEF CodesInv, CodesRest
    <3> QED BY <2>1, <3>1, <3>2 DEF Counted
  <2>3. Uncounted(codeReq[Only], q)' = (q = ph)
    BY <1>3, <1>4 DEF Uncounted
  <2>4. failures[q].id = 0 => failures[q].count = 0
    BY DEF CodesInv, CodesRest, Tables
  <2>5. CASE free' = free
    BY <1>1, <2>1, <2>2, <2>5 DEF Counted
  <2>6. CASE ~Codes!IsPhoneLockedOut(ph) /\ free' = [free EXCEPT ![ph] = Codes!Inc(@)]
    <3>1. CASE q # ph
      BY <1>1, <2>1, <2>2, <2>6, <3>1 DEF Counted
    <3>2. CASE q = ph
      <4>1. failures[q].count < MAX_FAILED
        BY <2>1, <2>4, <2>6, <3>2, AssumptionOfCodes DEF Codes!IsPhoneLockedOut,
           Codes!HasFailures, Codes!SmsAssumption
      <4>2. free'[q] <= free[q] + 1
        BY <2>1, <2>6, <3>2, AssumptionOfCodes DEF Codes!Inc, Codes!SmsAssumption
      <4>3. free'[q] \in Nat
        BY <2>1, <2>6, <3>2, AssumptionOfCodes DEF Codes!Inc, Codes!SmsAssumption
      <4>4. free'[q] <= MAX_FAILED /\ free'[q] <= failures[q].count + 1
        BY <2>1, <2>2, <4>1, <4>2, <4>3, AssumptionOfCodes DEF Codes!SmsAssumption
      <4> QED BY <1>1, <2>3, <3>2, <4>4 DEF Counted
    <3> QED BY <3>1, <3>2
  <2> QED BY <2>5, <2>6 DEF Codes!SendAdmitted
<1> QED BY <1>5, <1>6, <1>7 DEF CodesRest

\* The other requests that start touch no table, and what they rest on is what they looked
\* up: no message was sent for the authtoken.
LEMMA CodesStart ==
    ASSUME CodesInv,
           \/ \E t \in Codes!Token : Codes!ApiSend(Only, t)
           \/ \E ph \in CodePhone, c \in Code :
                  \/ Codes!CheckExists(Only, ph, c)
                  \/ Codes!Confirm(Only, ph, c) \/ Codes!Grant(Only, ph, c)
    PROVE  CodesRest'
<1> DEFINE r == codeReq[Only]
<1>1. r.pc = "idle" => r = Codes!Idle /\ r.token = NULL
  BY CodesIdle DEF CodesInv, CodesRest, CodeInHand
<1>2. r \in Codes!Request
  BY CodesOnly DEF CodesInv
<1>3. ASSUME NEW t \in Codes!Token, Codes!ApiSend(Only, t) PROVE CodesRest'
  <2> DEFINE x == [r EXCEPT !.pc = "sendLook", !.phone = t[1], !.token = t, !.sending = TRUE]
  <2>1. x.pc = "sendLook" /\ x.token = t
    BY <1>2 DEF Codes!Request
  <2>2. CodeInHand(x)
    BY <1>3, <2>1 DEF Codes!ApiSend, CodeInHand
  <2> QED BY <1>3, <2>2, CodesMove DEF Codes!ApiSend, Uncounted
<1>4. ASSUME NEW ph \in CodePhone, NEW c \in Code, Codes!CheckExists(Only, ph, c)
      PROVE  CodesRest'
  <2> DEFINE x == [r EXCEPT !.pc = IF Codes!Waiting(ph) = {} THEN "incrementGet" ELSE "checkList",
                            !.phone = ph, !.typed = c, !.clock = now]
  <2>1. x.pc \in {"incrementGet", "checkList"} /\ x.token = NULL
    BY <1>1, <1>2, <1>4 DEF Codes!CheckExists, Codes!Request
  <2>2. CodeInHand(x)
    BY <2>1 DEF CodeInHand
  <2> QED BY <1>4, <2>2, CodesMove DEF Codes!CheckExists, Uncounted
<1>5. ASSUME NEW ph \in CodePhone, NEW c \in Code, Codes!Confirm(Only, ph, c)
      PROVE  CodesRest'
  <2> DEFINE x == [r EXCEPT !.pc = "confirmList", !.phone = ph, !.typed = c, !.clock = now]
  <2>1. x.pc = "confirmList" /\ x.token = NULL /\ x.typed = c
    BY <1>1, <1>2, <1>5 DEF Codes!Confirm, Codes!Request
  <2>2. CodeInHand(x)
    BY <1>5, <2>1 DEF CodeInHand
  <2> QED BY <1>5, <2>2, CodesMove DEF Codes!Confirm, Uncounted
<1>6. ASSUME NEW ph \in CodePhone, NEW c \in Code, Codes!Grant(Only, ph, c)
      PROVE  CodesRest'
  <2> DEFINE x == [r EXCEPT !.pc = "grantClock", !.phone = ph, !.typed = c]
  <2>1. x.pc = "grantClock" /\ x.token = NULL
    BY <1>1, <1>2, <1>6 DEF Codes!Grant, Codes!Request
  <2>2. CodeInHand(x)
    BY <2>1 DEF CodeInHand
  <2> QED BY <1>6, <2>2, CodesMove DEF Codes!Grant, Uncounted
<1> QED BY <1>3, <1>4, <1>5, <1>6

\* The counter is read and saved by the one worker: what is saved is one more than what is
\* there, and the message admitted is counted.
LEMMA CodesIncrementGet ==
    ASSUME CodesInv, Codes!IncrementGet(Only) PROVE CodesRest'
<1> DEFINE r == codeReq[Only]
<1>1. r \in Codes!Request /\ r.pc = "incrementGet" /\ r.phone \in CodePhone
  BY CodesOnly DEF CodesInv, Codes!IncrementGet, Codes!Request
<1>2. r.token # NULL => ~Codes!TokenUsed(r.token)
  BY DEF CodesInv, CodesRest, CodeInHand
<1>3. CASE Codes!HasFailures(r.phone)
  <2> DEFINE x == [r EXCEPT !.pc = "incrementSave", !.fail = failures[r.phone]]
  <2>1. /\ x.pc = "incrementSave" /\ x.token = r.token /\ x.fail = failures[r.phone]
        /\ x.phone = r.phone /\ x.sending = r.sending
    BY <1>1 DEF Codes!Request
  <2>2. CodeInHand(x)
    BY <1>2, <1>3, <2>1 DEF CodeInHand, Codes!HasFailures
  <2>3. \A ph \in CodePhone : Uncounted(r, ph) => Uncounted(x, ph)
    BY <2>1, Zenon DEF Uncounted
  <2>4. Codes!Become(Only, x) /\ UNCHANGED <<now, row, failures, free>>
    BY <1>3 DEF Codes!IncrementGet
  <2> HIDE DEF x
  <2> QED BY <2>2, <2>3, <2>4, CodesMove
<1>4. CASE ~Codes!HasFailures(r.phone)
  <2>1. PICK id \in 1 .. (Codes!Cardinality(Codes!Proc) + 1) :
           LET f == [Codes!NoFailure EXCEPT !.id = id] IN
           /\ failures' = [failures EXCEPT ![r.phone] = f]
           /\ Codes!Become(Only, [r EXCEPT !.pc = "incrementSave", !.fail = f])
    BY <1>4 DEF Codes!IncrementGet
  <2> DEFINE f == [Codes!NoFailure EXCEPT !.id = id]
             x == [r EXCEPT !.pc = "incrementSave", !.fail = f]
  <2>2. f.id = id /\ id # 0 /\ f.count = 0
    BY DEF Codes!NoFailure
  <2>3. /\ x.pc = "incrementSave" /\ x.token = r.token /\ x.fail = f /\ x.phone = r.phone
        /\ x.sending = r.sending
    BY <1>1 DEF Codes!Request
  <2>4. codeReq'[Only] = x /\ UNCHANGED <<now, row, free>>
    BY <2>1, CodesOnly DEF Codes!IncrementGet, CodesInv
  <2>5. failures \in [CodePhone -> Codes!Failure] /\ failures' = [failures EXCEPT ![r.phone] = f]
    BY <2>1 DEF CodesInv, Codes!TypeOK
  <2> HIDE DEF x, f
  <2>6. Tables' /\ Codes!WaitingCodesSpaced'
    BY <1>1, <2>2, <2>4, <2>5 DEF CodesInv, CodesRest, Tables, Codes!WaitingCodesSpaced
  <2>7. CodeInHand(codeReq[Only])'
    BY <1>1, <1>2, <2>2, <2>3, <2>4, <2>5 DEF CodeInHand, Codes!TokenUsed
  <2>8. ASSUME NEW ph \in CodePhone PROVE Counted(codeReq[Only], ph)'
    <3>1. Counted(r, ph) /\ (failures[ph].id = 0 => failures[ph].count = 0)
      BY DEF CodesInv, CodesRest, Tables
    <3>2. failures[r.phone].count = 0
      BY <1>1, <1>4 DEF CodesInv, CodesRest, Tables, Codes!HasFailures
    <3>3. failures'[ph].count = failures[ph].count
      BY <1>1, <2>2, <2>5, <3>2
    <3>4. Uncounted(codeReq[Only], ph)' = Uncounted(r, ph)
      BY <1>1, <2>3, <2>4, Zenon DEF Uncounted
    <3> HIDE DEF Uncounted
    <3> QED BY <2>4, <3>1, <3>3, <3>4 DEF Counted
  <2> QED BY <2>6, <2>7, <2>8 DEF CodesRest
<1> QED BY <1>3, <1>4

LEMMA CodesIncrementSave ==
    ASSUME CodesInv, Codes!IncrementSave(Only) PROVE CodesRest'
<1> DEFINE r == codeReq[Only]
           ph == r.phone
           n == Codes!Inc(r.fail.count)
           rec == [id |-> r.fail.id, count |-> n,
                   until |-> IF n >= MAX_FAILED THEN now + LOCKOUT_PERIOD ELSE r.fail.until]
           x == [r EXCEPT !.pc = "sendLook", !.fail = Codes!NoFailure]
<1>1. r \in Codes!Request /\ r.pc = "incrementSave" /\ ph \in CodePhone
  BY CodesOnly DEF CodesInv, Codes!IncrementSave, Codes!Request
<1>2. r.fail = failures[ph] /\ r.fail.id # 0 /\ (r.token # NULL => ~Codes!TokenUsed(r.token))
  BY <1>1 DEF CodesInv, CodesRest, CodeInHand
<1>3. rec.id = r.fail.id /\ rec.count = n
  OBVIOUS
<1>4. failures' = [failures EXCEPT ![ph] = rec] /\ UNCHANGED <<now, row, free>>
  BY <1>2, <1>3 DEF Codes!IncrementSave
<1>5. codeReq'[Only] = IF r.sending THEN x ELSE Codes!Idle
  <2>1. IF r.sending THEN Codes!Become(Only, x) ELSE Codes!Done(Only)
    BY <1>2, <1>3 DEF Codes!IncrementSave
  <2> HIDE DEF x
  <2> QED BY <2>1, CodesOnly DEF Codes!Done, CodesInv
<1>6. x.pc = "sendLook" /\ x.token = r.token
  BY <1>1 DEF Codes!Request
<1>7. /\ failures \in [CodePhone -> Codes!Failure] /\ failures[ph].count \in Nat
      /\ \A q \in CodePhone : free[q] \in Nat /\ failures[q].count \in Nat
  BY <1>1 DEF CodesInv, Codes!TypeOK, Codes!Failure
<1>8. n \in Nat /\ (n = failures[ph].count + 1 \/ (n = failures[ph].count /\ n >= MAX_FAILED))
  BY <1>2, <1>7, AssumptionOfCodes DEF Codes!Inc, Codes!SmsAssumption
<1> HIDE DEF x, rec, n
<1>9. Tables' /\ Codes!WaitingCodesSpaced'
  BY <1>1, <1>2, <1>3, <1>4, <1>7 DEF CodesInv, CodesRest, Tables, Codes!WaitingCodesSpaced
<1>10. CodeInHand(codeReq[Only])'
  <2>1. CodeInHand(x)
    BY <1>2, <1>6 DEF CodeInHand
  <2>2. codeReq'[Only].pc \in {"sendLook", "idle"} /\ CodeInHand(codeReq'[Only])
    BY <1>5, <1>6, <2>1, CodesIdle
  <2> QED BY <1>4, <2>2 DEF CodeInHand, Codes!TokenUsed, Codes!Idle, Codes!Absent,
      Codes!NoFailure
<1>11. ASSUME NEW q \in CodePhone PROVE Counted(codeReq[Only], q)'
  <2>1. ~Uncounted(codeReq[Only], q)'
    BY <1>5, <1>6, CodesIdle DEF Uncounted
  <2>2. free[q] <= MAX_FAILED /\ free[q] <= failures[q].count + 1
    BY <1>7 DEF CodesInv, CodesRest, Counted
  <2>3. CASE q = ph
    <3>1. failures'[q].count = n
      BY <1>1, <1>3, <1>4, <1>7, <2>3
    <3>2. free[q] <= n
      BY <1>7, <1>8, <2>2, <2>3, AssumptionOfCodes DEF Codes!SmsAssumption
    <3> QED BY <1>4, <2>1, <2>2, <3>1, <3>2, <1>7, <1>8 DEF Counted
  <2>4. CASE q # ph
    <3>1. failures'[q] = failures[q]
      BY <1>1, <1>4, <1>7, <2>4
    <3>2. ~Uncounted(r, q)
      BY <2>4 DEF Uncounted
    <3>3. free[q] <= failures[q].count
      BY <1>7, <3>2 DEF CodesInv, CodesRest, Counted
    <3> QED BY <1>4, <1>7, <2>1, <2>2, <3>1, <3>3 DEF Counted
  <2> QED BY <2>3, <2>4
<1> QED BY <1>9, <1>10, <1>11 DEF CodesRest

\* A success clears the counter, and nothing is left to count.
LEMMA CodesClear ==
    ASSUME CodesInv, Codes!ClearGet(Only) \/ Codes!ClearDelete(Only)
    PROVE  CodesRest'
<1> DEFINE r == codeReq[Only]
<1>1. r \in Codes!Request /\ r.pc \in {"clearGet", "clearDelete"} /\ r.phone \in CodePhone
  BY CodesOnly DEF CodesInv, Codes!ClearGet, Codes!ClearDelete, Codes!Request
<1>2. \A ph : ~Uncounted(r, ph)
  BY <1>1 DEF Uncounted
<1>3. CASE Codes!ClearGet(Only)
  <2> DEFINE x == [r EXCEPT !.pc = "clearDelete", !.fail = failures[r.phone]]
  <2>1. /\ x.pc = "clearDelete" /\ x.token = r.token /\ x.phone = r.phone
        /\ x.fail = failures[r.phone]
    BY <1>1 DEF Codes!Request
  <2>2. CodeInHand(x)
    BY <2>1 DEF CodesInv, CodesRest, CodeInHand
  <2>3. Codes!Become(Only, x) \/ Codes!Become(Only, Codes!Idle)
    BY <1>3 DEF Codes!ClearGet, Codes!Done
  <2>4. UNCHANGED <<now, row, failures, free>>
    BY <1>3 DEF Codes!ClearGet
  <2> HIDE DEF x
  <2> QED BY <1>2, <2>2, <2>3, <2>4, CodesMove, CodesIdle
<1>4. CASE Codes!ClearDelete(Only)
  <2>1. /\ codeReq'[Only] = Codes!Idle /\ UNCHANGED <<now, row>>
        /\ free' = [free EXCEPT ![r.phone] = 0]
    BY <1>4, CodesOnly DEF Codes!ClearDelete, Codes!Done, CodesInv
  <2>2. r.fail.id = failures[r.phone].id
    BY <1>4 DEF CodesInv, CodesRest, CodeInHand, Codes!ClearDelete
  <2>3. failures' = [failures EXCEPT ![r.phone] = Codes!NoFailure]
    BY <1>4, <2>2 DEF Codes!ClearDelete
  <2>4. Codes!NoFailure.id = 0 /\ Codes!NoFailure.count = 0
    BY DEF Codes!NoFailure
  <2>5. /\ failures \in [CodePhone -> Codes!Failure] /\ free \in [CodePhone -> Nat]
        /\ \A q \in CodePhone : free[q] \in Nat /\ failures[q].count \in Nat
    BY DEF CodesInv, Codes!TypeOK, Codes!Failure
  <2>6. Tables' /\ Codes!WaitingCodesSpaced'
    BY <1>1, <2>1, <2>3, <2>4, <2>5
    DEF CodesInv, CodesRest, Tables, Codes!WaitingCodesSpaced
  <2>7. CodeInHand(codeReq[Only])'
    BY <2>1, CodesIdle DEF CodeInHand, Codes!Idle, Codes!NoFailure, Codes!Absent
  <2>8. ASSUME NEW q \in CodePhone PROVE Counted(codeReq[Only], q)'
    <3>1. ~Uncounted(codeReq[Only], q)'
      BY <2>1, CodesIdle DEF Uncounted
    <3>2. free[q] <= MAX_FAILED /\ free[q] <= failures[q].count
      BY <1>2, <2>5 DEF CodesInv, CodesRest, Counted
    <3>3. \/ free'[q] = 0 /\ failures'[q].count = 0
          \/ free'[q] = free[q] /\ failures'[q] = failures[q]
      BY <1>1, <2>1, <2>3, <2>4, <2>5
    <3> QED BY <2>5, <3>1, <3>2, <3>3, AssumptionOfCodes DEF Counted, Codes!SmsAssumption
  <2> QED BY <2>6, <2>7, <2>8 DEF CodesRest
<1> QED BY <1>3, <1>4

\* The age of the newest code is looked up before the next is made: all that wait are older.
LEMMA CodesLook ==
    ASSUME CodesInv, Codes!SendLook(Only) \/ Codes!SendAge(Only)
    PROVE  CodesRest'
<1> DEFINE r == codeReq[Only]
           To(label) == [r EXCEPT !.pc = label]
<1>1. r \in Codes!Request /\ r.pc \in {"sendLook", "sendAge"}
  BY CodesOnly DEF CodesInv, Codes!SendLook, Codes!SendAge
<1>2. \A ph : ~Uncounted(r, ph)
  BY <1>1 DEF Uncounted
<1>3. UNCHANGED <<now, row, failures, free>>
  BY DEF Codes!SendLook, Codes!SendAge
<1>4. r.token # NULL => ~Codes!TokenUsed(r.token)
  BY DEF CodesInv, CodesRest, CodeInHand
<1>5. ASSUME NEW label PROVE To(label).pc = label /\ To(label).token = r.token /\ To(label).phone = r.phone
  BY <1>1 DEF Codes!Request
<1>6. \/ Codes!Become(Only, Codes!Idle)
      \/ Codes!Become(Only, To("sendAge"))
      \/ /\ Codes!Become(Only, To("new"))
         /\ \A c \in Codes!Waiting(r.phone) : now > row[c].created + FREQUENTLY_TIME
  <2>1. CASE Codes!SendLook(Only)
    BY <2>1 DEF Codes!SendLook, Codes!Goto
  <2>2. CASE Codes!SendAge(Only) /\ Codes!Waiting(r.phone) = {}
    BY <2>2 DEF Codes!SendAge, Codes!Done
  <2>3. CASE Codes!SendAge(Only) /\ Codes!Waiting(r.phone) # {}
    <3>1. PICK c \in Codes!Newest(Codes!Waiting(r.phone)) :
             IF Codes!IsTooFrequently(c) THEN Codes!Become(Only, Codes!Idle)
             ELSE Codes!Become(Only, To("new"))
      BY <2>3 DEF Codes!SendAge, Codes!Done, Codes!Goto
    <3>2. CASE Codes!IsTooFrequently(c)
      BY <3>1, <3>2
    <3>3. CASE ~Codes!IsTooFrequently(c)
      <4>1. /\ c \in Code /\ Codes!Waiting(r.phone) \subseteq Code
            /\ \A d \in Codes!Waiting(r.phone) : row[d].created <= row[c].created
        BY DEF Codes!Newest, Codes!Waiting
      <4>2. now \in Nat /\ \A d \in Code : row[d].created \in Nat /\ row[d].created <= now
        BY DEF CodesInv, CodesRest, Tables, Codes!TypeOK, Codes!Row
      <4>3. DAY \in Nat \ {0} /\ FREQUENTLY_TIME \in Nat
        BY AssumptionOfCodes DEF Codes!SmsAssumption
      <4>4. ((now - row[c].created) % DAY) > FREQUENTLY_TIME
        BY <3>3, <4>1, <4>2, <4>3 DEF Codes!IsTooFrequently, Codes!DeltaSeconds
      <4>5. now - row[c].created > FREQUENTLY_TIME
        <5>1. \A a \in Nat, D \in Nat \ {0} : a % D <= a
          OBVIOUS
        <5>2. now - row[c].created \in Nat
          BY <4>1, <4>2
        <5> DEFINE a == now - row[c].created
        <5>3. a % DAY <= a /\ a % DAY > FREQUENTLY_TIME /\ a \in Nat /\ a % DAY \in Nat
          BY <4>3, <4>4, <5>1, <5>2
        <5> QED BY <4>3, <5>3
      <4> QED BY <3>1, <3>3, <4>1, <4>2, <4>3, <4>5
    <3> QED BY <3>2, <3>3
  <2> QED BY <2>1, <2>2, <2>3
<1> HIDE DEF To
<1>7. CodeInHand(To("sendAge"))
  BY <1>4, <1>5 DEF CodeInHand
<1>8. ASSUME \A c \in Codes!Waiting(r.phone) : now > row[c].created + FREQUENTLY_TIME
      PROVE  CodeInHand(To("new"))
  BY <1>4, <1>5, <1>8 DEF CodeInHand
<1> QED BY <1>2, <1>3, <1>6, <1>7, <1>8, CodesMove, CodesIdle

\* Saving a judged code lets none wait that did not, and gives no authtoken away.
LEMMA CodesSave ==
    ASSUME CodesInv, NEW c \in Code, NEW s \in {"outOfDate", "failed", "success"}, NEW x,
           Codes!SaveStatus(c, s), UNCHANGED <<now, failures, free>>, Codes!Become(Only, x),
           x.pc \in {"idle", "expireOlder", "clearGet", "incrementGet"},
           x.pc = "idle" => x = Codes!Idle, x.token \in {NULL, codeReq[Only].token},
           codeReq[Only].pc \in {"expireOlder", "checkSave", "confirmSave"}
    PROVE  CodesRest'
<1> DEFINE r == codeReq[Only]
<1>1. row \in [Code -> Codes!Row] /\ row' \in [Code -> Codes!Row]
  BY CodesSaveType DEF CodesInv, Codes!TypeOK, Codes!Status
<1>2. /\ \A d \in Code : /\ row'[d].phone = row[d].phone /\ row'[d].token = row[d].token
                         /\ row'[d].created = row[d].created
      /\ \A d \in Code : d # c => row'[d] = row[d]
      /\ row'[c].status = s
  <2> DEFINE saved == [row EXCEPT ![c] = [row[c] EXCEPT !.status = s]]
  <2>1. row' = [saved EXCEPT ![c] = [saved[c] EXCEPT !.updated = now]]
    BY DEF Codes!SaveStatus
  <2>2. saved[c] = [row[c] EXCEPT !.status = s] /\ \A d \in Code : d # c => saved[d] = row[d]
    BY <1>1
  <2>3. saved \in [Code -> Codes!Row]
    BY <1>1 DEF Codes!Row, Codes!Status
  <2>4. row[c] \in Codes!Row
    BY <1>1
  <2> HIDE DEF saved
  <2>5. row'[c] = [saved[c] EXCEPT !.updated = now] /\ \A d \in Code : d # c => row'[d] = row[d]
    BY <2>1, <2>2, <2>3
  <2>6. /\ row'[c].phone = row[c].phone /\ row'[c].token = row[c].token
        /\ row'[c].created = row[c].created /\ row'[c].status = s
    BY <2>2, <2>4, <2>5 DEF Codes!Row
  <2> QED BY <2>5, <2>6
<1>3. codeReq'[Only] = x
  BY CodesOnly DEF CodesInv
<1>4. \A ph : Codes!Waiting(ph)' \subseteq Codes!Waiting(ph)
  BY <1>2 DEF Codes!Waiting
<1>5. Tables'
  BY <1>1, <1>2 DEF CodesInv, CodesRest, Tables
<1>6. Codes!WaitingCodesSpaced'
  <2>1. \A d \in Code : row'[d].status = "wait" => row[d].status = "wait"
    BY <1>2
  <2> QED BY <1>1, <1>2, <2>1 DEF CodesInv, CodesRest, Codes!WaitingCodesSpaced
<1>7. CodeInHand(codeReq[Only])'
  <2>1. x.token # NULL => ~Codes!TokenUsed(x.token)'
    <3>1. x.token # NULL => ~Codes!TokenUsed(x.token)
      BY DEF CodesInv, CodesRest, CodeInHand
    <3>2. \A d \in Code : row[d].status = "absent" => row[d].token = NULL
      BY DEF CodesInv, CodesRest, Tables
    <3> QED BY <1>2, <3>1, <3>2 DEF Codes!TokenUsed
  <2> QED BY <1>3, <2>1 DEF CodeInHand, Codes!Idle, Codes!NoFailure, Codes!Absent
<1>8. ASSUME NEW ph \in CodePhone PROVE Counted(codeReq[Only], ph)'
  <2>1. ~Uncounted(r, ph)
    BY DEF Uncounted
  <2>2. free[ph] \in Nat /\ failures[ph].count \in Nat
    BY DEF CodesInv, Codes!TypeOK, Codes!Failure
  <2>3. free[ph] <= MAX_FAILED /\ free[ph] <= failures[ph].count
    BY <2>1, <2>2 DEF CodesInv, CodesRest, Counted
  <2>4. free' = free /\ failures' = failures
    OBVIOUS
  <2>5. free[ph] <= failures[ph].count + (IF Uncounted(codeReq[Only], ph)' THEN 1 ELSE 0)
    BY <2>2, <2>3
  <2> HIDE DEF Uncounted
  <2> QED BY <2>3, <2>4, <2>5 DEF Counted
<1> QED BY <1>2, <1>5, <1>6, <1>7, <1>8 DEF CodesRest

\* The web check: older codes are set aside, the newest is judged while it waits.
LEMMA CodesCheck ==
    ASSUME CodesInv, Codes!CheckList(Only) \/ Codes!CheckNewest(Only)
    PROVE  CodesRest'
<1> DEFINE r == codeReq[Only]
<1>1. r \in Codes!Request /\ r.pc \in {"checkList", "expireOlder"}
  BY CodesOnly DEF CodesInv, Codes!CheckList, Codes!CheckNewest
<1>2. \A ph : ~Uncounted(r, ph)
  BY <1>1 DEF Uncounted
<1>3. UNCHANGED <<now, row, failures, free>>
  BY DEF Codes!CheckList, Codes!CheckNewest
<1>4. r.token # NULL => ~Codes!TokenUsed(r.token)
  BY DEF CodesInv, CodesRest, CodeInHand
<1>5. CASE Codes!CheckList(Only)
  <2>1. PICK S : \/ Codes!Become(Only, [r EXCEPT !.pc = "expireOlder"])
                 \/ Codes!Become(Only, [r EXCEPT !.pc = "expireOlder", !.older = S])
    BY <1>5 DEF Codes!CheckList, Codes!Goto
  <2>2. CodeInHand([r EXCEPT !.pc = "expireOlder"])
    BY <1>1, <1>4 DEF CodeInHand, Codes!Request
  <2>3. CodeInHand([r EXCEPT !.pc = "expireOlder", !.older = S])
    BY <1>1, <1>4 DEF CodeInHand, Codes!Request
  <2> QED BY <1>2, <1>3, <2>1, <2>2, <2>3, CodesMove
<1>6. CASE Codes!CheckNewest(Only) /\ Codes!Waiting(r.phone) = {}
  BY <1>2, <1>3, <1>6, CodesMove, CodesIdle DEF Codes!CheckNewest, Codes!Done
<1>7. CASE Codes!CheckNewest(Only) /\ Codes!Waiting(r.phone) # {}
  <2>1. PICK c \in Codes!Newest(Codes!Waiting(r.phone)) :
           Codes!Become(Only, [r EXCEPT !.pc = "checkSave", !.code = c,
                                        !.verdict = Codes!Verdict(c, r.typed)])
    BY <1>7 DEF Codes!CheckNewest
  <2> DEFINE x == [r EXCEPT !.pc = "checkSave", !.code = c,
                            !.verdict = Codes!Verdict(c, r.typed)]
  <2>2. c \in Code /\ row[c].status = "wait"
    BY DEF Codes!Newest, Codes!Waiting
  <2>3. x.pc = "checkSave" /\ x.code = c /\ x.verdict # "wait" /\ x.token = r.token
    BY <1>1 DEF Codes!Request, Codes!Verdict
  <2>4. CodeInHand(x)
    BY <1>4, <2>2, <2>3 DEF CodeInHand
  <2> QED BY <1>2, <1>3, <2>1, <2>4, CodesMove
<1> QED BY <1>5, <1>6, <1>7

\* The API: what was read since the request began changes no table.
LEMMA CodesRead ==
    ASSUME CodesInv, \/ Codes!ConfirmList(Only) \/ Codes!GrantClock(Only) \/ Codes!GrantList(Only)
    PROVE  CodesRest'
<1> DEFINE r == codeReq[Only]
<1>1. r \in Codes!Request /\ r.pc \in {"confirmList", "grantClock", "grantList"}
  BY CodesOnly DEF CodesInv, Codes!ConfirmList, Codes!GrantClock, Codes!GrantList
<1>2. \A ph : ~Uncounted(r, ph)
  BY <1>1 DEF Uncounted
<1>3. UNCHANGED <<now, row, failures, free>>
  BY DEF Codes!ConfirmList, Codes!GrantClock, Codes!GrantList
<1>4. /\ r.token # NULL => ~Codes!TokenUsed(r.token)
      /\ r.pc = "confirmList" => r.typed \in Code
  BY DEF CodesInv, CodesRest, CodeInHand
<1>5. CASE Codes!Done(Only)
  BY <1>2, <1>3, <1>5, CodesMove, CodesIdle DEF Codes!Done
<1>6. ASSUME NEW label \in {"confirmSave", "granted"}, Codes!Goto(Only, label),
             label = "confirmSave" => r.pc = "confirmList"
      PROVE  CodesRest'
  <2> DEFINE x == [r EXCEPT !.pc = label]
  <2>1. x.pc = label /\ x.typed = r.typed /\ x.token = r.token
    BY <1>1 DEF Codes!Request
  <2>2. CodeInHand(x)
    BY <1>4, <1>6, <2>1 DEF CodeInHand
  <2> QED BY <1>2, <1>3, <1>6, <2>2, CodesMove DEF Codes!Goto
<1>7. CASE Codes!GrantClock(Only)
  <2> DEFINE x == [r EXCEPT !.pc = "grantList", !.clock = now]
  <2>1. x.pc = "grantList" /\ x.token = r.token
    BY <1>1 DEF Codes!Request
  <2>2. CodeInHand(x)
    BY <1>4, <2>1 DEF CodeInHand
  <2> QED BY <1>2, <1>3, <1>7, <2>2, CodesMove DEF Codes!GrantClock
<1> QED BY <1>5, <1>6, <1>7 DEF Codes!ConfirmList, Codes!GrantList

\* What is saved was judged.
LEMMA CodesSaves ==
    ASSUME CodesInv, Codes!ExpireOlder(Only) \/ Codes!CheckSave(Only) \/ Codes!ConfirmSave(Only)
    PROVE  CodesRest'
<1> DEFINE r == codeReq[Only]
<1>1. r \in Codes!Request /\ r.pc \in {"expireOlder", "checkSave", "confirmSave"}
  BY CodesOnly DEF CodesInv, Codes!ExpireOlder, Codes!CheckSave, Codes!ConfirmSave
<1>2. CASE Codes!ExpireOlder(Only)
  <2>1. PICK c \in Codes!Newest(r.older) :
           /\ Codes!SaveStatus(c, "outOfDate")
           /\ Codes!Become(Only, [r EXCEPT !.older = r.older \ {c}])
    BY <1>2 DEF Codes!ExpireOlder
  <2> DEFINE x == [r EXCEPT !.older = r.older \ {c}]
  <2>2. c \in Code
    BY <1>1 DEF Codes!Newest, Codes!Request
  <2>3. x.pc = "expireOlder" /\ x.token = r.token
    BY <1>1, <1>2 DEF Codes!Request, Codes!ExpireOlder
  <2>4. UNCHANGED <<now, failures, free>>
    BY <1>2 DEF Codes!ExpireOlder
  <2> HIDE DEF x
  <2> QED BY <1>1, <2>1, <2>2, <2>3, <2>4, CodesSave DEF x
<1>3. CASE Codes!CheckSave(Only)
  <2> DEFINE x == [Codes!Idle EXCEPT
                      !.pc = IF r.verdict = "success" THEN "clearGet" ELSE "incrementGet",
                      !.phone = r.phone]
  <2>1. r.code \in Code /\ row[r.code].status = "wait" /\ r.verdict # "wait"
    BY <1>3 DEF CodesInv, CodesRest, CodeInHand, Codes!CheckSave
  <2>2. r.verdict \in {"outOfDate", "failed", "success"}
    BY <1>1, <2>1 DEF Codes!Request, Codes!Status
  <2>3. x.pc \in {"clearGet", "incrementGet"} /\ x.token = NULL
    BY DEF Codes!Idle
  <2>4. /\ Codes!SaveStatus(r.code, r.verdict) /\ UNCHANGED <<now, failures, free>>
        /\ Codes!Become(Only, x)
    BY <1>3 DEF Codes!CheckSave
  <2> HIDE DEF x
  <2> QED BY <1>1, <2>1, <2>2, <2>3, <2>4, CodesSave
<1>4. CASE Codes!ConfirmSave(Only)
  <2>1. r.typed \in Code
    BY <1>4 DEF CodesInv, CodesRest, CodeInHand, Codes!ConfirmSave
  <2>2. /\ Codes!SaveStatus(r.typed, "success") /\ UNCHANGED <<now, failures, free>>
        /\ Codes!Become(Only, Codes!Idle)
    BY <1>4 DEF Codes!ConfirmSave, Codes!Done
  <2> QED BY <1>1, <2>1, <2>2, CodesIdle, CodesSave
<1> QED BY <1>2, <1>3, <1>4

\* A new code is younger by more than FREQUENTLY_TIME than any that waits for its phone, and
\* the first for its authtoken.
LEMMA CodesNew ==
    ASSUME CodesInv, Codes!New(Only), Codes!TypeOK'
    PROVE  CodesRest'
<1> DEFINE r == codeReq[Only]
           n == Codes!NewRow(Only)
<1>1. r \in Codes!Request /\ r.pc = "new" /\ UNCHANGED <<now, failures, free>>
  BY CodesOnly DEF CodesInv, Codes!New
<1>2. codeReq'[Only] = Codes!Idle /\ Codes!Become(Only, Codes!Idle)
  BY CodesOnly DEF Codes!New, Codes!Done, CodesInv
<1>3. \A ph : ~Uncounted(r, ph)
  BY <1>1 DEF Uncounted
<1>4. CASE row' = row
  BY <1>1, <1>2, <1>3, <1>4, CodesMove, CodesIdle
<1>5. ASSUME NEW c \in Code, row[c].status = "absent", row' = [row EXCEPT ![c] = n]
      PROVE  CodesRest'
  <2>1. /\ n.status = "wait" /\ n.phone = r.phone /\ n.token = r.token /\ n.created = now
    BY DEF Codes!NewRow
  <2> HIDE DEF n
  <2>2. row \in [Code -> Codes!Row] /\ now \in Nat /\ \A d \in Code : row[d].created \in Nat
    BY DEF CodesInv, Codes!TypeOK, Codes!Row
  <2>3. row'[c] = n /\ \A d \in Code : d # c => row'[d] = row[d]
    BY <1>5, <2>2
  <2>4. \A d \in Code : r.token # NULL => row[d].token # r.token
    BY DEF CodesInv, CodesRest, Tables, CodeInHand, Codes!TokenUsed
  <2>5. Tables'
    <3>1. Tables
      BY DEF CodesInv, CodesRest
    <3>2. \A ph \in CodePhone : failures'[ph].id = 0 => failures'[ph].count = 0
      BY <1>1, <3>1 DEF Tables
    <3>3. \A d \in Code : row'[d].created <= now'
      BY <1>1, <2>1, <2>2, <2>3, <3>1 DEF Tables
    <3>4. \A d \in Code : row'[d].status = "absent" => row'[d].token = NULL
      BY <2>1, <2>3, <3>1 DEF Tables
    <3>5. \A d, e \in Code : d # e /\ row'[d].token # NULL => row'[d].token # row'[e].token
      BY <2>1, <2>3, <2>4, <3>1 DEF Tables
    <3> QED BY <3>2, <3>3, <3>4, <3>5 DEF Tables
  <2>6. Codes!WaitingCodesSpaced'
    <3>1. \A d \in Code : row[d].status = "wait" /\ row[d].phone = r.phone =>
                             now > row[d].created + FREQUENTLY_TIME
      BY <1>1 DEF CodesInv, CodesRest, CodeInHand, Codes!Waiting
    <3>2. Codes!WaitingCodesSpaced
      BY DEF CodesInv, CodesRest
    <3> QED BY <2>1, <2>3, <3>1, <3>2 DEF Codes!WaitingCodesSpaced
  <2>7. CodeInHand(codeReq[Only])'
    BY <1>2, CodesIdle DEF CodeInHand, Codes!Idle, Codes!NoFailure, Codes!Absent
  <2>8. ASSUME NEW ph \in CodePhone PROVE Counted(codeReq[Only], ph)'
    <3>1. free[ph] \in Nat /\ failures[ph].count \in Nat
      BY DEF CodesInv, Codes!TypeOK, Codes!Failure
    <3>2. free[ph] <= MAX_FAILED /\ free[ph] <= failures[ph].count
      BY <1>3, <3>1 DEF CodesInv, CodesRest, Counted
    <3>3. ~Uncounted(codeReq[Only], ph)'
      BY <1>2, CodesIdle DEF Uncounted
    <3> QED BY <1>1, <3>1, <3>2, <3>3 DEF Counted
  <2> QED BY <2>5, <2>6, <2>7, <2>8 DEF CodesRest
<1> QED BY <1>4, <1>5 DEF Codes!New, Codes!Insert

\* Every step keeps the invariant.
LEMMA CodesNext ==
    ASSUME CodesInv, Codes!Next
    PROVE  CodesInv'
<1>1. Codes!TypeOK'
  BY CodesTypeStep DEF CodesInv
<1>2. Codes!Proc = {Only}
  BY DEF Codes!Proc
<1>3. CASE Codes!Tick \/ Codes!ShowImage(Only) \/ \E ph \in CodePhone : Codes!SendRefused(Only, ph)
  <2>1. UNCHANGED <<row, failures, codeReq, free>> /\ now' \in {now, now + 1}
    BY <1>3 DEF Codes!Tick, Codes!ShowImage, Codes!SendRefused
  <2>2. now \in Nat
    BY DEF CodesInv, Codes!TypeOK
  <2> QED BY <1>1, <2>1, <2>2, CodesStand DEF CodesInv
<1>4. CASE \/ \E ph \in CodePhone : Codes!SendAdmitted(Only, ph)
           \/ \E t \in Codes!Token : Codes!ApiSend(Only, t)
           \/ \E ph \in CodePhone, c \in Code :
                  \/ Codes!CheckExists(Only, ph, c)
                  \/ Codes!Confirm(Only, ph, c) \/ Codes!Grant(Only, ph, c)
  BY <1>1, <1>4, CodesSend, CodesStart DEF CodesInv
<1>5. CASE \/ Codes!IncrementGet(Only) \/ Codes!IncrementSave(Only)
           \/ Codes!ClearGet(Only) \/ Codes!ClearDelete(Only)
           \/ Codes!SendLook(Only) \/ Codes!SendAge(Only)
           \/ Codes!CheckList(Only) \/ Codes!CheckNewest(Only)
  BY <1>1, <1>5, CodesIncrementGet, CodesIncrementSave, CodesClear, CodesLook, CodesCheck
     DEF CodesInv
<1>6. CASE \/ Codes!ExpireOlder(Only) \/ Codes!CheckSave(Only) \/ Codes!ConfirmSave(Only)
           \/ Codes!New(Only)
  BY <1>1, <1>6, CodesSaves, CodesNew DEF CodesInv
<1>7. CASE Codes!Finish(Only)
  <2>1. /\ codeReq[Only].pc = "granted" /\ UNCHANGED <<now, row, failures, free>>
        /\ Codes!Become(Only, Codes!Idle)
    BY <1>7 DEF Codes!Finish, Codes!Done
  <2>2. \A ph : ~Uncounted(codeReq[Only], ph)
    BY <2>1 DEF Uncounted
  <2> QED BY <1>1, <2>1, <2>2, CodesMove, CodesIdle DEF CodesInv
<1>8. CASE \/ Codes!ConfirmList(Only) \/ Codes!GrantClock(Only) \/ Codes!GrantList(Only)
  BY <1>1, <1>8, CodesRead DEF CodesInv
<1> QED BY <1>2, <1>3, <1>4, <1>5, <1>6, <1>7, <1>8
    DEF Codes!Next, Codes!WebStart, Codes!ApiStart, Codes!Continue

\* At the start no code was sent.
LEMMA CodesInit == ASSUME Codes!Init PROVE CodesInv
<1> USE AssumptionOfCodes DEF Codes!SmsAssumption
<1>1. Codes!TypeOK
  <2>1. Codes!NoFailure \in Codes!Failure
    BY DEF Codes!NoFailure, Codes!Failure
  <2> QED BY <2>1, CodesAbsentType, CodesIdleType DEF Codes!Init, Codes!TypeOK
<1>2. /\ \A c \in Code : row[c] = Codes!Absent
      /\ Codes!Absent.status = "absent" /\ Codes!Absent.token = NULL /\ Codes!Absent.created = 0
      /\ codeReq[Only] = Codes!Idle
      /\ \A ph \in CodePhone : free[ph] = 0 /\ failures[ph].count = 0
      /\ now = 0
  BY DEF Codes!Init, Codes!Absent, Codes!NoFailure, Codes!Proc
<1>3. Tables /\ Codes!WaitingCodesSpaced
  BY <1>2 DEF Tables, Codes!WaitingCodesSpaced
<1>4. ASSUME NEW ph \in CodePhone PROVE Counted(codeReq[Only], ph)
  <2>1. ~Uncounted(codeReq[Only], ph)
    BY <1>2, CodesIdle DEF Uncounted
  <2> QED BY <1>2, <2>1 DEF Counted
<1> QED BY <1>1, <1>2, <1>3, <1>4, CodesIdle DEF CodesInv, CodesRest

-----------------------------------------------------------------------------
(* The behaviours of the server.                                           *)

\* One part of the server takes a step; the others stay as they are.
LEMMA ServerSteps ==
    ASSUME [Next]_<<on, alone, accountVars, codeVars, userVars, logVars>>
    PROVE  /\ Accounts!Next \/ UNCHANGED accountVars
           /\ Codes!Next \/ UNCHANGED codeVars
           /\ Users!Next \/ UNCHANGED userVars
           /\ Logs!Next \/ UNCHANGED logVars
BY Zenon DEF Next

\* The same with the isolation of requests that alone stands for.
LEMMA TurnsSteps ==
    ASSUME [Next]_<<on, alone, accountVars, codeVars, userVars, logVars>>
    PROVE  alone' = alone /\ (alone => (Users!Next /\ ~Overlap') \/ UNCHANGED userVars)
BY Zenon DEF Next

\* The users' invariant holds in every behaviour.
LEMMA UsersAlways == Spec => []UsersInv
<1>1. Init => UsersInv
  BY UsersInit DEF Init
<1>2. UsersInv /\ [Next]_<<on, alone, accountVars, codeVars, userVars, logVars>> => UsersInv'
  <2>1. ASSUME UsersInv, UNCHANGED userVars PROVE UsersInv'
    BY <2>1 DEF UsersInv, Users!TypeOK, Users!OwnWays, PhonesOfUsers, UserInHand, userVars
  <2> QED BY <2>1, ServerSteps, UsersNext
<1> QED BY <1>1, <1>2, PTL DEF Spec

\* student/api/v2/user.py: whatever requests overlap, and whatever old row is saved over
\* a newer one, the phone of a user is one that he holds and his password one he chose.
THEOREM UsersOwnTheirWays == Spec => []Users!OwnWays
<1>1. UsersInv => Users!OwnWays
  BY DEF UsersInv
<1> QED BY <1>1, UsersAlways, PTL

\* student/api/v1/log.py and v2/logs.py, UserPhoneView and UserProfileView: in every
\* behaviour, crashes included, a request that is answered by an error saved nothing, and
\* a log that was answered to be stored is in a file that nothing renames again.
THEOREM AnswersAlwaysTrue == Spec => []AnswersTrue
<1>1. Init => LogsInv
  BY LogsInit DEF Init
<1>2. LogsInv /\ [Next]_<<on, alone, accountVars, codeVars, userVars, logVars>> => LogsInv'
  <2>1. ASSUME LogsInv, UNCHANGED logVars PROVE LogsInv'
    BY <2>1 DEF LogsInv, Logs!TypeOK, AllNamed, LogInHand, Logs!StoredIsKept, logVars
  <2> QED BY <2>1, ServerSteps, LogsNext
<1>3. UsersInv => Users!RefusedIsNothing
  BY DEF UsersInv, UserInHand, Users!RefusedIsNothing, Users!At
<1>4. LogsInv => Logs!StoredIsKept
  BY DEF LogsInv
<1> QED BY <1>1, <1>2, <1>3, <1>4, UsersAlways, PTL DEF Spec, AnswersTrue

\* student/api/v2/user.py: while requests take turns, a user's phone, password and e-mail
\* change only into what a request of his asks for.
THEOREM TurnsChangeAsAsked == Spec => [][alone => \A u \in User : Users!ChangesAsked(u)]_userVars
<1>1. Init => TurnsInv
  <2>1. Users!Idle.pc = "idle"
    BY DEF Users!Idle
  <2> QED BY <2>1 DEF Init, Users!Init, TurnsInv, Overlap, UpToDate, Users!At
<1>2. ASSUME UsersInv, TurnsInv, [Next]_<<on, alone, accountVars, codeVars, userVars, logVars>>
      PROVE  TurnsInv' /\ [alone => \A u \in User : Users!ChangesAsked(u)]_userVars
  <2>1. CASE alone
    BY <1>2, <2>1, TurnsSteps, TurnsNext
  <2>2. CASE ~alone
    BY <1>2, <2>2, TurnsSteps DEF TurnsInv
  <2> QED BY <2>1, <2>2
<1>3. UsersInv /\ TurnsInv /\ [Next]_<<on, alone, accountVars, codeVars, userVars, logVars>> =>
          TurnsInv' /\ [alone => \A u \in User : Users!ChangesAsked(u)]_userVars
  BY <1>2
<1> QED BY <1>1, <1>3, UsersAlways, PTL DEF Spec

\* The accounts' invariant holds in every behaviour.
LEMMA AccountsAlways ==
    ASSUME AccountsInv, [Next]_<<on, alone, accountVars, codeVars, userVars, logVars>>
    PROVE  /\ AccountsInv'
           /\ Accounts!Next \/ UNCHANGED accountVars
<1>1. ASSUME UNCHANGED accountVars PROVE AccountsInv'
  BY <1>1 DEF AccountsInv, AccountsRest, Accounts!TypeOK, Registry, Accounts!KeepsALogin,
     Accounts!Known, AccountInHand, Stays, Accounts!OfProvider, Accounts!Of,
     Accounts!Present, accountVars
<1> QED BY <1>1, ServerSteps, AccountsNext

\* So does the codes'.
LEMMA CodesAlways ==
    ASSUME CodesInv, [Next]_<<on, alone, accountVars, codeVars, userVars, logVars>>
    PROVE  /\ CodesInv'
           /\ Codes!Next \/ UNCHANGED codeVars
<1>1. ASSUME UNCHANGED codeVars PROVE CodesInv'
  <2>1. UNCHANGED <<row, failures, codeReq, free>> /\ now' \in Nat /\ now' >= now
    BY <1>1 DEF CodesInv, Codes!TypeOK, codeVars
  <2>2. Codes!TypeOK'
    BY <1>1 DEF CodesInv, Codes!TypeOK, codeVars
  <2> QED BY <2>1, <2>2, CodesStand DEF CodesInv
<1> QED BY <1>1, ServerSteps, CodesNext

\* social_oauth/views.py, social_oauth/utils.py and UserPhoneView, for requests that do not
\* overlap: a user has at most one account of a provider, and there is always a password or
\* an account he can log in with, whatever he binds, unbinds and disconnects and wherever
\* a request breaks off. His phone and password are his own even if requests do overlap.
THEOREM LoginsAlwaysKept == Spec => []LoginsKept
<1>1. Init => AccountsInv
  BY AccountsInit DEF Init
<1>2. AccountsInv /\ [Next]_<<on, alone, accountVars, codeVars, userVars, logVars>> => AccountsInv'
  BY AccountsAlways
<1>3. AccountsInv => Accounts!OneAccountPerProvider /\ Accounts!KeepsALogin
  BY AccountsCounted DEF AccountsInv, AccountsRest, Registry
<1> QED BY <1>1, <1>2, <1>3, UsersOwnTheirWays, PTL DEF Spec, LoginsKept

\* social_oauth/sms.py and student/api/v2/phone.py, for requests that do not overlap: no
\* more than MAX_FAILED messages go out to a phone without a captcha before a code is
\* answered, codes that wait for the same phone are more than FREQUENTLY_TIME apart, and an
\* authtoken buys one.
THEOREM CodesAlwaysRationed == Spec => []CodesRationed
<1>1. Init => CodesInv
  BY CodesInit DEF Init
<1>2. CodesInv /\ [Next]_<<on, alone, accountVars, codeVars, userVars, logVars>> => CodesInv'
  BY CodesAlways
<1>3. CodesInv => CodesRationed
  <2>1. CodesInv => Codes!CaptchaAfterThree
    BY DEF CodesInv, CodesRest, Counted, Codes!CaptchaAfterThree
  <2>2. CodesInv => Codes!WaitingCodesSpaced /\ Codes!TokenBuysOneCode
    BY DEF CodesInv, CodesRest, Tables, Codes!TokenBuysOneCode
  <2> QED BY <2>1, <2>2 DEF CodesRationed
<1> QED BY <1>1, <1>2, <1>3, PTL DEF Spec
=============================================================================

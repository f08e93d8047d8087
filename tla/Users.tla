-------------------------------- MODULE Users --------------------------------
(***************************************************************************)
(* Users and their profiles (student/api/v2/user.py, v1/register.py):      *)
(* registering by phone, resetting and changing a password, editing the    *)
(* profile, binding a phone or an e-mail.                                  *)
(*                                                                         *)
(* A handler reads the user's row, the profile's row or both, changes them *)
(* in memory and saves them whole; every save commits by itself, and other *)
(* requests run in between.  A row is read in a step of its own, which may *)
(* follow the request's beginning at once: so a row read from the snapshot *)
(* of REPEATABLE READ is among the cases.                                  *)
(*                                                                         *)
(* Whoever types a confirmed code holds the phone it was sent to, and      *)
(* whoever sends a user's token is that user.  Codes are SmsValidate's:    *)
(* here a holder has one of the last five minutes, or has not.  Columns    *)
(* that no operation here decides on are left out.                         *)
(***************************************************************************)
EXTENDS Integers, Functions

CONSTANTS
    User, Phone, Secret, Email, Person, Worker,
    NULL,     \* no row, no value, or not asked for
    human,    \* human[u] is the person behind the user u
    holder,   \* holder[ph] is the person with that phone
    chooser   \* chooser[s] is the person who makes up that password

UsersAssumption ==
    /\ human \in [User -> Person] /\ holder \in [Phone -> Person]
    /\ chooser \in [Secret -> Person]
    /\ NULL \notin User \cup Phone \cup Secret \cup Email

VARIABLES
    users,    \* table auth_user: password and e-mail
    phone,    \* table auth_userprofile: phone_number
    req       \* the request each worker serves

userVars == <<users, phone, req>>

-----------------------------------------------------------------------------
(* Rows and requests                                                       *)

Row == [password : Secret \cup {NULL}, email : Email \cup {NULL}]
Bare == [password |-> NULL, email |-> NULL]

NullAssumption == NULL \notin Row

Asked == [phone : Phone \cup {NULL}, password : Secret \cup {NULL}, email : Email \cup {NULL}]
Nothing == [phone |-> NULL, password |-> NULL, email |-> NULL]

Operation == {"reset", "change", "edit", "put", "bind", "email"}
Label == {"idle", "user", "profile", "check", "saveProfile", "saveUser", "refused"}

Request == [pc : Label, op : Operation \cup {NULL}, user : User \cup {NULL}, ask : Asked,
            row : Row,                  \* request.user or profile.user, in memory
            phone : Phone \cup {NULL},  \* phone_number of the profile in memory
            saved : BOOLEAN]            \* history: something was saved for this request

Idle == [pc |-> "idle", op |-> NULL, user |-> NULL, ask |-> Nothing, row |-> Bare,
         phone |-> NULL, saved |-> FALSE]

TypeOK ==
    /\ users \in [User -> Row \cup {NULL}] /\ phone \in [User -> Phone \cup {NULL}]
    /\ req \in [Worker -> Request]

\* Some users were registered through an account of a provider.
Init ==
    /\ users \in [User -> {NULL, Bare}] /\ phone = [u \in User |-> NULL]
    /\ req = [p \in Worker |-> Idle]

At(p, label) == req[p].pc = label
Become(p, r) == req' = [req EXCEPT ![p] = r]
Done(p) == Become(p, Idle)
\* The handler raises: a 500, which tells nothing of what was saved.
Break(p) == Become(p, Idle)
Refuse(p) == Become(p, [Idle EXCEPT !.pc = "refused", !.saved = req[p].saved])
Begin(p, label, op, u, ask) ==
    /\ At(p, "idle")
    /\ Become(p, [Idle EXCEPT !.pc = label, !.op = op, !.user = u, !.ask = ask])
    /\ UNCHANGED <<users, phone>>

\* check_validate_used raises unless a code of the phone was confirmed and
\* typed: it may for a holder, whose code is too old, and does for anybody else.
Proves(w, ph) == ph \in Phone /\ holder[ph] = w

-----------------------------------------------------------------------------
(* Beginnings of requests                                                  *)

\* create_user_with_email, create_tv_user; _do_create_account writes both
\* rows or none, and refuses an e-mail or a phone that somebody has
FreeEmail(e) == \A v \in User : users[v] # NULL => users[v].email # e
CreateUser(u, e, s) ==
    /\ users[u] = NULL /\ human[u] = chooser[s] /\ (e # NULL => FreeEmail(e))
    /\ users' = [users EXCEPT ![u] = [password |-> s, email |-> e]]
    /\ UNCHANGED <<phone, req>>

\* create_user_with_phone
CreateUserWithPhone(u, ph, s) ==
    /\ users[u] = NULL /\ human[u] = chooser[s]
    /\ Proves(human[u], ph) /\ ph \notin Range(phone)
    /\ users' = [users EXCEPT ![u] = [Bare EXCEPT !.password = s]]
    /\ phone' = [phone EXCEPT ![u] = ph]
    /\ UNCHANGED req

\* mutant: the code may be anybody's
ResetAnybody(p, u, ph, s) ==
    /\ phone[u] = ph
    /\ Begin(p, "user", "reset", u, [Nothing EXCEPT !.password = s])

\* reset_password_with_phone
ResetPassword(p, u, ph, s) ==
    /\ Proves(chooser[s], ph) /\ phone[u] = ph
    /\ Begin(p, "user", "reset", u, [Nothing EXCEPT !.password = s])

\* PasswordView.put
ChangePassword(p, u, s) ==
    /\ users[u] # NULL /\ human[u] = chooser[s]
    /\ Begin(p, "user", "change", u, [Nothing EXCEPT !.password = s])

\* Profile.post of the first version: the profile is read before the user
EditProfile(p, u, s) ==
    /\ users[u] # NULL /\ (s # NULL => human[u] = chooser[s])
    /\ Begin(p, "profile", "edit", u, [Nothing EXCEPT !.password = s])

\* UserProfileView.put
PutProfile(p, u, ph) ==
    /\ users[u] # NULL
    /\ Begin(p, "profile", "put", u, [Nothing EXCEPT !.phone = ph])

\* UserPhoneView.post
BindPhone(p, u, ph, s) ==
    /\ users[u] # NULL /\ (s # NULL => human[u] = chooser[s])
    /\ Begin(p, "user", "bind", u, [Nothing EXCEPT !.phone = ph, !.password = s])

\* UserEmailView.post
BindEmail(p, u, e, s) ==
    /\ users[u] # NULL /\ (s # NULL => human[u] = chooser[s])
    /\ Begin(p, "user", "email", u, [Nothing EXCEPT !.email = e, !.password = s])

-----------------------------------------------------------------------------
(* Steps of requests                                                       *)

\* The row as set_password and the new address make it.
Changed(row, ask) ==
    [password |-> IF ask.password = NULL THEN row.password ELSE ask.password,
     email |-> IF ask.email = NULL THEN row.email ELSE ask.email]

\* The user's row is read.  authenticate() finds nobody by a wrong password or
\* without one; an edit of the first version need not change it.
ReadUser(p) ==
    LET r == req[p]
        row == users[r.user]
        next == IF r.op \in {"bind", "email"} THEN "check"
                ELSE IF r.ask.password = NULL THEN "saveProfile" ELSE "saveUser"
        authenticates == r.op \in {"change", "edit"}
    IN  /\ At(p, "user")
        /\ \/ authenticates /\ Refuse(p)
           \/ /\ authenticates => row.password # NULL
              /\ Become(p, [r EXCEPT !.row = IF next = "saveProfile" THEN Bare ELSE row, !.pc = next])
        /\ UNCHANGED <<users, phone>>

\* Who has a password cannot bind one.
AdmitsPassword(r) == r.ask.password = NULL \/ r.row.password = NULL

\* check_validate_used and the password of UserPhoneView
CheckPhone(p) ==
    LET r == req[p]
    IN  /\ At(p, "check") /\ r.op = "bind"
        /\ \/ Refuse(p)
           \/ /\ Proves(human[r.user], r.ask.phone) /\ AdmitsPassword(r)
              /\ Become(p, [r EXCEPT !.pc = "profile"])
        /\ UNCHANGED <<users, phone>>

\* UserEmailView; _change_email_request may refuse too
CheckEmail(p) ==
    LET r == req[p]
    IN  /\ At(p, "check") /\ r.op = "email"
        /\ \/ Refuse(p)
           \/ /\ FreeEmail(r.ask.email) /\ r.row.email = NULL /\ AdmitsPassword(r)
              /\ Become(p, [r EXCEPT !.pc = "saveUser"])
        /\ UNCHANGED <<users, phone>>

\* The phone number with which the profile is saved.
NewPhone(r) == IF r.ask.phone = NULL THEN phone[r.user] ELSE r.ask.phone

\* Who has no phone cannot put another, who has one cannot bind; the code is
\* checked, in UserPhoneView for the second time.
AdmitsPhone(r) ==
    \/ r.ask.phone = NULL
    \/ /\ (r.op = "put") <=> (phone[r.user] # NULL)
       /\ Proves(human[r.user], r.ask.phone)

\* mutant: the user is saved before the profile
ReadProfileHasty(p) ==
    LET r == req[p]
    IN  /\ At(p, "profile")
        /\ \/ r.ask.phone # NULL /\ Refuse(p) /\ UNCHANGED users
           \/ /\ AdmitsPhone(r)
              /\ Become(p, [r EXCEPT !.phone = NewPhone(r), !.saved = r.op = "bind",
                                       !.pc = IF r.op = "edit" THEN "user" ELSE "saveProfile"])
              /\ users' = IF r.op = "bind" THEN [users EXCEPT ![r.user] = Changed(r.row, r.ask)]
                          ELSE users
        /\ UNCHANGED phone

\* The profile's row is read.
ReadProfile(p) ==
    LET r == req[p]
    IN  /\ At(p, "profile")
        /\ \/ r.ask.phone # NULL /\ Refuse(p)
           \/ /\ AdmitsPhone(r)
              /\ Become(p, [r EXCEPT !.phone = NewPhone(r),
                                     !.pc = IF r.op = "edit" THEN "user" ELSE "saveProfile"])
        /\ UNCHANGED <<users, phone>>

TakenPhone(r) == r.phone # NULL /\ \E v \in User \ {r.user} : phone[v] = r.phone

\* profile.save(): IntegrityError is an answer, except where nothing catches it;
\* Profile.post of the first version has saved the password by then
SaveProfile(p) ==
    LET r == req[p]
    IN  /\ At(p, "saveProfile")
        /\ IF TakenPhone(r)
           THEN (IF r.op = "edit" THEN Break(p) ELSE Refuse(p)) /\ UNCHANGED phone
           ELSE /\ phone' = [phone EXCEPT ![r.user] = r.phone]
                /\ IF r.op = "bind" THEN Become(p, [r EXCEPT !.pc = "saveUser", !.phone = NULL, !.saved = TRUE])
                   ELSE Done(p)
        /\ UNCHANGED users

\* user.save()
SaveUser(p) ==
    LET r == req[p]
    IN  /\ At(p, "saveUser")
        /\ users' = [users EXCEPT ![r.user] = Changed(r.row, r.ask)]
        /\ IF r.op = "edit" THEN Become(p, [r EXCEPT !.pc = "saveProfile", !.row = Bare, !.saved = TRUE])
           ELSE Done(p)
        /\ UNCHANGED phone

\* The error is answered.
AnswerError(p) == At(p, "refused") /\ Done(p) /\ UNCHANGED <<users, phone>>

\* A worker dies or its handler raises.
Crash(p) == ~At(p, "idle") /\ Break(p) /\ UNCHANGED <<users, phone>>

-----------------------------------------------------------------------------
(* The specification                                                       *)

Start(p) ==
    \E u \in User, ph \in Phone \cup {NULL}, s \in Secret \cup {NULL} :
        \/ s # NULL /\ ChangePassword(p, u, s)
        \/ EditProfile(p, u, s)
        \/ PutProfile(p, u, ph)
        \/ ph # NULL /\ BindPhone(p, u, ph, s)
        \/ ph # NULL /\ s # NULL /\ ResetPassword(p, u, ph, s)
        \/ \E e \in Email : BindEmail(p, u, e, s)

Step(p) ==
    \/ ReadUser(p) \/ CheckPhone(p) \/ CheckEmail(p) \/ ReadProfile(p)
    \/ SaveProfile(p) \/ SaveUser(p) \/ AnswerError(p)

Environment ==
    \/ \E u \in User, s \in Secret, ph \in Phone : CreateUserWithPhone(u, ph, s)
    \/ \E u \in User, s \in Secret, e \in Email \cup {NULL} : CreateUser(u, e, s)

Next == Environment \/ \E p \in Worker : Start(p) \/ Step(p) \/ Crash(p)

Spec == Init /\ [][Next]_userVars

-----------------------------------------------------------------------------
(* Properties                                                              *)

\* Whatever overlaps, and whatever old row is saved over a newer one: the
\* phone of a user's profile is one that he holds, no two users have the same,
\* and his password is one that he chose (reset_password_with_phone may only be
\* called once a code sent to the phone was checked).
OwnWays ==
    \A u \in User :
        /\ phone[u] # NULL => holder[phone[u]] = human[u]
        /\ \A v \in User \ {u} : phone[u] # NULL => phone[v] # phone[u]
        /\ users[u] # NULL /\ users[u].password # NULL => chooser[users[u].password] = human[u]

\* A request that its handler refuses has saved nothing, neither of the user nor
\* of his profile: UserPhoneView saves the row that may collide first.  A 500 is
\* no refusal (Break).
RefusedIsNothing == \A p \in Worker : At(p, "refused") => ~req[p].saved

\* While requests do not overlap: a user's phone, password or e-mail changes
\* only into what a request of his asks for.
Asks(u, field, value) == value # NULL /\ \E p \in Worker : req[p].user = u /\ req[p].ask[field] = value
ChangesAsked(u) ==
    users[u] # NULL =>
        /\ phone'[u] # phone[u] => Asks(u, "phone", phone'[u])
        /\ \A field \in {"password", "email"} :
               users'[u][field] # users[u][field] => Asks(u, field, users'[u][field])
AsAsked == [][\A u \in User : ChangesAsked(u)]_userVars
=============================================================================

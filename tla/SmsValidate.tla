---------------------------- MODULE SmsValidate ----------------------------
(***************************************************************************)
(* SMS verification codes: the tables SMSValidate and                      *)
(* SMSValidateCheckFailures (social_oauth/models.py), the web handlers     *)
(* send_sms_validate and check_sms_validate (social_oauth/sms.py) and the  *)
(* API handlers SMSValidateView, SMSValidateConfirmView and                *)
(* check_validate_used (student/api/v2/phone.py).                          *)
(*                                                                         *)
(* No view of the project runs in a transaction of its own (no             *)
(* TransactionMiddleware is installed), so every ORM call commits alone:   *)
(* one action is one ORM call, and the calls of different workers          *)
(* interleave.  A worker is a web-server process together with the browser *)
(* session whose requests it serves one after the other.                   *)
(***************************************************************************)
EXTENDS Integers, FiniteSets

CONSTANTS
    Phone,            \* phone numbers
    Code,             \* the values uuid4().int can give a code
    WebProc, ApiProc, \* workers serving web and API requests (may overlap)
    Serial,           \* how many authtokens a client can make for one phone
    NULL,             \* "no value"
    FREQUENTLY_TIME,  \* 60 s in the code
    EXPIRE_TIME,      \* 600 s in the code
    TIME_OUT,         \* 300 s: time_out=60*5 of the API handlers
    LOCKOUT_PERIOD,   \* 30 s: MAX_FAILED_ATTEMPTS_LOCKOUT_PERIOD_SECS
    DAY,              \* 86400 s: where timedelta.seconds wraps
    MAX_FAILED,       \* MAX_FAILED_ATTEMPTS_ALLOWED
    MaxTime,          \* bound: the clock stops here
    MaxCount          \* bound: counters stay here; at least MAX_FAILED

ASSUME SmsAssumption ==
    /\ Phone # {} /\ Code # {}
    /\ FREQUENTLY_TIME \in Nat /\ EXPIRE_TIME \in Nat /\ TIME_OUT \in Nat
    /\ LOCKOUT_PERIOD \in Nat
    /\ DAY \in Nat \ {0} /\ MAX_FAILED \in Nat \ {0}
    /\ MaxTime \in Nat /\ MaxCount \in Nat /\ MaxCount >= MAX_FAILED
    /\ NULL \notin Phone \cup Code \cup Nat \cup [at : Nat, saved : Nat, phone : Phone]

Proc == WebProc \cup ApiProc

VARIABLES
    now,       \* the clock
    row,       \* table SMSValidate, keyed by the unique column validate
    failures,  \* table SMSValidateCheckFailures, keyed by phone_number
    session,   \* what each worker's session holds under sms_verify
    req,       \* the request each worker is serving
    proof,     \* history: the last request saved that brought this code
    free       \* history: sends not asked for a captcha since last clear

vars == <<now, row, failures, session, req, proof, free>>

(***************************************************************************)
(* Tables and requests                                                     *)
(***************************************************************************)
Token  == Phone \X Serial
Status == {"wait", "outOfDate", "failed", "success"}

\* An authtoken decodes to phone#uuid#timestamp; web requests send ''.
Row == [status : Status \cup {"absent"}, phone : Phone,
        token : Token \cup {NULL}, created : Nat, updated : Nat]

Absent == [status |-> "absent", phone |-> CHOOSE ph \in Phone : TRUE,
           token |-> NULL, created |-> 0, updated |-> 0]

Failure == [id : Nat, count : Nat, until : Nat \cup {NULL}]

NoFailure == [id |-> 0, count |-> 0, until |-> NULL]

Label == {"idle", "incrementGet", "incrementSave", "sendLook", "sendAge",
          "new", "checkList", "expireOlder", "checkSave", "clearGet",
          "clearDelete", "confirmList", "confirmSave", "grantClock", "grantList",
          "granted"}

Request == [pc : Label, phone : Phone, token : Token \cup {NULL},
            typed : Code \cup {NULL},   \* the code the client sent
            code : Code \cup {NULL},    \* the row in hand
            clock : Nat,                \* when it read the clock
            verdict : Status, older : SUBSET Code, fail : Failure,
            sending : BOOLEAN]

Idle == [pc |-> "idle", phone |-> Absent.phone, token |-> NULL,
         typed |-> NULL, code |-> NULL, clock |-> 0, verdict |-> "wait",
         older |-> {}, fail |-> NoFailure, sending |-> FALSE]

\* the phone a code was presented for, when, and when that was saved
Proof == [at : Nat, saved : Nat, phone : Phone]

TypeOK ==
    /\ now \in Nat
    /\ row \in [Code -> Row]
    /\ failures \in [Phone -> Failure]
    /\ session \in [Proc -> {"none", "answer", "!"}]
    /\ req \in [Proc -> Request]
    /\ proof \in [Code -> Proof \cup {NULL}]
    /\ free \in [Phone -> Nat]

Init ==
    /\ now = 0
    /\ row = [c \in Code |-> Absent]
    /\ failures = [ph \in Phone |-> NoFailure]
    /\ session = [p \in Proc |-> "none"]
    /\ req = [p \in Proc |-> Idle]
    /\ proof = [c \in Code |-> NULL]
    /\ free = [ph \in Phone |-> 0]

(***************************************************************************)
(* Queries                                                                 *)
(***************************************************************************)

\* timedelta.seconds: the part of the age below one day
DeltaSeconds(c) == (now - row[c].created) % DAY

IsOutOfDate(c) == DeltaSeconds(c) >= EXPIRE_TIME

\* mutant: a code exactly FREQUENTLY_TIME old may already be followed
FrequentlyOffByOne(c) == DeltaSeconds(c) < FREQUENTLY_TIME

IsTooFrequently(c) == DeltaSeconds(c) <= FREQUENTLY_TIME

Waiting(ph) == {c \in Code : row[c].status = "wait" /\ row[c].phone = ph}

\* first element of order_by('-created_at'): columns tie within one second
Newest(S) == {c \in S : \A d \in S : row[d].created <= row[c].created}

\* mutant: a row exactly TIME_OUT old still counts
RecentOffByOne(c, clock) == clock <= row[c].updated + TIME_OUT

\* the row is recent enough for an API handler that read the clock
Recent(c, clock) == clock < row[c].updated + TIME_OUT

HasFailures(ph) == failures[ph].id # 0

\* mutant: one attempt too many
LockedOutLate(ph) == HasFailures(ph) /\ failures[ph].count > MAX_FAILED

IsPhoneLockedOut(ph) == HasFailures(ph) /\ failures[ph].count >= MAX_FAILED

\* mutant: only codes still waiting are looked up
TokenWaiting(t) == \E c \in Code : row[c].status = "wait" /\ row[c].token = t

\* SMSValidateView: SMSValidate.objects.filter(token=authtoken).exists()
TokenUsed(t) == \E c \in Code : row[c].status # "absent" /\ row[c].token = t

\* mutant: the query forgets ~Q(status=SMS_OUT_OF_DATE)
ConfirmableAny(c, ph) == row[c].status # "absent" /\ row[c].phone = ph

\* SMSValidateConfirmView: rows of this phone and code not out of date
\* (at most one, the column is unique)
Confirmable(c, ph) ==
    row[c].status \notin {"absent", "outOfDate"} /\ row[c].phone = ph

\* check_validate_used: rows of this phone and code that were confirmed
Validated(c, ph) == row[c].status = "success" /\ row[c].phone = ph

(***************************************************************************)
(* Writes                                                                  *)
(***************************************************************************)
Become(p, r) == req' = [req EXCEPT ![p] = r]

Goto(p, label) == Become(p, [req[p] EXCEPT !.pc = label])

\* the response is sent, or an exception ends the request with a 500
Done(p) == Become(p, Idle)

\* obj.save() writes the whole row; only status and updated_at can differ
SaveStatus(c, s) ==
    row' = [row EXCEPT ![c].status = s, ![c].updated = now]

\* history: what request p brought is saved, the code c for its phone
RecordProof(p, c) ==
    proof' = [proof EXCEPT ![c] = [at |-> req[p].clock, saved |-> now,
                                   phone |-> req[p].phone]]

(***************************************************************************)
(* SMSValidateCheckFailures                                                *)
(***************************************************************************)

\* Counters are compared with MAX_FAILED only, so they may stop at MaxCount.
Inc(n) == IF n < MaxCount THEN n + 1 ELSE n

\* The database never hands out a primary key twice; the model takes the
\* least one that no request still holds, which no comparison can tell apart.
Fresh(id) ==
    LET Free(i) == \A p \in Proc : req[p].fail.id # i
    IN  Free(id) /\ \A i \in 1 .. (id - 1) : ~Free(i)

\* increment_lockout_counter: get_or_create reads the record
IncrementGet(p) ==
    LET ph == req[p].phone IN
    /\ req[p].pc = "incrementGet"
    /\ IF HasFailures(ph)
       THEN /\ Become(p, [req[p] EXCEPT !.pc = "incrementSave",
                                        !.fail = failures[ph]])
            /\ UNCHANGED failures
       ELSE \E id \in 1 .. (Cardinality(Proc) + 1) :
              /\ Fresh(id)
              /\ failures' = [failures EXCEPT ![ph] = [NoFailure EXCEPT !.id = id]]
              /\ Become(p, [req[p] EXCEPT !.pc = "incrementSave",
                                          !.fail = [NoFailure EXCEPT !.id = id]])
    /\ UNCHANGED <<now, row, session, proof, free>>

\* record.save(): UPDATE by primary key, INSERT if the row has gone, and an
\* IntegrityError if the phone got another row in the meantime
IncrementSave(p) ==
    LET ph == req[p].phone
        n == Inc(req[p].fail.count)
        rec == [id |-> req[p].fail.id, count |-> n,
                until |-> IF n >= MAX_FAILED THEN now + LOCKOUT_PERIOD
                          ELSE req[p].fail.until]
    IN
    /\ req[p].pc = "incrementSave"
    /\ IF HasFailures(ph) /\ failures[ph].id # rec.id
       THEN UNCHANGED failures /\ Done(p)
       ELSE /\ failures' = [failures EXCEPT ![ph] = rec]
            /\ IF req[p].sending
               THEN Become(p, [req[p] EXCEPT !.pc = "sendLook",
                                             !.fail = NoFailure])
               ELSE Done(p)
    /\ UNCHANGED <<now, row, session, proof, free>>

\* clear_lockout_counter: get, then delete by primary key
ClearGet(p) ==
    /\ req[p].pc = "clearGet"
    /\ IF HasFailures(req[p].phone)
       THEN Become(p, [req[p] EXCEPT !.pc = "clearDelete",
                                     !.fail = failures[req[p].phone]])
       ELSE Done(p)
    /\ UNCHANGED <<now, row, failures, session, proof, free>>

ClearDelete(p) ==
    LET ph == req[p].phone IN
    /\ req[p].pc = "clearDelete"
    /\ failures' = [failures EXCEPT
                      ![ph] = IF @.id = req[p].fail.id THEN NoFailure ELSE @]
    /\ free' = [free EXCEPT ![ph] = 0]
    /\ Done(p)
    /\ UNCHANGED <<now, row, session, proof>>

(***************************************************************************)
(* send_sms_validate (web) and SMSValidateView.post (API)                  *)
(***************************************************************************)

\* sms_validate_image stores the answer of a new captcha in
\* session['sms_verify']; send_sms_validate overwrites it with '!'
ShowImage(p) ==
    /\ req[p].pc = "idle"
    /\ session' = [session EXCEPT ![p] = "answer"]
    /\ UNCHANGED <<now, row, failures, req, proof, free>>

\* Who is locked out is asked for what his session holds, '!' included.
Locked(p) == session' = [session EXCEPT ![p] = "!"]

\* locked out, and nothing posted or something else
SendRefused(p, ph) ==
    /\ req[p].pc = "idle"
    /\ IsPhoneLockedOut(ph) /\ Locked(p)
    /\ UNCHANGED <<now, row, failures, req, proof, free>>

\* A session that holds nothing admits nobody: what is posted is not empty.
SendAdmitted(p, ph) ==
    /\ req[p].pc = "idle"
    /\ IF IsPhoneLockedOut(ph)
       THEN session[p] # "none" /\ Locked(p) /\ UNCHANGED free
       ELSE free' = [free EXCEPT ![ph] = Inc(@)] /\ UNCHANGED session
    /\ Become(p, [req[p] EXCEPT !.pc = "incrementGet", !.phone = ph,
                                !.sending = TRUE])
    /\ UNCHANGED <<now, row, failures, proof>>

\* SMSValidateView.post up to the authtoken test; the tests of the profile
\* table that follow only end the request or let it continue
ApiSend(p, t) ==
    /\ req[p].pc = "idle"
    /\ ~TokenUsed(t)
    /\ Become(p, [req[p] EXCEPT !.pc = "sendLook", !.phone = t[1],
                                !.token = t, !.sending = TRUE])
    /\ UNCHANGED <<now, row, failures, session, proof, free>>

\* sms_list.exists()
SendLook(p) ==
    /\ req[p].pc = "sendLook"
    /\ Goto(p, IF Waiting(req[p].phone) = {} THEN "new" ELSE "sendAge")
    /\ UNCHANGED <<now, row, failures, session, proof, free>>

\* sms_list[0] is a second query: an IndexError if the codes were just used
SendAge(p) ==
    /\ req[p].pc = "sendAge"
    /\ IF Waiting(req[p].phone) = {} THEN Done(p)
       ELSE \E c \in Newest(Waiting(req[p].phone)) :
               IF IsTooFrequently(c) THEN Done(p) ELSE Goto(p, "new")
    /\ UNCHANGED <<now, row, failures, session, proof, free>>

NewRow(p) == [status |-> "wait", phone |-> req[p].phone,
              token |-> req[p].token, created |-> now, updated |-> now]

\* mutant: a value may be issued again once its row is not waiting
InsertOver(p, c) ==
    IF row[c].status # "wait" THEN row' = [row EXCEPT ![c] = NewRow(p)]
    ELSE UNCHANGED row

\* SMSValidate.new saves the row before the message is handed to the
\* provider, whose answer changes nothing; a value that was ever issued
\* before makes the unique column raise IntegrityError
Insert(p, c) ==
    IF row[c].status = "absent" THEN row' = [row EXCEPT ![c] = NewRow(p)]
    ELSE UNCHANGED row

New(p) ==
    /\ req[p].pc = "new"
    /\ \E c \in Code : Insert(p, c)
    /\ Done(p)
    /\ UNCHANGED <<now, failures, session, proof, free>>

(***************************************************************************)
(* SMSValidate.check, called by check_sms_validate (web)                   *)
(***************************************************************************)

\* sms_list.exists(): without a waiting code the check fails at once
CheckExists(p, ph, c) ==
    /\ req[p].pc = "idle"
    /\ Become(p, [req[p] EXCEPT
                     !.pc = IF Waiting(ph) = {} THEN "incrementGet"
                            ELSE "checkList",
                     !.phone = ph, !.typed = c, !.clock = now])
    /\ UNCHANGED <<now, row, failures, session, proof, free>>

\* sms_list[1:], read when count() > 1
CheckList(p) ==
    LET w == Waiting(req[p].phone) IN
    /\ req[p].pc = "checkList"
    /\ IF w = {} THEN Goto(p, "expireOlder")
       ELSE \E c \in Newest(w) :
              Become(p, [req[p] EXCEPT !.pc = "expireOlder",
                                       !.older = w \ {c}])
    /\ UNCHANGED <<now, row, failures, session, proof, free>>

\* each.status = SMS_OUT_OF_DATE; each.save()
ExpireOlder(p) ==
    /\ req[p].pc = "expireOlder"
    /\ \E c \in Newest(req[p].older) :
         /\ SaveStatus(c, "outOfDate")
         /\ Become(p, [req[p] EXCEPT !.older = @ \ {c}])
    /\ UNCHANGED <<now, failures, session, proof, free>>

\* mutant: the codes are not compared
VerdictByAge(c, typed) ==
    IF IsOutOfDate(c) THEN "outOfDate"
    ELSE IF typed \in Code THEN "success" ELSE "failed"

\* mutant: a wrong code may be tried again
VerdictRetry(c, typed) ==
    IF IsOutOfDate(c) THEN "outOfDate"
    ELSE IF c = typed THEN "success" ELSE "wait"

\* mutant: a status no handler knows
VerdictRechecked(c, typed) ==
    IF IsOutOfDate(c) THEN "rechecked"
    ELSE IF c = typed THEN "success" ELSE "failed"

Verdict(c, typed) ==
    IF IsOutOfDate(c) THEN "outOfDate"
    ELSE IF c = typed THEN "success" ELSE "failed"

\* sms_obj = sms_list[0], queried again, and judged in memory
CheckNewest(p) ==
    LET w == Waiting(req[p].phone) IN
    /\ req[p].pc = "expireOlder" /\ req[p].older = {}
    /\ IF w = {} THEN Done(p)
       ELSE \E c \in Newest(w) :
              Become(p, [req[p] EXCEPT !.pc = "checkSave", !.code = c,
                                       !.verdict = Verdict(c, req[p].typed)])
    /\ UNCHANGED <<now, row, failures, session, proof, free>>

\* sms_obj.save(), then the counter is cleared or incremented
CheckSave(p) ==
    /\ req[p].pc = "checkSave"
    /\ SaveStatus(req[p].code, req[p].verdict)
    /\ IF req[p].typed = req[p].code
       THEN RecordProof(p, req[p].code) ELSE UNCHANGED proof
    /\ Become(p, [Idle EXCEPT
                     !.pc = IF req[p].verdict = "success" THEN "clearGet"
                            ELSE "incrementGet",
                     !.phone = req[p].phone])
    /\ UNCHANGED <<now, failures, session, free>>

(***************************************************************************)
(* SMSValidateConfirmView.post and check_validate_used (API)               *)
(***************************************************************************)

\* The clock is read before the rows, which list() fetches.
Confirm(p, ph, c) ==
    /\ req[p].pc = "idle"
    /\ Become(p, [req[p] EXCEPT !.pc = "confirmList", !.phone = ph,
                                !.typed = c, !.clock = now])
    /\ UNCHANGED <<now, row, failures, session, proof, free>>

\* every refusal leaves the tables alone, and so does a second confirmation
ConfirmList(p) ==
    LET c == req[p].typed IN
    /\ req[p].pc = "confirmList"
    /\ IF /\ Confirmable(c, req[p].phone) /\ Recent(c, req[p].clock)
          /\ row[c].status # "success"
       THEN Goto(p, "confirmSave") ELSE Done(p)
    /\ UNCHANGED <<now, row, failures, session, proof, free>>

ConfirmSave(p) ==
    /\ req[p].pc = "confirmSave"
    /\ SaveStatus(req[p].typed, "success")
    /\ RecordProof(p, req[p].typed)
    /\ Done(p)
    /\ UNCHANGED <<now, failures, session, free>>

\* check_validate_used: exists(), before the clock is read
Grant(p, ph, c) ==
    /\ req[p].pc = "idle"
    /\ Validated(c, ph)
    /\ Become(p, [req[p] EXCEPT !.pc = "grantClock", !.phone = ph,
                                !.typed = c])
    /\ UNCHANGED <<now, row, failures, session, proof, free>>

GrantClock(p) ==
    /\ req[p].pc = "grantClock"
    /\ Become(p, [req[p] EXCEPT !.pc = "grantList", !.clock = now])
    /\ UNCHANGED <<now, row, failures, session, proof, free>>

\* list() queries again (an IndexError if the row is confirmed no more), and
\* the caller may go on to register, bind or reset
GrantList(p) ==
    LET c == req[p].typed IN
    /\ req[p].pc = "grantList"
    /\ IF Validated(c, req[p].phone) /\ Recent(c, req[p].clock)
       THEN Goto(p, "granted") ELSE Done(p)
    /\ UNCHANGED <<now, row, failures, session, proof, free>>

\* the operation that asked for the grant is over
Finish(p) ==
    /\ req[p].pc = "granted"
    /\ Done(p)
    /\ UNCHANGED <<now, row, failures, session, proof, free>>

Tick ==
    /\ now < MaxTime
    /\ now' = now + 1
    /\ UNCHANGED <<row, failures, session, req, proof, free>>

WebStart(p) ==
    \/ ShowImage(p)
    \/ \E ph \in Phone :
         \/ SendRefused(p, ph) \/ SendAdmitted(p, ph)
         \/ \E c \in Code : CheckExists(p, ph, c)

ApiStart(p) ==
    \/ \E t \in Token : ApiSend(p, t)
    \/ \E ph \in Phone, c \in Code : Confirm(p, ph, c) \/ Grant(p, ph, c)

Continue(p) ==
    \/ IncrementGet(p) \/ IncrementSave(p)
    \/ ClearGet(p) \/ ClearDelete(p)
    \/ SendLook(p) \/ SendAge(p) \/ New(p)
    \/ CheckList(p) \/ ExpireOlder(p) \/ CheckNewest(p) \/ CheckSave(p)
    \/ ConfirmList(p) \/ ConfirmSave(p)
    \/ GrantClock(p) \/ GrantList(p) \/ Finish(p)

Next ==
    \/ Tick
    \/ \E p \in WebProc : WebStart(p)
    \/ \E p \in ApiProc : ApiStart(p)
    \/ \E p \in Proc : Continue(p)

Spec == Init /\ [][Next]_vars

-----------------------------------------------------------------------------
(***************************************************************************)
(* Properties under any interleaving                                       *)
(***************************************************************************)

\* An operation on a phone (register, bind, reset) is let through only if a
\* client presented exactly that code for exactly that phone, and TIME_OUT has
\* not gone by since, but for the time that the two requests took: that one
\* from the presentation to its save, this one from the clock to here.  Neither
\* stale full-row saves of a racing web check nor a late confirmation stretch
\* the window of check_validate_used any further.
GrantFollowsProof ==
    [][\A p \in Proc : req[p].pc # "granted" /\ req'[p].pc = "granted" =>
          LET pr == proof[req'[p].typed] IN
          /\ pr # NULL /\ pr.phone = req'[p].phone
          /\ now - pr.at < TIME_OUT + (pr.saved - pr.at) + (now - req[p].clock)]_vars

\* Once judged, a code never waits again, although every save writes back a
\* whole row read earlier: the web check cannot judge a code it has used up.
\* Nor does a value that was drawn before (IntegrityError) bring its row back.
NeverWaitingAgain ==
    [][\A c \in Code : row[c].status \notin {"wait", "absent"}
                          => row'[c].status # "wait"]_vars

\* A row marked as verified records, in updated_at, when the last presentation
\* of its code, for its phone, was saved: any save that marks it has seen one.
SuccessIsProved ==
    \A c \in Code : row[c].status = "success" =>
        /\ proof[c] # NULL
        /\ proof[c].phone = row[c].phone
        /\ proof[c].at <= proof[c].saved /\ proof[c].saved = row[c].updated

\* What a request holds in memory between two ORM calls: rows that exist
\* and belong to its phone, and a verdict that follows from the typed code.
HeldRows ==
    \A p \in Proc :
        /\ req[p].pc = "checkSave" =>
             /\ req[p].code \in Code
             /\ row[req[p].code].status # "absent"
             /\ row[req[p].code].phone = req[p].phone
             /\ req[p].verdict # "wait"
             /\ req[p].verdict = "success" => req[p].typed = req[p].code
        /\ req[p].pc \in {"confirmList", "confirmSave", "grantClock", "grantList"} =>
             req[p].typed \in Code
        /\ req[p].pc = "confirmSave" =>
             /\ row[req[p].typed].status # "absent"
             /\ row[req[p].typed].phone = req[p].phone
        /\ \A c \in req[p].older : row[c].status # "absent"

\* No request has read the clock in the future.
ClockRead == \A p \in Proc : req[p].clock <= now

\* The inductive invariant behind GrantFollowsProof and NeverWaitingAgain.
Inv == TypeOK /\ SuccessIsProved /\ HeldRows /\ ClockRead

(***************************************************************************)
(* Properties of a single worker (the tests exercise this case)            *)
(***************************************************************************)

\* send_sms_validate asks for a captcha after three sends without success: no
\* more than three go through without being asked.
CaptchaAfterThree == \A ph \in Phone : free[ph] <= MAX_FAILED

\* Two codes that wait together were sent more than a minute apart.
WaitingCodesSpaced ==
    \A c, d \in Code :
        /\ c # d /\ row[c].status = "wait" /\ row[d].status = "wait"
        /\ row[c].phone = row[d].phone
        => \/ row[c].created > row[d].created + FREQUENTLY_TIME
           \/ row[d].created > row[c].created + FREQUENTLY_TIME

\* One authtoken buys one message (AUTHTOKEN_OUT_OF_DATE).
TokenBuysOneCode ==
    \A c, d \in Code :
        /\ c # d /\ row[c].status # "absent" /\ row[d].status # "absent"
        /\ row[c].token # NULL
        => row[c].token # row[d].token

(***************************************************************************)
(* What docs, comments and tests say of codes; the runs *_says refute them *)
(***************************************************************************)

\* SMSValidate's docstring: EXPIRE_TIME is 600 seconds. The web check accepts
\* no code older than that.
CheckAcceptsFreshCode ==
    [][\A p \in Proc :
          req[p].pc = "expireOlder" /\ req'[p].pc = "checkSave"
          /\ req'[p].verdict = "success"
          => now < row[req'[p].code].created + EXPIRE_TIME]_vars
=============================================================================

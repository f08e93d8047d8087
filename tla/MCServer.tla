------------------------------ MODULE MCServer ------------------------------
(***************************************************************************)
(* Parts of the server side by side: accounts and SMS codes with one       *)
(* worker, for what is promised only while requests do not overlap; users  *)
(* with two, who take turns if alone holds; uploaded logs with two.  They  *)
(* share no state, so the one named by on takes all the steps.  The        *)
(* durations keep the order they have in the code (a minute, five, ten, a  *)
(* day).                                                                   *)
(***************************************************************************)
EXTENDS Integers, FiniteSets, TLC

CONSTANTS
    NULL,
    Only,      \* the worker of accounts and codes
    Worker,    \* those of users and logs
    Person,
    AccountUser, Account, Provider, provider, union, accountHolder, registered, MaxRow,
    CodePhone, Code, Serial, FREQUENTLY_TIME, EXPIRE_TIME, TIME_OUT, LOCKOUT_PERIOD, DAY,
    MAX_FAILED, MaxTime, MaxCount,
    User, Phone, Secret, Email, userHuman, phoneHolder, chooser,
    Upload, MaxFiles

VARIABLES on, alone, human, usable, contact, rows, last, socialReq,
          now, row, failures, session, codeReq, proof, free,
          users, phone, userReq,
          files, named, current, today, job, left, stored

accountVars == <<human, usable, contact, rows, last, socialReq>>
codeVars == <<now, row, failures, session, codeReq, proof, free>>
userVars == <<users, phone, userReq>>
logVars == <<files, named, current, today, job, left, stored>>

Accounts == INSTANCE SocialAccounts WITH
    User <- AccountUser, Worker <- {Only}, holder <- accountHolder, RepeatableRead <- TRUE,
    req <- socialReq

Codes == INSTANCE SmsValidate WITH
    Phone <- CodePhone, WebProc <- {Only}, ApiProc <- {Only}, req <- codeReq

Users == INSTANCE Users WITH human <- userHuman, holder <- phoneHolder, req <- userReq

Logs == INSTANCE Logs

ASSUME AssumptionOfUsers == Users!UsersAssumption
ASSUME NoRowIsNull == Users!NullAssumption
ASSUME AssumptionOfLogs == Logs!LogsAssumption
ASSUME AssumptionOfCodes == Codes!SmsAssumption
ASSUME AssumptionOfAccounts == Accounts!SocialAssumption
ASSUME NoAccountRowIsNull == Accounts!NullAssumption

Init ==
    /\ on \in {"accounts", "codes", "users", "logs"}
    /\ Accounts!Init /\ Codes!Init /\ Users!Init /\ Logs!Init
    /\ alone \in BOOLEAN /\ (on # "users" => alone /\ users = [u \in User |-> NULL])

Overlap == \E p, q \in Worker : p # q /\ ~Users!At(p, "idle") /\ ~Users!At(q, "idle")

Next ==
    /\ \/ on = "accounts" /\ Accounts!Next /\ UNCHANGED <<codeVars, userVars, logVars>>
       \/ on = "codes" /\ Codes!Next /\ UNCHANGED <<accountVars, userVars, logVars>>
       \/ on = "users" /\ Users!Next /\ (alone => ~Overlap') /\ UNCHANGED <<accountVars, codeVars, logVars>>
       \/ on = "logs" /\ Logs!Next /\ UNCHANGED <<accountVars, codeVars, userVars>>
    /\ UNCHANGED <<on, alone>>

Spec == Init /\ [][Next]_<<on, alone, accountVars, codeVars, userVars, logVars>>

-----------------------------------------------------------------------------
\* A user has one account of a provider at most, and always some way to log in:
\* what is checked before an account is added or removed still holds after it.
\* His phone is no other user's and one that he holds, his password one that he
\* chose; this while requests overlap, too.
LoginsKept == Accounts!OneAccountPerProvider /\ Accounts!KeepsALogin /\ Users!OwnWays

\* Messages are rationed: after three, one must post what the session holds (the
\* answer of a captcha, or the '!' that a refusal leaves there); a minute
\* between two codes that wait; one message for an authtoken.
CodesRationed ==
    /\ Codes!CaptchaAfterThree /\ Codes!WaitingCodesSpaced /\ Codes!TokenBuysOneCode

\* A request that its handler refuses has saved nothing of the user (a 500, with
\* which a request breaks off, tells nothing of that), and a log that was
\* written and answered stands in a file with a name.
AnswersTrue == Users!RefusedIsNothing /\ Logs!StoredIsKept

-----------------------------------------------------------------------------
(* The runs.  Ann can authenticate as a weixin openid and as two qq        *)
(* accounts, and has a user with a password.  Two users of Ann's may bind  *)
(* the same phone; Bob is none of them.                                    *)

ProviderOf == ("wx" :> "weixin") @@ ("qq1" :> "qq") @@ ("qq2" :> "qq")
UnionOf == ("wx" :> "union") @@ ("qq1" :> NULL) @@ ("qq2" :> NULL)
Anns == [a \in Account |-> "ann"]
Registered == [u \in AccountUser |-> IF u \in User THEN NULL ELSE "ann"]

HumanOf == [u \in User |-> "ann"]
HolderOf == ("ph1" :> "ann") @@ ("ph2" :> "bob")
ChooserOf == ("s1" :> "ann") @@ ("s2" :> "bob")

Symmetry == Permutations(User) \cup Permutations(Code) \cup Permutations(Worker)
=============================================================================

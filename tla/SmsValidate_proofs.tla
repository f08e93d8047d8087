------------------------- MODULE SmsValidate_proofs -------------------------
(***************************************************************************)
(* What holds of the verification codes for any number of phones, codes    *)
(* and workers, and for any durations: types, and the two properties that  *)
(* no interleaving of stale full-row saves can break.                      *)
(***************************************************************************)
EXTENDS SmsValidate, TLAPS

\* What a row that is not there reads as is typed like a row.
LEMMA AbsentType == Absent \in Row
<1>1. Absent.phone \in Phone
  BY SmsAssumption DEF Absent
<1>2. QED
  BY <1>1 DEF Absent, Row, Status, Token

\* So is the request of an idle process like a request.
LEMMA IdleType == Idle \in Request
<1>1. Absent.phone \in Phone
  BY SmsAssumption DEF Absent
<1>2. NoFailure \in Failure
  BY DEF NoFailure, Failure
<1>3. QED
  BY <1>1, <1>2 DEF Idle, Request, Label, Status

\* The requests stay typed when one changes.
LEMMA BecomeType ==
    ASSUME TypeOK, NEW p, NEW r \in Request, Become(p, r)
    PROVE  req' \in [Proc -> Request]
BY DEF TypeOK, Become

\* They do when one goes on to another label.
LEMMA GotoType ==
    ASSUME TypeOK, NEW p \in Proc, NEW label \in Label, Goto(p, label)
    PROVE  req' \in [Proc -> Request]
<1>1. [req[p] EXCEPT !.pc = label] \in Request
  BY DEF TypeOK, Request
<1>2. QED
  BY <1>1, BecomeType DEF Goto

\* They do when one ends.
LEMMA DoneType ==
    ASSUME TypeOK, NEW p, Done(p)
    PROVE  req' \in [Proc -> Request]
BY BecomeType, IdleType DEF Done

\* Saving a status keeps the rows typed.
LEMMA SaveType ==
    ASSUME TypeOK, NEW c, NEW s \in Status, SaveStatus(c, s)
    PROVE  row' \in [Code -> Row]
<1>1. row \in [Code -> Row] /\ now \in Nat
  BY DEF TypeOK
<1> DEFINE saved == [row EXCEPT ![c] = [row[c] EXCEPT !.status = s]]
<1>2. row' = [saved EXCEPT ![c] = [saved[c] EXCEPT !.updated = now]]
  BY DEF SaveStatus
<1>3. saved \in [Code -> Row]
  BY <1>1 DEF Row
<1>4. \A y \in Row : [y EXCEPT !.updated = now] \in Row
  BY <1>1 DEF Row
<1> HIDE DEF saved
<1>5. c \in Code => [saved[c] EXCEPT !.updated = now] \in Row
  BY <1>3, <1>4
<1> DEFINE new == [saved[c] EXCEPT !.updated = now]
<1>6. row' = [saved EXCEPT ![c] = new] /\ (c \in Code => new \in Row)
  BY <1>2, <1>5
<1> HIDE DEF new
<1> QED BY <1>3, <1>6

\* Noting a proof keeps the proofs typed.
LEMMA ProofType ==
    ASSUME TypeOK, NEW p \in Proc, NEW c, RecordProof(p, c)
    PROVE  proof' \in [Code -> Proof \cup {NULL}]
<1>1. req[p].clock \in Nat /\ req[p].phone \in Phone /\ now \in Nat
  BY DEF TypeOK, Request
<1> QED BY <1>1 DEF TypeOK, RecordProof, Proof

\* Every step keeps the types.
LEMMA TypeStep ==
    ASSUME TypeOK, [Next]_vars
    PROVE  TypeOK'
<1> USE SmsAssumption
<1>1. CASE UNCHANGED vars
  BY <1>1 DEF vars, TypeOK
<1>2. CASE Tick
  BY <1>2 DEF Tick, TypeOK
<1>3. ASSUME NEW p \in Proc PROVE req[p] \in Request
  BY DEF TypeOK
<1>4. ASSUME NEW p \in WebProc, WebStart(p) PROVE TypeOK'
  <2>1. req[p] \in Request
    BY <1>3 DEF Proc
  <2>2. CASE ShowImage(p)
    BY <2>2 DEF ShowImage, TypeOK
  <2>3. ASSUME NEW ph \in Phone, SendRefused(p, ph) PROVE TypeOK'
    BY <2>3 DEF SendRefused, Locked, TypeOK
  <2>4. ASSUME NEW ph \in Phone, SendAdmitted(p, ph) PROVE TypeOK'
    <3>1. [req[p] EXCEPT !.pc = "incrementGet", !.phone = ph,
                         !.sending = TRUE] \in Request
      BY <2>1 DEF Request, Label
    <3>2. req' \in [Proc -> Request]
      BY <2>4, <3>1, BecomeType DEF SendAdmitted
    <3>3. free' \in [Phone -> Nat]
      BY <2>4 DEF SendAdmitted, Inc, TypeOK
    <3>4. session' \in [Proc -> {"none", "answer", "!"}]
      BY <2>4 DEF SendAdmitted, Locked, TypeOK
    <3>5. QED
      BY <2>4, <3>2, <3>3, <3>4 DEF SendAdmitted, TypeOK
  <2>5. ASSUME NEW ph \in Phone, NEW c \in Code, CheckExists(p, ph, c)
        PROVE  TypeOK'
    <3>1. [req[p] EXCEPT
              !.pc = IF Waiting(ph) = {} THEN "incrementGet"
                     ELSE "checkList",
              !.phone = ph, !.typed = c, !.clock = now] \in Request
      BY <2>1 DEF Request, Label, TypeOK
    <3>2. req' \in [Proc -> Request]
      BY <2>5, <3>1, BecomeType DEF CheckExists
    <3>3. QED
      BY <2>5, <3>2 DEF CheckExists, TypeOK
  <2>6. QED
    BY <1>4, <2>2, <2>3, <2>4, <2>5 DEF WebStart
<1>5. ASSUME NEW p \in ApiProc, ApiStart(p) PROVE TypeOK'
  <2>1. req[p] \in Request
    BY <1>3 DEF Proc
  <2>2. ASSUME NEW t \in Token, ApiSend(p, t) PROVE TypeOK'
    <3>1. [req[p] EXCEPT !.pc = "sendLook", !.phone = t[1], !.token = t,
                         !.sending = TRUE] \in Request
      BY <2>1 DEF Request, Label, Token
    <3>2. req' \in [Proc -> Request]
      BY <2>2, <3>1, BecomeType DEF ApiSend
    <3>3. QED
      BY <2>2, <3>2 DEF ApiSend, TypeOK
  <2>3. ASSUME NEW ph \in Phone, NEW c \in Code,
               Confirm(p, ph, c) \/ Grant(p, ph, c)
        PROVE  TypeOK'
    <3>1. /\ [req[p] EXCEPT !.pc = "confirmList", !.phone = ph, !.typed = c, !.clock = now]
                \in Request
          /\ [req[p] EXCEPT !.pc = "grantClock", !.phone = ph, !.typed = c] \in Request
      BY <2>1 DEF Request, Label, TypeOK
    <3>2. req' \in [Proc -> Request]
      BY <2>3, <3>1, BecomeType DEF Confirm, Grant
    <3>3. QED
      BY <2>3, <3>2 DEF Confirm, Grant, TypeOK
  <2>4. QED
    BY <1>5, <2>2, <2>3 DEF ApiStart
<1>6. ASSUME NEW p \in Proc, Continue(p) PROVE TypeOK'
  <2>1. req[p] \in Request
    BY <1>3
  <2>2. /\ req[p].phone \in Phone /\ req[p].fail \in Failure
        /\ req[p].verdict \in Status /\ NoFailure \in Failure
    BY <2>1 DEF Request, NoFailure, Failure
  <2>3. CASE IncrementGet(p)
    <3>1. ASSUME NEW f \in Failure
          PROVE [req[p] EXCEPT !.pc = "incrementSave", !.fail = f]
                   \in Request
      BY <2>1 DEF Request, Label
    <3>2. CASE HasFailures(req[p].phone)
      <4>1. failures[req[p].phone] \in Failure
        BY <2>2 DEF TypeOK
      <4>2. req' \in [Proc -> Request]
        BY <2>3, <3>1, <3>2, <4>1, BecomeType DEF IncrementGet
      <4>3. QED
        BY <2>3, <3>2, <4>2 DEF IncrementGet, TypeOK
    <3>3. CASE ~HasFailures(req[p].phone)
      <4>1. PICK id \in Nat :
               LET f == [NoFailure EXCEPT !.id = id] IN
               /\ failures' = [failures EXCEPT ![req[p].phone] = f]
               /\ Become(p, [req[p] EXCEPT !.pc = "incrementSave",
                                           !.fail = f])
        <5>1. \A id \in 1 .. (Cardinality(Proc) + 1) : id \in Nat
          OBVIOUS
        <5>2. QED
          BY <2>3, <3>3, <5>1 DEF IncrementGet
      <4>2. [NoFailure EXCEPT !.id = id] \in Failure
        BY DEF NoFailure, Failure
      <4>3. req' \in [Proc -> Request]
        BY <3>1, <4>1, <4>2, BecomeType
      <4>4. failures' \in [Phone -> Failure]
        BY <4>1, <4>2 DEF TypeOK
      <4>5. QED
        BY <2>3, <4>3, <4>4 DEF IncrementGet, TypeOK
    <3>4. QED
      BY <3>2, <3>3
  <2>4. CASE IncrementSave(p)
    <3> DEFINE n == Inc(req[p].fail.count)
               rec == [id |-> req[p].fail.id, count |-> n,
                       until |-> IF n >= MAX_FAILED
                                 THEN now + LOCKOUT_PERIOD
                                 ELSE req[p].fail.until]
    <3>1. rec \in Failure
      BY <2>2 DEF Failure, Inc, TypeOK
    <3>2. failures' \in [Phone -> Failure]
      BY <2>4, <3>1 DEF IncrementSave, TypeOK
    <3>3. [req[p] EXCEPT !.pc = "sendLook", !.fail = NoFailure] \in Request
      BY <2>1, <2>2 DEF Request, Label
    <3>4. req' \in [Proc -> Request]
      BY <2>4, <3>3, BecomeType, DoneType DEF IncrementSave
    <3>5. QED
      BY <2>4, <3>2, <3>4 DEF IncrementSave, TypeOK
  <2>5. CASE ClearGet(p)
    <3>1. failures[req[p].phone] \in Failure
      BY <2>2 DEF TypeOK
    <3>2. [req[p] EXCEPT !.pc = "clearDelete",
                         !.fail = failures[req[p].phone]] \in Request
      BY <2>1, <3>1 DEF Request, Label
    <3>3. req' \in [Proc -> Request]
      BY <2>5, <3>2, BecomeType, DoneType DEF ClearGet
    <3>4. QED
      BY <2>5, <3>3 DEF ClearGet, TypeOK
  <2>6. CASE ClearDelete(p)
    BY <2>2, <2>6, DoneType DEF ClearDelete, TypeOK
  <2>7. CASE SendLook(p)
    <3>1. req' \in [Proc -> Request]
      BY <2>7, GotoType DEF SendLook, Label
    <3>2. QED
      BY <2>7, <3>1 DEF SendLook, TypeOK
  <2>8. CASE SendAge(p)
    <3>1. req' \in [Proc -> Request]
      BY <2>8, GotoType, DoneType DEF SendAge, Label
    <3>2. QED
      BY <2>8, <3>1 DEF SendAge, TypeOK
  <2>9. CASE New(p)
    <3>1. NewRow(p) \in Row
      BY <2>1 DEF NewRow, Row, Status, Request, TypeOK
    <3>2. row' \in [Code -> Row]
      BY <2>9, <3>1 DEF New, Insert, TypeOK
    <3>3. QED
      BY <2>9, <3>2, DoneType DEF New, TypeOK
  <2>10. CASE CheckList(p)
    <3>1. \A S \in SUBSET Code :
             [req[p] EXCEPT !.pc = "expireOlder", !.older = S] \in Request
      BY <2>1 DEF Request, Label
    <3>2. \A c : Waiting(req[p].phone) \ {c} \in SUBSET Code
      BY DEF Waiting
    <3>3. req' \in [Proc -> Request]
      BY <2>10, <3>1, <3>2, BecomeType, GotoType DEF CheckList, Label
    <3>4. QED
      BY <2>10, <3>3 DEF CheckList, TypeOK
  <2>11. CASE ExpireOlder(p)
    <3>1. PICK c \in Newest(req[p].older) :
              /\ SaveStatus(c, "outOfDate")
              /\ Become(p, [req[p] EXCEPT !.older = @ \ {c}])
      BY <2>11 DEF ExpireOlder
    <3>2. row' \in [Code -> Row]
      BY <3>1, SaveType DEF Status
    <3>3. [req[p] EXCEPT !.older = @ \ {c}] \in Request
      BY <2>1 DEF Request
    <3>4. req' \in [Proc -> Request]
      BY <3>1, <3>3, BecomeType
    <3>5. QED
      BY <2>11, <3>2, <3>4 DEF ExpireOlder, TypeOK
  <2>12. CASE CheckNewest(p)
    <3>1. ASSUME NEW c \in Newest(Waiting(req[p].phone))
          PROVE  [req[p] EXCEPT
                     !.pc = "checkSave", !.code = c,
                     !.verdict = Verdict(c, req[p].typed)] \in Request
      <4>1. c \in Code
        BY DEF Newest, Waiting
      <4>2. Verdict(c, req[p].typed) \in Status
        BY DEF Verdict, Status
      <4>3. QED
        BY <2>1, <4>1, <4>2 DEF Request, Label
    <3>2. req' \in [Proc -> Request]
      BY <2>12, <3>1, BecomeType, DoneType DEF CheckNewest
    <3>3. QED
      BY <2>12, <3>2 DEF CheckNewest, TypeOK
  <2>13. CASE CheckSave(p)
    <3>1. row' \in [Code -> Row]
      BY <2>2, <2>13, SaveType DEF CheckSave
    <3>2. proof' \in [Code -> Proof \cup {NULL}]
      BY <2>2, <2>13, ProofType DEF CheckSave, TypeOK
    <3>3. [Idle EXCEPT
              !.pc = IF req[p].verdict = "success" THEN "clearGet"
                     ELSE "incrementGet",
              !.phone = req[p].phone] \in Request
      BY <2>2, IdleType DEF Request, Label
    <3>4. req' \in [Proc -> Request]
      BY <2>13, <3>3, BecomeType DEF CheckSave
    <3>5. QED
      BY <2>13, <3>1, <3>2, <3>4 DEF CheckSave, TypeOK
  <2>14. CASE ConfirmSave(p)
    <3>1. row' \in [Code -> Row]
      BY <2>14, SaveType DEF ConfirmSave, Status
    <3>2. proof' \in [Code -> Proof \cup {NULL}]
      BY <2>2, <2>14, ProofType DEF ConfirmSave
    <3>3. QED
      BY <2>14, <3>1, <3>2, DoneType DEF ConfirmSave, TypeOK
  <2>15. CASE Finish(p)
    BY <2>15, DoneType DEF Finish, TypeOK
  <2>16. CASE ConfirmList(p) \/ GrantList(p)
    <3>1. req' \in [Proc -> Request]
      BY <2>16, GotoType, DoneType DEF ConfirmList, GrantList, Label
    <3>2. QED
      BY <2>16, <3>1 DEF ConfirmList, GrantList, TypeOK
  <2>17. CASE GrantClock(p)
    <3>1. [req[p] EXCEPT !.pc = "grantList", !.clock = now] \in Request
      BY <2>1 DEF Request, Label, TypeOK
    <3>2. req' \in [Proc -> Request]
      BY <2>17, <3>1, BecomeType DEF GrantClock
    <3>3. QED
      BY <2>17, <3>2 DEF GrantClock, TypeOK
  <2>18. QED
    BY <1>6, <2>3, <2>4, <2>5, <2>6, <2>7, <2>8, <2>9, <2>10, <2>11,
       <2>12, <2>13, <2>14, <2>15, <2>16, <2>17 DEF Continue
<1>7. QED
  BY <1>1, <1>2, <1>4, <1>5, <1>6 DEF Next

\* Every variable keeps its type, whatever the workers do: in particular
\* every request a worker holds refers to phones that exist.
THEOREM TypeCorrect == Spec => []TypeOK
<1>1. Init => TypeOK
  BY AbsentType, IdleType DEF Init, TypeOK, NoFailure, Failure
<1>2. TypeOK /\ [Next]_vars => TypeOK'
  BY TypeStep
<1>3. QED
  BY <1>1, <1>2, PTL DEF Spec

(***************************************************************************)
(* Stale saves                                                             *)
(***************************************************************************)

\* Everything a row holds that outlives a save of its status.
LEMMA SaveKeeps ==
    ASSUME TypeOK, NEW c, NEW s \in Status, SaveStatus(c, s)
    PROVE  /\ \A d \in Code : d # c => row'[d] = row[d]
           /\ \A d \in Code : row'[d].phone = row[d].phone
           /\ c \in Code => row'[c].status = s /\ row'[c].updated = now
BY DEF TypeOK, SaveStatus, Row

\* A proof that is noted changes that of its code alone.
LEMMA ProofKeeps ==
    ASSUME TypeOK, NEW p, NEW c, RecordProof(p, c)
    PROVE  /\ \A d \in Code : d # c => proof'[d] = proof[d]
           /\ c \in Code => proof'[c] = [at |-> req[p].clock, saved |-> now,
                                         phone |-> req[p].phone]
BY DEF TypeOK, RecordProof

\* A step that leaves the tables alone and moves worker p to r keeps the
\* invariant if r holds nothing it should not.
LEMMA MoveKeeps ==
    ASSUME Inv, TypeOK', NEW p \in Proc, NEW r \in Request, Become(p, r),
           UNCHANGED <<row, proof>>,
           r.pc \notin {"checkSave", "confirmSave"},
           r.pc \in {"confirmList", "grantClock", "grantList"} => r.typed \in Code,
           \A c \in r.older : row[c].status # "absent",
           ClockRead'
    PROVE  Inv'
<1>1. \A q \in Proc : req'[q] = IF q = p THEN r ELSE req[q]
  BY DEF Become, Inv, TypeOK
<1>2. HeldRows'
  BY <1>1 DEF Inv, HeldRows
<1>3. SuccessIsProved'
  BY DEF Inv, SuccessIsProved
<1>4. QED
  BY <1>2, <1>3 DEF Inv

\* No step makes a request's clock run ahead.
LEMMA ClockStep ==
    ASSUME TypeOK, ClockRead, [Next]_vars
    PROVE  ClockRead'
<1> USE DEF ClockRead
<1>1. /\ now \in Nat /\ \A p \in Proc : req[p] \in Request /\ req[p].clock \in Nat
  BY DEF TypeOK, Request
<1>2. ASSUME NEW p \in Proc, req'[p].clock \in {0, now, req[p].clock},
             \A q \in Proc \ {p} : req'[q] = req[q], now' = now
      PROVE  ClockRead'
  BY <1>1, <1>2
<1>3. ASSUME NEW p \in Proc, Done(p), now' = now PROVE ClockRead'
  BY <1>2, <1>3 DEF Done, Idle, Become, TypeOK
<1>4. ASSUME NEW p \in Proc, NEW label, Goto(p, label), now' = now PROVE ClockRead'
  <2>1. [req[p] EXCEPT !.pc = label].clock = req[p].clock
    BY <1>1 DEF Request
  <2> QED BY <1>2, <1>4, <2>1 DEF Goto, Become, TypeOK
<1>5. CASE UNCHANGED vars
  BY <1>5 DEF vars
<1>6. CASE Tick
  BY <1>1, <1>6 DEF Tick
<1>7. ASSUME NEW p \in WebProc, WebStart(p) PROVE ClockRead'
  <2> p \in Proc
    BY DEF Proc
  <2>1. CASE ShowImage(p) \/ \E ph \in Phone : SendRefused(p, ph)
    BY <2>1 DEF ShowImage, SendRefused
  <2>2. ASSUME NEW ph \in Phone, SendAdmitted(p, ph) PROVE ClockRead'
    <3>1. [req[p] EXCEPT !.pc = "incrementGet", !.phone = ph, !.sending = TRUE].clock = req[p].clock
      BY <1>1 DEF Request
    <3> QED BY <1>2, <2>2, <3>1 DEF SendAdmitted, Become, TypeOK
  <2>3. ASSUME NEW ph \in Phone, NEW c \in Code, CheckExists(p, ph, c) PROVE ClockRead'
    <3>1. [req[p] EXCEPT !.pc = IF Waiting(ph) = {} THEN "incrementGet" ELSE "checkList",
                         !.phone = ph, !.typed = c, !.clock = now].clock = now
      BY <1>1 DEF Request
    <3> QED BY <1>2, <2>3, <3>1 DEF CheckExists, Become, TypeOK
  <2> QED BY <1>7, <2>1, <2>2, <2>3 DEF WebStart
<1>8. ASSUME NEW p \in ApiProc, ApiStart(p) PROVE ClockRead'
  <2> p \in Proc
    BY DEF Proc
  <2>1. ASSUME NEW t \in Token, ApiSend(p, t) PROVE ClockRead'
    <3>1. [req[p] EXCEPT !.pc = "sendLook", !.phone = t[1], !.token = t, !.sending = TRUE].clock
             = req[p].clock
      BY <1>1 DEF Request
    <3> QED BY <1>2, <2>1, <3>1 DEF ApiSend, Become, TypeOK
  <2>2. ASSUME NEW ph \in Phone, NEW c \in Code, Confirm(p, ph, c) PROVE ClockRead'
    <3>1. [req[p] EXCEPT !.pc = "confirmList", !.phone = ph, !.typed = c, !.clock = now].clock = now
      BY <1>1 DEF Request
    <3> QED BY <1>2, <2>2, <3>1 DEF Confirm, Become, TypeOK
  <2>3. ASSUME NEW ph \in Phone, NEW c \in Code, Grant(p, ph, c) PROVE ClockRead'
    <3>1. [req[p] EXCEPT !.pc = "grantClock", !.phone = ph, !.typed = c].clock = req[p].clock
      BY <1>1 DEF Request
    <3> QED BY <1>2, <2>3, <3>1 DEF Grant, Become, TypeOK
  <2> QED BY <1>8, <2>1, <2>2, <2>3 DEF ApiStart
<1>9. ASSUME NEW p \in Proc, Continue(p) PROVE ClockRead'
  <2>1. CASE IncrementGet(p) \/ ClearGet(p)
    <3>1. \A f, label : [req[p] EXCEPT !.pc = label, !.fail = f].clock = req[p].clock
      BY <1>1 DEF Request
    <3>2. ASSUME NEW f, NEW label, Become(p, [req[p] EXCEPT !.pc = label, !.fail = f]), now' = now
          PROVE  ClockRead'
      BY <1>2, <3>1, <3>2 DEF Become, TypeOK
    <3>3. now' = now
      BY <2>1 DEF IncrementGet, ClearGet
    <3> QED BY <1>3, <2>1, <3>2, <3>3 DEF IncrementGet, ClearGet
  <2>2. CASE IncrementSave(p)
    <3>1. [req[p] EXCEPT !.pc = "sendLook", !.fail = NoFailure].clock = req[p].clock
      BY <1>1 DEF Request
    <3> QED BY <1>2, <1>3, <2>2, <3>1 DEF IncrementSave, Become, TypeOK
  <2>3. CASE ClearDelete(p) \/ Finish(p) \/ SendLook(p) \/ SendAge(p) \/ New(p)
    BY <1>3, <1>4, <2>3 DEF ClearDelete, Finish, SendLook, SendAge, New
  <2>4. CASE CheckList(p) \/ ExpireOlder(p)
    <3>1. \A S : /\ [req[p] EXCEPT !.pc = "expireOlder", !.older = S].clock = req[p].clock
                 /\ [req[p] EXCEPT !.older = S].clock = req[p].clock
      BY <1>1 DEF Request
    <3>2. ASSUME NEW S, \/ Become(p, [req[p] EXCEPT !.pc = "expireOlder", !.older = S])
                        \/ Become(p, [req[p] EXCEPT !.older = S]),
                 now' = now
          PROVE  ClockRead'
      <4>1. CASE Become(p, [req[p] EXCEPT !.pc = "expireOlder", !.older = S])
        BY <1>2, <3>1, <3>2, <4>1 DEF Become, TypeOK
      <4>2. CASE Become(p, [req[p] EXCEPT !.older = S])
        BY <1>2, <3>1, <3>2, <4>2 DEF Become, TypeOK
      <4> QED BY <3>2, <4>1, <4>2
    <3>3. now' = now
      BY <2>4 DEF CheckList, ExpireOlder
    <3> QED BY <1>4, <2>4, <3>2, <3>3 DEF CheckList, ExpireOlder
  <2>5. CASE CheckNewest(p)
    <3>1. \A c, v : [req[p] EXCEPT !.pc = "checkSave", !.code = c, !.verdict = v].clock = req[p].clock
      BY <1>1 DEF Request
    <3>2. ASSUME NEW c, NEW v, now' = now,
                 Become(p, [req[p] EXCEPT !.pc = "checkSave", !.code = c, !.verdict = v])
          PROVE  ClockRead'
      BY <1>2, <3>1, <3>2 DEF Become, TypeOK
    <3>3. now' = now
      BY <2>5 DEF CheckNewest
    <3> QED BY <1>3, <2>5, <3>2, <3>3 DEF CheckNewest
  <2>6. CASE CheckSave(p)
    <3>1. [Idle EXCEPT !.pc = IF req[p].verdict = "success" THEN "clearGet" ELSE "incrementGet",
                       !.phone = req[p].phone].clock = 0
      BY DEF Idle
    <3> QED BY <1>2, <2>6, <3>1 DEF CheckSave, Become, TypeOK
  <2>7. CASE ConfirmList(p) \/ ConfirmSave(p) \/ GrantList(p)
    BY <1>3, <1>4, <2>7 DEF ConfirmList, ConfirmSave, GrantList
  <2>8. CASE GrantClock(p)
    <3>1. [req[p] EXCEPT !.pc = "grantList", !.clock = now].clock = now
      BY <1>1 DEF Request
    <3> QED BY <1>2, <2>8, <3>1 DEF GrantClock, Become, TypeOK
  <2> QED BY <1>9, <2>1, <2>2, <2>3, <2>4, <2>5, <2>6, <2>7, <2>8 DEF Continue
<1> QED BY <1>5, <1>6, <1>7, <1>8, <1>9 DEF Next

\* The invariant is inductive.
LEMMA InvStep ==
    ASSUME Inv, [Next]_vars
    PROVE  Inv'
<1> USE DEF Inv
<1>0. TypeOK' /\ ClockRead'
  BY TypeStep, ClockStep
<1>1. CASE UNCHANGED vars
  BY <1>0, <1>1 DEF vars, SuccessIsProved, HeldRows
<1>2. CASE Tick
  BY <1>0, <1>2 DEF Tick, SuccessIsProved, HeldRows
<1>3. \A p \in Proc : req[p] \in Request
  BY DEF TypeOK
<1>4. ASSUME NEW p \in Proc, Done(p), UNCHANGED <<row, proof>> PROVE Inv'
  BY <1>0, <1>4, IdleType, MoveKeeps DEF Done, Idle
<1>5. ASSUME NEW p \in Proc, NEW label \in Label, Goto(p, label),
             label \notin {"checkSave", "confirmSave", "confirmList", "grantClock", "grantList"},
             UNCHANGED <<row, proof>>
      PROVE  Inv'
  <2>1. [req[p] EXCEPT !.pc = label] \in Request
    BY <1>3 DEF Request
  <2>2. [req[p] EXCEPT !.pc = label].older = req[p].older
        /\ [req[p] EXCEPT !.pc = label].pc = label
    BY <1>3 DEF Request
  <2>3. QED
    BY <1>0, <1>5, <2>1, <2>2, MoveKeeps DEF Goto, HeldRows
<1>6. ASSUME NEW p \in WebProc, WebStart(p) PROVE Inv'
  <2> p \in Proc
    BY DEF Proc
  <2>1. CASE ShowImage(p)
    BY <1>0, <2>1 DEF ShowImage, SuccessIsProved, HeldRows
  <2>2. ASSUME NEW ph \in Phone, SendRefused(p, ph) PROVE Inv'
    BY <1>0, <2>2 DEF SendRefused, SuccessIsProved, HeldRows
  <2>3. ASSUME NEW ph \in Phone, SendAdmitted(p, ph) PROVE Inv'
    <3> DEFINE r == [req[p] EXCEPT !.pc = "incrementGet", !.phone = ph,
                                   !.sending = TRUE]
    <3>1. r \in Request /\ r.pc = "incrementGet" /\ r.older = req[p].older
      BY <1>3 DEF Request, Label
    <3>2. QED
      BY <1>0, <2>3, <3>1, MoveKeeps DEF SendAdmitted, HeldRows
  <2>4. ASSUME NEW ph \in Phone, NEW c \in Code, CheckExists(p, ph, c)
        PROVE  Inv'
    <3> DEFINE r == [req[p] EXCEPT
                       !.pc = IF Waiting(ph) = {} THEN "incrementGet"
                              ELSE "checkList",
                       !.phone = ph, !.typed = c, !.clock = now]
    <3>1. /\ r \in Request /\ r.older = req[p].older
          /\ r.pc \in {"incrementGet", "checkList"}
      BY <1>3 DEF Request, Label, TypeOK
    <3>2. QED
      BY <1>0, <2>4, <3>1, MoveKeeps DEF CheckExists, HeldRows
  <2>5. QED
    BY <1>6, <2>1, <2>2, <2>3, <2>4 DEF WebStart
<1>7. ASSUME NEW p \in ApiProc, ApiStart(p) PROVE Inv'
  <2> p \in Proc
    BY DEF Proc
  <2>1. ASSUME NEW t \in Token, ApiSend(p, t) PROVE Inv'
    <3> DEFINE r == [req[p] EXCEPT !.pc = "sendLook", !.phone = t[1],
                                   !.token = t, !.sending = TRUE]
    <3>0. t[1] \in Phone
      BY DEF Token
    <3>1. r \in Request /\ r.pc = "sendLook" /\ r.older = req[p].older
      BY <1>3, <3>0 DEF Request, Label
    <3>2. Become(p, r) /\ UNCHANGED <<row, proof>>
      BY <2>1 DEF ApiSend
    <3> HIDE DEF r
    <3>3. \A c \in r.older : row[c].status # "absent"
      BY <1>0, <3>1 DEF HeldRows
    <3>4. QED
      BY <1>0, <3>1, <3>2, <3>3, MoveKeeps
  <2>2. ASSUME NEW ph \in Phone, NEW c \in Code, Grant(p, ph, c)
        PROVE  Inv'
    <3> DEFINE r == [req[p] EXCEPT !.pc = "grantClock", !.phone = ph, !.typed = c]
    <3>1. r \in Request /\ r.pc = "grantClock" /\ r.older = req[p].older /\ r.typed = c
      BY <1>3 DEF Request, Label
    <3>2. QED
      BY <1>0, <2>2, <3>1, MoveKeeps DEF Grant, HeldRows
  <2>3. ASSUME NEW ph \in Phone, NEW c \in Code, Confirm(p, ph, c)
        PROVE  Inv'
    <3> DEFINE r == [req[p] EXCEPT !.pc = "confirmList", !.phone = ph, !.typed = c, !.clock = now]
    <3>1. r \in Request /\ r.pc = "confirmList" /\ r.older = req[p].older /\ r.typed = c
      BY <1>3 DEF Request, Label, TypeOK
    <3>2. QED
      BY <1>0, <2>3, <3>1, MoveKeeps DEF Confirm, HeldRows
  <2>4. QED
    BY <1>7, <2>1, <2>2, <2>3 DEF ApiStart
<1>8. ASSUME NEW p \in Proc, Continue(p) PROVE Inv'
  <2>1. CASE IncrementGet(p)
    <3>1. ASSUME NEW f, Become(p, [req[p] EXCEPT !.pc = "incrementSave",
                                                 !.fail = f])
          PROVE  Inv'
      <4> DEFINE r == [req[p] EXCEPT !.pc = "incrementSave", !.fail = f]
      <4>1. r.pc = "incrementSave" /\ r.older = req[p].older
        BY <1>3 DEF Request
      <4>2. req'[p] = r
        BY <3>1 DEF Become, TypeOK
      <4>3. r \in Request
        BY <1>0, <4>2 DEF TypeOK
      <4>4. QED
        BY <1>0, <2>1, <3>1, <4>1, <4>3, MoveKeeps DEF IncrementGet, HeldRows
    <3>2. QED
      BY <2>1, <3>1 DEF IncrementGet
  <2>2. CASE IncrementSave(p)
    <3> DEFINE r == [req[p] EXCEPT !.pc = "sendLook", !.fail = NoFailure]
    <3>1. r \in Request /\ r.pc = "sendLook" /\ r.older = req[p].older
      BY <1>3 DEF Request, Label, NoFailure, Failure
    <3>2. CASE Become(p, r)
      <4>1. UNCHANGED <<row, proof>>
        BY <2>2 DEF IncrementSave
      <4> HIDE DEF r
      <4>2. \A c \in r.older : row[c].status # "absent"
        BY <1>0, <3>1 DEF HeldRows
      <4>3. QED
        BY <1>0, <3>1, <3>2, <4>1, <4>2, MoveKeeps
    <3>3. CASE Done(p)
      BY <1>4, <2>2, <3>3 DEF IncrementSave
    <3>4. QED
      BY <2>2, <3>2, <3>3 DEF IncrementSave
  <2>3. CASE ClearGet(p)
    <3> DEFINE r == [req[p] EXCEPT !.pc = "clearDelete",
                                   !.fail = failures[req[p].phone]]
    <3>1. r.pc = "clearDelete" /\ r.older = req[p].older
      BY <1>3 DEF Request
    <3>2. CASE Become(p, r)
      <4>1. req'[p] = r
        BY <3>2 DEF Become, TypeOK
      <4>2. r \in Request
        BY <1>0, <4>1 DEF TypeOK
      <4>3. QED
        BY <1>0, <2>3, <3>1, <3>2, <4>2, MoveKeeps DEF ClearGet, HeldRows
    <3>3. CASE Done(p)
      BY <1>4, <2>3, <3>3 DEF ClearGet
    <3>4. QED
      BY <2>3, <3>2, <3>3 DEF ClearGet
  <2>4. CASE ClearDelete(p) \/ Finish(p)
    BY <1>4, <2>4 DEF ClearDelete, Finish
  <2>5. CASE SendLook(p)
    BY <1>5, <2>5 DEF SendLook, Label
  <2>6. CASE SendAge(p)
    BY <1>4, <1>5, <2>6 DEF SendAge, Label
  <2>7. CASE New(p)
    <3>1. PICK c \in Code : Insert(p, c)
      BY <2>7 DEF New
    <3>2. CASE UNCHANGED row
      BY <1>4, <2>7, <3>2 DEF New
    <3>3. CASE row[c].status = "absent" /\ row' = [row EXCEPT ![c] = NewRow(p)]
      <4>1. \A d \in Code : row'[d] = IF d = c THEN NewRow(p) ELSE row[d]
        BY <3>3 DEF TypeOK
      <4>2. NewRow(p).status = "wait"
        BY DEF NewRow
      <4>3. \A q \in Proc : req'[q] = IF q = p THEN Idle ELSE req[q]
        BY <2>7 DEF New, Done, Become, TypeOK
      <4>4. SuccessIsProved'
        BY <2>7, <4>1, <4>2 DEF New, SuccessIsProved
      <4>5. \A q \in Proc : req[q].older \subseteq Code
        BY <1>3 DEF Request
      <4>6. HeldRows'
        BY <3>3, <4>1, <4>2, <4>3, <4>5 DEF HeldRows, Idle
      <4>7. QED
        BY <1>0, <4>4, <4>6
    <3>4. QED
      BY <3>1, <3>2, <3>3 DEF Insert
  <2>8. CASE CheckList(p)
    <3>1. CASE Waiting(req[p].phone) = {}
      BY <1>5, <2>8, <3>1 DEF CheckList, Label
    <3>2. ASSUME NEW c,
                 Become(p, [req[p] EXCEPT !.pc = "expireOlder",
                              !.older = Waiting(req[p].phone) \ {c}])
          PROVE  Inv'
      <4> DEFINE r == [req[p] EXCEPT !.pc = "expireOlder",
                         !.older = Waiting(req[p].phone) \ {c}]
      <4>1. /\ r.pc = "expireOlder"
            /\ \A d \in r.older : row[d].status # "absent"
        BY <1>3 DEF Request, Waiting
      <4>2. req'[p] = r
        BY <3>2 DEF Become, TypeOK
      <4>3. r \in Request
        BY <1>0, <4>2 DEF TypeOK
      <4>4. QED
        BY <1>0, <2>8, <3>2, <4>1, <4>3, MoveKeeps DEF CheckList
    <3>3. QED
      BY <2>8, <3>1, <3>2 DEF CheckList
  <2>9. CASE ExpireOlder(p)
    <3>1. PICK c \in Newest(req[p].older) :
              /\ SaveStatus(c, "outOfDate")
              /\ Become(p, [req[p] EXCEPT !.older = @ \ {c}])
      BY <2>9 DEF ExpireOlder
    <3>2. c \in Code
      BY <1>3 DEF Newest, Request
    <3>3. /\ \A d \in Code : d # c => row'[d] = row[d]
          /\ \A d \in Code : row'[d].phone = row[d].phone
          /\ row'[c].status = "outOfDate"
      BY <3>1, <3>2, SaveKeeps DEF Status
    <3>4. \A q \in Proc : req'[q] = IF q = p
                                    THEN [req[p] EXCEPT !.older = @ \ {c}]
                                    ELSE req[q]
      BY <3>1 DEF Become, TypeOK
    <3>5. \A q \in Proc :
             /\ req'[q].pc = req[q].pc /\ req'[q].code = req[q].code
             /\ req'[q].typed = req[q].typed /\ req'[q].phone = req[q].phone
             /\ req'[q].verdict = req[q].verdict
             /\ req'[q].older \subseteq req[q].older
             /\ req[q].older \subseteq Code
      BY <1>3, <3>4 DEF Request
    <3>6. SuccessIsProved'
      BY <2>9, <3>3 DEF ExpireOlder, SuccessIsProved
    <3>7. \A d \in Code : row[d].status # "absent"
                             => row'[d].status # "absent"
      BY <3>3
    <3>8. HeldRows'
      BY <3>3, <3>5, <3>7 DEF HeldRows
    <3>9. QED
      BY <1>0, <3>6, <3>8
  <2>10. CASE CheckNewest(p)
    <3>1. CASE Done(p)
      BY <1>4, <2>10, <3>1 DEF CheckNewest
    <3>2. ASSUME NEW c \in Newest(Waiting(req[p].phone)),
                 Become(p, [req[p] EXCEPT
                              !.pc = "checkSave", !.code = c,
                              !.verdict = Verdict(c, req[p].typed)])
          PROVE  Inv'
      <4> DEFINE r == [req[p] EXCEPT
                         !.pc = "checkSave", !.code = c,
                         !.verdict = Verdict(c, req[p].typed)]
      <4>1. /\ r.pc = "checkSave" /\ r.code = c
            /\ r.verdict = Verdict(c, req[p].typed)
            /\ r.typed = req[p].typed /\ r.phone = req[p].phone
            /\ r.older = req[p].older
        BY <1>3 DEF Request
      <4>2. \A q \in Proc : req'[q] = IF q = p THEN r ELSE req[q]
        BY <3>2 DEF Become, TypeOK
      <4>3. c \in Code /\ row[c].status = "wait"
            /\ row[c].phone = req[p].phone
        BY DEF Newest, Waiting
      <4>4. r.verdict # "wait" /\ (r.verdict = "success" => r.typed = c)
        BY <4>1 DEF Verdict
      <4>5. row' = row
        BY <2>10 DEF CheckNewest
      <4> HIDE DEF r
      <4>6. HeldRows'
        BY <4>1, <4>2, <4>3, <4>4, <4>5 DEF HeldRows
      <4>7. QED
        BY <1>0, <2>10, <4>6 DEF CheckNewest, SuccessIsProved
    <3>3. QED
      BY <2>10, <3>1, <3>2 DEF CheckNewest
  <2>11. CASE CheckSave(p)
    <3> DEFINE c == req[p].code
               r == [Idle EXCEPT
                       !.pc = IF req[p].verdict = "success" THEN "clearGet"
                              ELSE "incrementGet",
                       !.phone = req[p].phone]
               pr == [at |-> req[p].clock, saved |-> now, phone |-> req[p].phone]
    <3>1. /\ c \in Code /\ row[c].status # "absent"
          /\ row[c].phone = req[p].phone /\ req[p].verdict # "wait"
          /\ req[p].verdict = "success" => req[p].typed = c
      BY <2>11 DEF CheckSave, HeldRows
    <3>2. req[p].verdict \in Status /\ req[p].phone \in Phone
      BY <1>3 DEF Request
    <3>3. /\ \A d \in Code : d # c => row'[d] = row[d]
          /\ \A d \in Code : row'[d].phone = row[d].phone
          /\ row'[c].status = req[p].verdict /\ row'[c].updated = now
      BY <2>11, <3>1, <3>2, SaveKeeps DEF CheckSave
    <3>4. /\ \A d \in Code : d # c => proof'[d] = proof[d]
          /\ req[p].verdict = "success" =>
               proof'[c] = pr
      BY <2>11, <3>1, <3>2, ProofKeeps DEF CheckSave
    <3>5. /\ NULL # pr /\ pr.phone = req[p].phone /\ pr.saved = now /\ pr.at <= pr.saved
      <4>1. req[p].clock \in Nat /\ req[p].clock <= now /\ now \in Nat
        BY <1>3 DEF Request, TypeOK, ClockRead
      <4> QED BY <3>2, <4>1, SmsAssumption
    <3> HIDE DEF pr
    <3>6. SuccessIsProved'
      BY <3>1, <3>3, <3>4, <3>5 DEF SuccessIsProved
    <3>7. r.pc \in {"clearGet", "incrementGet"} /\ r.older = {}
      BY DEF Idle
    <3>8. \A q \in Proc : req'[q] = IF q = p THEN r ELSE req[q]
      BY <2>11 DEF CheckSave, Become, TypeOK
    <3>9. \A d \in Code : row[d].status # "absent"
                             => row'[d].status # "absent"
      BY <3>2, <3>3 DEF Status
    <3>10. \A q \in Proc : req[q].older \subseteq Code
      BY <1>3 DEF Request
    <3> HIDE DEF r
    <3>11. HeldRows'
      BY <3>3, <3>7, <3>8, <3>9, <3>10 DEF HeldRows
    <3>12. QED
      BY <1>0, <3>6, <3>11
  <2>12. CASE ConfirmSave(p)
    <3> DEFINE c == req[p].typed
               pr == [at |-> req[p].clock, saved |-> now, phone |-> req[p].phone]
    <3>1. c \in Code /\ row[c].status # "absent"
          /\ row[c].phone = req[p].phone
      BY <2>12 DEF ConfirmSave, HeldRows
    <3>2. req[p].phone \in Phone
      BY <1>3 DEF Request
    <3>3. /\ \A d \in Code : d # c => row'[d] = row[d]
          /\ \A d \in Code : row'[d].phone = row[d].phone
          /\ row'[c].status = "success" /\ row'[c].updated = now
      BY <2>12, <3>1, SaveKeeps DEF ConfirmSave, Status
    <3>4. /\ \A d \in Code : d # c => proof'[d] = proof[d]
          /\ proof'[c] = pr
      BY <2>12, <3>1, ProofKeeps DEF ConfirmSave
    <3>5. /\ NULL # pr /\ pr.phone = req[p].phone /\ pr.saved = now /\ pr.at <= pr.saved
      <4>1. req[p].clock \in Nat /\ req[p].clock <= now /\ now \in Nat
        BY <1>3 DEF Request, TypeOK, ClockRead
      <4> QED BY <3>2, <4>1, SmsAssumption
    <3> HIDE DEF pr
    <3>6. SuccessIsProved'
      BY <3>1, <3>3, <3>4, <3>5 DEF SuccessIsProved
    <3>7. \A q \in Proc : req'[q] = IF q = p THEN Idle ELSE req[q]
      BY <2>12 DEF ConfirmSave, Done, Become, TypeOK
    <3>8. \A d \in Code : row[d].status # "absent"
                             => row'[d].status # "absent"
      BY <3>3
    <3>9. \A q \in Proc : req[q].older \subseteq Code
      BY <1>3 DEF Request
    <3>10. HeldRows'
      BY <3>3, <3>7, <3>8, <3>9 DEF HeldRows, Idle
    <3>11. QED
      BY <1>0, <3>6, <3>10
  <2>13. CASE GrantClock(p)
    <3> DEFINE r == [req[p] EXCEPT !.pc = "grantList", !.clock = now]
    <3>1. r \in Request /\ r.pc = "grantList" /\ r.older = req[p].older /\ r.typed \in Code
      BY <1>3, <2>13 DEF Request, Label, TypeOK, GrantClock, HeldRows
    <3>2. QED
      BY <1>0, <2>13, <3>1, MoveKeeps DEF GrantClock, HeldRows
  <2>14. CASE GrantList(p)
    BY <1>4, <1>5, <2>14 DEF GrantList, Label
  <2>15. CASE ConfirmList(p)
    <3>1. CASE Done(p)
      BY <1>4, <2>15, <3>1 DEF ConfirmList
    <3>2. CASE Goto(p, "confirmSave") /\ Confirmable(req[p].typed, req[p].phone)
      <4> DEFINE r == [req[p] EXCEPT !.pc = "confirmSave"]
      <4>1. /\ r.pc = "confirmSave" /\ r.older = req[p].older
            /\ r.phone = req[p].phone /\ r.typed = req[p].typed
        BY <1>3 DEF Request
      <4>2. \A q \in Proc : req'[q] = IF q = p THEN r ELSE req[q]
        BY <3>2 DEF Goto, Become, TypeOK
      <4>3. r.typed \in Code /\ row[r.typed].status # "absent" /\ row[r.typed].phone = r.phone
        BY <2>15, <3>2, <4>1 DEF Confirmable, ConfirmList, HeldRows
      <4>4. row' = row /\ proof' = proof
        BY <2>15 DEF ConfirmList
      <4> HIDE DEF r
      <4>5. HeldRows'
        BY <4>1, <4>2, <4>3, <4>4 DEF HeldRows
      <4>6. QED
        BY <1>0, <4>4, <4>5 DEF SuccessIsProved
    <3>3. QED
      BY <2>15, <3>1, <3>2 DEF ConfirmList
  <2>16. QED
    BY <1>8, <2>1, <2>2, <2>3, <2>4, <2>5, <2>6, <2>7, <2>8, <2>9, <2>10,
       <2>11, <2>12, <2>13, <2>14, <2>15 DEF Continue
<1>9. QED
  BY <1>1, <1>2, <1>6, <1>7, <1>8 DEF Next

\* The inductive invariant holds: in particular a row marked as verified
\* always tells, in updated_at, when its code was last presented.
THEOREM InvCorrect == Spec => []Inv
<1>1. Init => Inv
  <2> SUFFICES ASSUME Init PROVE Inv
    OBVIOUS
  <2>1. TypeOK
    BY AbsentType, IdleType DEF Init, TypeOK, NoFailure, Failure
  <2>2. SuccessIsProved
    BY DEF Init, SuccessIsProved, Absent
  <2>3. HeldRows
    BY DEF Init, HeldRows, Idle
  <2>4. ClockRead
    BY DEF Init, ClockRead, Idle
  <2>5. QED
    BY <2>1, <2>2, <2>3, <2>4 DEF Inv
<1>2. Inv /\ [Next]_vars => Inv'
  BY InvStep
<1>3. QED
  BY <1>1, <1>2, PTL DEF Spec

\* SMSValidate.check and the views of phone.py: a code stands as verified only if it
\* was presented for the phone of its row, whatever other handlers saved over it.
THEOREM VerifiedRowsAreProved == Spec => []SuccessIsProved
<1>1. Inv => SuccessIsProved
  BY DEF Inv
<1>2. QED
  BY <1>1, InvCorrect, PTL

\* Only GrantList lets an operation through.
LEMMA OnlyGrantGrants ==
    ASSUME Inv, Next, NEW p \in Proc,
           req[p].pc # "granted", req'[p].pc = "granted"
    PROVE  GrantList(p)
<1> USE DEF Inv, TypeOK
<1>0. \A q \in Proc : req[q] \in Request
  OBVIOUS
<1>1. ASSUME NEW q \in Proc, NEW r, Become(q, r), r.pc # "granted" PROVE FALSE
  BY <1>1 DEF Become
<1>2. ASSUME NEW q \in Proc, Done(q) PROVE FALSE
  <2>1. Idle.pc # "granted"
    BY DEF Idle
  <2>2. QED
    BY <1>1, <1>2, <2>1 DEF Done
<1>3. ASSUME NEW q \in Proc, NEW label, Goto(q, label), label # "granted"
      PROVE  FALSE
  <2>1. [req[q] EXCEPT !.pc = label].pc = label
    BY <1>0 DEF Request
  <2>2. QED
    BY <1>1, <1>3, <2>1 DEF Goto
<1>4. ~Tick
  BY DEF Tick
<1>5. ASSUME NEW q \in WebProc, WebStart(q) PROVE FALSE
  <2> q \in Proc
    BY DEF Proc
  <2>1. ~ShowImage(q) /\ \A ph \in Phone : ~SendRefused(q, ph)
    BY DEF ShowImage, SendRefused
  <2>2. ASSUME NEW ph \in Phone, SendAdmitted(q, ph) PROVE FALSE
    <3>1. [req[q] EXCEPT !.pc = "incrementGet", !.phone = ph,
                         !.sending = TRUE].pc = "incrementGet"
      BY <1>0 DEF Request
    <3>2. QED
      BY <1>1, <2>2, <3>1 DEF SendAdmitted
  <2>3. ASSUME NEW ph \in Phone, NEW c \in Code, CheckExists(q, ph, c)
        PROVE  FALSE
    <3>1. [req[q] EXCEPT
              !.pc = IF Waiting(ph) = {} THEN "incrementGet"
                     ELSE "checkList",
              !.phone = ph, !.typed = c, !.clock = now].pc # "granted"
      BY <1>0 DEF Request
    <3>2. QED
      BY <1>1, <2>3, <3>1 DEF CheckExists
  <2>4. QED
    BY <1>5, <2>1, <2>2, <2>3 DEF WebStart
<1>6. ASSUME NEW q \in ApiProc, ApiStart(q) PROVE FALSE
  <2> q \in Proc
    BY DEF Proc
  <2>1. ASSUME NEW t \in Token, ApiSend(q, t) PROVE FALSE
    <3>1. [req[q] EXCEPT !.pc = "sendLook", !.phone = t[1], !.token = t,
                         !.sending = TRUE].pc = "sendLook"
      BY <1>0 DEF Request
    <3>2. QED
      BY <1>1, <2>1, <3>1 DEF ApiSend
  <2>2. ASSUME NEW ph \in Phone, NEW c \in Code, Confirm(q, ph, c)
        PROVE  FALSE
    <3>1. [req[q] EXCEPT !.pc = "confirmList", !.phone = ph, !.typed = c,
                         !.clock = now].pc = "confirmList"
      BY <1>0 DEF Request
    <3>2. QED
      BY <1>1, <2>2, <3>1 DEF Confirm
  <2>3. ASSUME NEW ph \in Phone, NEW c \in Code, Grant(q, ph, c)
        PROVE  FALSE
    <3>1. [req[q] EXCEPT !.pc = "grantClock", !.phone = ph, !.typed = c].pc = "grantClock"
      BY <1>0 DEF Request
    <3>2. QED
      BY <1>1, <2>3, <3>1 DEF Grant
  <2>4. QED
    BY <1>6, <2>1, <2>2, <2>3 DEF ApiStart
<1>7. ASSUME NEW q \in Proc, Continue(q) PROVE q = p /\ GrantList(q)
  <2>1. ~IncrementGet(q)
    <3>1. \A f : [req[q] EXCEPT !.pc = "incrementSave",
                                !.fail = f].pc = "incrementSave"
      BY <1>0 DEF Request
    <3>2. QED
      BY <1>1, <3>1 DEF IncrementGet
  <2>2. ~IncrementSave(q)
    <3>1. [req[q] EXCEPT !.pc = "sendLook", !.fail = NoFailure].pc
             = "sendLook"
      BY <1>0 DEF Request
    <3>2. QED
      BY <1>1, <1>2, <3>1 DEF IncrementSave
  <2>3. ~ClearGet(q)
    <3>1. \A f : [req[q] EXCEPT !.pc = "clearDelete",
                                !.fail = f].pc = "clearDelete"
      BY <1>0 DEF Request
    <3>2. QED
      BY <1>1, <1>2, <3>1 DEF ClearGet
  <2>4. ~ClearDelete(q) /\ ~New(q) /\ ~ConfirmSave(q) /\ ~Finish(q)
    BY <1>2 DEF ClearDelete, New, ConfirmSave, Finish
  <2>5. ~SendLook(q) /\ ~SendAge(q)
    BY <1>2, <1>3 DEF SendLook, SendAge
  <2>6. ~CheckList(q)
    <3>1. \A S : [req[q] EXCEPT !.pc = "expireOlder",
                                !.older = S].pc = "expireOlder"
      BY <1>0 DEF Request
    <3>2. QED
      BY <1>1, <1>3, <3>1 DEF CheckList
  <2>7. ~ExpireOlder(q)
    <3>1. \A S : [req[q] EXCEPT !.older = S].pc = req[q].pc
      BY <1>0 DEF Request
    <3>2. QED
      BY <1>1, <3>1 DEF ExpireOlder
  <2>8. ~CheckNewest(q)
    <3>1. \A c, v : [req[q] EXCEPT !.pc = "checkSave", !.code = c,
                                   !.verdict = v].pc = "checkSave"
      BY <1>0 DEF Request
    <3>2. QED
      BY <1>1, <1>2, <3>1 DEF CheckNewest
  <2>9. ~CheckSave(q)
    <3>1. [Idle EXCEPT
             !.pc = IF req[q].verdict = "success" THEN "clearGet"
                    ELSE "incrementGet",
             !.phone = req[q].phone].pc # "granted"
      BY DEF Idle
    <3>2. QED
      BY <1>1, <3>1 DEF CheckSave
  <2>10. ~ConfirmList(q) /\ ~GrantClock(q)
    <3>1. [req[q] EXCEPT !.pc = "grantList", !.clock = now].pc = "grantList"
      BY <1>0 DEF Request
    <3>2. QED
      BY <1>1, <1>2, <1>3, <3>1 DEF ConfirmList, GrantClock
  <2>11. GrantList(q) => q = p
    <3>1. ASSUME Goto(q, "granted"), q # p PROVE FALSE
      BY <3>1 DEF Goto, Become
    <3>2. QED
      BY <1>2, <3>1 DEF GrantList
  <2>12. QED
    BY <1>7, <2>1, <2>2, <2>3, <2>4, <2>5, <2>6, <2>7, <2>8, <2>9, <2>10, <2>11
       DEF Continue
<1>8. QED
  BY <1>4, <1>5, <1>6, <1>7 DEF Next

\* Whatever races, an operation is let through for a phone and a code only
\* if that code was presented for that phone, and the window since then is
\* TIME_OUT and what the two requests themselves took.
THEOREM GrantsAreProved == Spec => GrantFollowsProof
<1> DEFINE Fact ==
      \A p \in Proc : req[p].pc # "granted" /\ req'[p].pc = "granted" =>
          LET pr == proof[req'[p].typed] IN
          /\ pr # NULL /\ pr.phone = req'[p].phone
          /\ now - pr.at < TIME_OUT + (pr.saved - pr.at) + (now - req[p].clock)
<1>1. ASSUME Inv, Next PROVE Fact
  <2> SUFFICES ASSUME NEW p \in Proc, req[p].pc # "granted",
                      req'[p].pc = "granted"
               PROVE  LET pr == proof[req'[p].typed] IN
                      /\ pr # NULL /\ pr.phone = req'[p].phone
                      /\ now - pr.at < TIME_OUT + (pr.saved - pr.at) + (now - req[p].clock)
    OBVIOUS
  <2> DEFINE c == req[p].typed
             pr == proof[c]
  <2>1. GrantList(p)
    BY <1>1, OnlyGrantGrants
  <2>2. req[p] \in Request /\ Idle.pc # "granted"
    BY <1>1 DEF Inv, TypeOK, Idle
  <2>3. Goto(p, "granted") /\ Validated(c, req[p].phone) /\ Recent(c, req[p].clock)
    <3>1. ~Done(p)
      BY <1>1, <2>2 DEF Done, Become, Inv, TypeOK
    <3> QED BY <2>1, <3>1 DEF GrantList
  <2>4. req'[p].typed = c /\ req'[p].phone = req[p].phone
    BY <1>1, <2>2, <2>3 DEF Goto, Become, Inv, TypeOK, Request
  <2>5. c \in Code
    BY <1>1, <2>1 DEF GrantList, Inv, HeldRows
  <2>6. /\ pr # NULL /\ pr.phone = req[p].phone
        /\ pr.saved = row[c].updated /\ req[p].clock < row[c].updated + TIME_OUT
    BY <1>1, <2>3, <2>5 DEF Validated, Recent, Inv, SuccessIsProved
  <2>7. /\ pr.at \in Int /\ pr.saved \in Int /\ req[p].clock \in Int /\ now \in Int
        /\ TIME_OUT \in Int
    BY <1>1, <2>2, <2>5, <2>6, SmsAssumption DEF Inv, TypeOK, Proof, Request
  <2> HIDE DEF pr
  <2>8. now - pr.at < TIME_OUT + (pr.saved - pr.at) + (now - req[p].clock)
    BY <2>6, <2>7
  <2> QED BY <2>4, <2>6, <2>8 DEF pr
<1>2. ASSUME Inv, [Next]_vars PROVE [Fact]_vars
  BY <1>1, <1>2
<1>3. QED
  BY <1>2, InvCorrect, PTL DEF Spec, GrantFollowsProof

\* No save, however stale, makes a judged code wait again.
THEOREM JudgedForGood == Spec => NeverWaitingAgain
<1> DEFINE Fact ==
      \A c \in Code : row[c].status \notin {"wait", "absent"}
                         => row'[c].status # "wait"
<1>1. ASSUME Inv, Next PROVE Fact
  <2> SUFFICES ASSUME row' # row PROVE Fact
    BY DEF Inv, TypeOK
  <2>1. PICK p \in Proc : \/ New(p) \/ ExpireOlder(p) \/ CheckSave(p)
                          \/ ConfirmSave(p)
    BY <1>1 DEF Next, Tick, WebStart, ApiStart, Continue, ShowImage,
       SendRefused, SendAdmitted, CheckExists, ApiSend, Confirm, Grant,
       IncrementGet, IncrementSave, ClearGet, ClearDelete, SendLook, SendAge,
       CheckList, CheckNewest, ConfirmList, GrantClock, GrantList, Finish, Proc
  <2>2. CASE New(p)
    BY <1>1, <2>2 DEF New, Insert, Inv, TypeOK
  <2>3. ASSUME NEW c, NEW s \in Status, s # "wait", SaveStatus(c, s)
        PROVE  Fact
    BY <1>1, <2>3 DEF SaveStatus, Inv, TypeOK, Row
  <2>4. CASE ExpireOlder(p)
    BY <2>3, <2>4 DEF ExpireOlder, Status
  <2>5. CASE CheckSave(p)
    <3>1. req[p].verdict \in Status /\ req[p].verdict # "wait"
      BY <1>1, <2>5 DEF CheckSave, Inv, HeldRows, TypeOK, Request
    <3>2. QED
      BY <2>3, <2>5, <3>1 DEF CheckSave
  <2>6. CASE ConfirmSave(p)
    BY <2>3, <2>6 DEF ConfirmSave, Status
  <2>7. QED
    BY <2>1, <2>2, <2>4, <2>5, <2>6
<1>2. ASSUME Inv, [Next]_vars PROVE [Fact]_vars
  BY <1>1, <1>2
<1>3. QED
  BY <1>2, InvCorrect, PTL DEF Spec, NeverWaitingAgain
=============================================================================

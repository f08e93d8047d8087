--------------------------- MODULE Tokens_proofs ---------------------------
(***************************************************************************)
(* What holds of the OAuth2 provider's tokens for any number of users,     *)
(* clients, codes, tokens and workers, with SINGLE_ACCESS_TOKEN or without.*)
(* No save of the token endpoint gives a row back what another has taken   *)
(* from it (Weaker), so what a request found of the rows in hand stays     *)
(* true while others run, whichever steps of its own are still to come.    *)
(***************************************************************************)
EXTENDS MCTokens, FiniteSetTheorems, TLAPS

(***************************************************************************)
(* The inductive invariant                                                 *)
(***************************************************************************)

\* row n agrees with row m, and is live only if m is
Weaker(m, n) ==
    /\ n # NULL
    /\ n.user = m.user /\ n.client = m.client /\ n.scope = m.scope
    /\ n.live => m.live

\* what request r knows of the grant, the old and the new token in hand,
\* given the tables G, T and R
RequestOK(G, T, R, r) ==
    /\ r.pc # "idle" => r.user # NULL /\ r.client # NULL
    /\ r.grant # NULL =>
         /\ G[r.grant] # NULL /\ r.old = NULL
         /\ r.user = G[r.grant].user /\ r.client = G[r.grant].client
         /\ r.scope = G[r.grant].scope
    /\ r.old # NULL =>
         /\ T[r.old] # NULL /\ R[r.old] # "none"
         /\ r.user = T[r.old].user /\ r.client = T[r.old].client
         /\ r.scope = T[r.old].scope
         /\ r.pc # "expireRefresh" => R[r.old] = "expired"
         /\ r.pc \notin {"expireRefresh", "expireAccess"} => ~T[r.old].live
    /\ r.pc \in {"expireRefresh", "expireAccess"} => r.old # NULL
    /\ r.pc \in {"createRefresh", "invalidate", "answer"} =>
         r.at # NULL /\ T[r.at] # NULL
    /\ r.pc = "createRefresh" => R[r.at] = "none"
    /\ r.pc = "invalidate" => r.grant # NULL
    /\ r.pc = "answer" /\ r.grant # NULL => ~G[r.grant].live

\* a refresh token has its access token, a history its code and its parent
RowsOK ==
    \A t \in Token :
        /\ refresh[t] # "none" => tokens[t] # NULL
        /\ origin[t] # NULL => grants[origin[t]] # NULL
        /\ parent[t] # NULL => tokens[parent[t]] # NULL

\* no two requests are about to create the refresh token of one token
OneCreates ==
    \A p, q \in Worker :
        /\ At(p, "createRefresh") /\ At(q, "createRefresh")
        /\ req[p].at = req[q].at
        => p = q

Inv ==
    /\ TypeOK
    /\ RowsOK /\ WithinGrant /\ OldIsInvalid /\ AnsweredIsSpent /\ OneCreates
    /\ \A p \in Worker : RequestOK(grants, tokens, refresh, req[p])

\* what a step may do to the tables
Evolves ==
    /\ \A g \in Code : grants[g] # NULL => Weaker(grants[g], grants'[g])
    /\ \A t \in Token : tokens[t] # NULL => Weaker(tokens[t], tokens'[t])
    /\ \A t \in Token : /\ refresh[t] # "none" => refresh'[t] # "none"
                        /\ refresh[t] = "expired" => refresh'[t] = "expired"

(***************************************************************************)
(* Types                                                                   *)
(***************************************************************************)
LEMMA IdleType == Idle \in Request
BY DEF Idle, Request, Label, Scope, Bit

\* The requests stay typed when one ends.
LEMMA DoneType ==
    ASSUME TypeOK, NEW p \in Worker, Done(p)
    PROVE  req' \in [Worker -> Request]
BY IdleType DEF TypeOK, Done, Become

\* They do when one goes on to another label.
LEMMA GotoType ==
    ASSUME TypeOK, NEW p \in Worker, NEW label \in Label, Goto(p, label)
    PROVE  req' \in [Worker -> Request]
<1>1. [req[p] EXCEPT !.pc = label] \in Request
  BY DEF TypeOK, Request
<1>2. QED
  BY <1>1 DEF TypeOK, Goto, Become

\* the requests that a client's call leaves in hand
LEMMA StartType ==
    ASSUME NEW label \in Label, NEW u \in User, NEW c \in Client, NEW s \in Scope,
           NEW g \in Code \cup {NULL}, NEW t \in Token \cup {NULL}
    PROVE  /\ [Idle EXCEPT !.pc = label, !.user = u, !.client = c, !.scope = s]
                 \in Request
           /\ [Idle EXCEPT !.pc = label, !.user = u, !.client = c, !.scope = s,
                           !.grant = g] \in Request
           /\ [Idle EXCEPT !.pc = label, !.user = u, !.client = c, !.scope = s,
                           !.old = t] \in Request
BY IdleType DEF Idle, Request

\* Authorizing and lapsing keep the types.
LEMMA EnvironmentType ==
    ASSUME TypeOK, Environment
    PROVE  TypeOK'
<1>1. ASSUME NEW g \in Code, NEW u \in User, NEW c \in Client, NEW s \in Scope,
             Authorize(g, u, c, s)
      PROVE  TypeOK'
  BY <1>1 DEF Authorize, TypeOK, Row
<1>2. ASSUME NEW g \in Code, CodeLapses(g) PROVE TypeOK'
  BY <1>2 DEF CodeLapses, TypeOK, Row
<1>3. ASSUME NEW t \in Token, TokenLapses(t) PROVE TypeOK'
  BY <1>3 DEF TokenLapses, Accepted, TypeOK, Row
<1>4. QED
  BY <1>1, <1>2, <1>3 DEF Environment

\* So does the beginning of a request.
LEMMA StartTypeStep ==
    ASSUME TypeOK, NEW p \in Worker, Start(p)
    PROVE  TypeOK'
<1>1. FirstStep \in Label /\ "expireRefresh" \in Label
  BY DEF FirstStep, Label
<1>2. PICK c \in Client, s \in Scope :
         \/ \E g \in Code : AuthorizationCode(p, g, c, s)
         \/ \E u \in User : Login(p, u, c, s)
         \/ \E t \in Token : Refresh(p, t, c, s)
  BY DEF Start
<1>3. ASSUME NEW g \in Code, AuthorizationCode(p, g, c, s) PROVE TypeOK'
  <2>1. grants[g] \in Row
    BY <1>3 DEF AuthorizationCode, Redeemable, TypeOK
  <2>2. QED
    BY <1>1, <1>3, <2>1, StartType DEF AuthorizationCode, Become, TypeOK, Row
<1>4. ASSUME NEW u \in User, Login(p, u, c, s) PROVE TypeOK'
  BY <1>1, <1>4, StartType DEF Login, Become, TypeOK
<1>5. ASSUME NEW t \in Token, Refresh(p, t, c, s) PROVE TypeOK'
  <2>1. tokens[t] \in Row
    BY <1>5 DEF Refresh, Holds, TypeOK
  <2>2. QED
    BY <1>1, <1>5, <2>1, StartType DEF Refresh, Become, TypeOK, Row
<1>6. QED
  BY <1>2, <1>3, <1>4, <1>5

\* So does each step of one.
LEMMA StepType ==
    ASSUME TypeOK, NEW p \in Worker, Step(p),
           RequestOK(grants, tokens, refresh, req[p])
    PROVE  TypeOK'
<1> DEFINE r == req[p]
<1>1. r \in Request
  BY DEF TypeOK
<1>2. {"expireAccess", "create", "createRefresh", "invalidate", "answer"} \subseteq Label
  BY DEF Label
<1>3. CASE ExpireRefresh(p)
  BY <1>2, <1>3, GotoType DEF ExpireRefresh, TypeOK
<1>4. CASE ExpireAccess(p)
  <2>1. tokens' \in [Token -> Row \cup {NULL}]
    <3>1. r.old \in Token /\ tokens[r.old] \in Row
      BY <1>1, <1>4 DEF ExpireAccess, At, RequestOK, Request, TypeOK
    <3>2. QED
      BY <1>4, <3>1 DEF ExpireAccess, TypeOK, Row
  <2>2. QED
    BY <1>2, <1>4, <2>1, GotoType DEF ExpireAccess, TypeOK
<1>5. CASE GetAccessToken(p)
  <2>1. req' \in [Worker -> Request]
    <3>1. ASSUME NEW t \in Token, Become(p, [r EXCEPT !.at = t, !.pc = AfterToken(r)])
          PROVE  req' \in [Worker -> Request]
      <4>1. AfterToken(r) \in Label
        BY <1>2 DEF AfterToken
      <4>2. [r EXCEPT !.at = t, !.pc = AfterToken(r)] \in Request
        BY <1>1, <4>1 DEF Request
      <4>3. QED
        BY <3>1, <4>2 DEF TypeOK, Become
    <3>2. Same(r) \subseteq Token
      BY DEF Same
    <3>3. QED
      BY <1>2, <1>5, <3>1, <3>2, GotoType, DoneType DEF GetAccessToken
  <2>2. QED
    BY <1>5, <2>1 DEF GetAccessToken, TypeOK
<1>6. CASE CreateRefreshToken(p)
  <2>1. AfterToken(r) \in Label
    BY <1>2 DEF AfterToken
  <2>2. QED
    BY <1>6, <2>1, GotoType DEF CreateRefreshToken, TypeOK
<1>7. ASSUME NEW t \in Token, CreateAccessToken(p, t) PROVE TypeOK'
  <2>1. r.user \in User /\ r.client \in Client /\ r.scope \in Scope
    BY <1>1, <1>7 DEF CreateAccessToken, At, RequestOK, Request
  <2>2. [r EXCEPT !.pc = "createRefresh", !.at = t] \in Request
    BY <1>1, <1>2 DEF Request
  <2>3. req' \in [Worker -> Request]
    BY <1>7, <2>2 DEF CreateAccessToken, TypeOK, Become
  <2>4. tokens' \in [Token -> Row \cup {NULL}]
    BY <1>7, <2>1 DEF CreateAccessToken, TypeOK, Row
  <2>5. /\ origin' \in [Token -> Code \cup {NULL}]
        /\ parent' \in [Token -> Token \cup {NULL}]
    BY <1>1, <1>7 DEF CreateAccessToken, TypeOK, Request
  <2>6. QED
    BY <1>7, <2>3, <2>4, <2>5 DEF CreateAccessToken, TypeOK
<1>8. CASE InvalidateGrant(p)
  <2>1. grants' \in [Code -> Row \cup {NULL}]
    <3>1. r.grant \in Code /\ grants[r.grant] \in Row
      BY <1>1, <1>8 DEF InvalidateGrant, At, RequestOK, Request, TypeOK
    <3>2. QED
      BY <1>8, <3>1 DEF InvalidateGrant, TypeOK, Row
  <2>2. QED
    BY <1>2, <1>8, <2>1, GotoType DEF InvalidateGrant, TypeOK
<1>9. CASE Answer(p)
  <2>1. r.at \in Token /\ r.grant \in Code \cup {NULL}
    BY <1>1, <1>9 DEF Answer, At, RequestOK, Request
  <2>2. given' \in SUBSET ((Code \cup {NULL}) \X Token)
    BY <1>9, <2>1 DEF Answer, TypeOK
  <2>3. QED
    BY <1>9, <2>2, DoneType DEF Answer, TypeOK
<1>10. QED
  BY <1>3, <1>4, <1>5, <1>6, <1>7, <1>8, <1>9 DEF Step

\* Every step keeps the types.
LEMMA TypeStep ==
    ASSUME Inv, [Next]_vars
    PROVE  TypeOK'
<1>1. CASE UNCHANGED vars
  BY <1>1 DEF vars, Inv, TypeOK
<1>2. ASSUME NEW p \in Worker, Crash(p) PROVE TypeOK'
  BY <1>2, DoneType DEF Crash, Inv, TypeOK
<1>3. QED
  BY <1>1, <1>2, EnvironmentType, StartTypeStep, StepType DEF Next, Inv

(***************************************************************************)
(* The tables                                                              *)
(***************************************************************************)

\* a row changed in the column live alone, to FALSE
LEMMA InvalidatedIsWeaker ==
    ASSUME NEW m \in Row
    PROVE  Weaker(m, m) /\ Weaker(m, [m EXCEPT !.live = FALSE])
BY NullAssumption DEF Weaker, Row

\* No save of the endpoint, and no lapse of time, gives a row anything back.
LEMMA EvolveStep ==
    ASSUME Inv, [Next]_vars
    PROVE  Evolves
<1> USE NullAssumption
<1>1. ASSUME NEW g \in Code, grants[g] # NULL
      PROVE  /\ grants[g] \in Row /\ Weaker(grants[g], grants[g])
             /\ Weaker(grants[g], [grants[g] EXCEPT !.live = FALSE])
  BY <1>1, InvalidatedIsWeaker DEF Inv, TypeOK
<1>2. ASSUME NEW t \in Token, tokens[t] # NULL
      PROVE  /\ tokens[t] \in Row /\ Weaker(tokens[t], tokens[t])
             /\ Weaker(tokens[t], [tokens[t] EXCEPT !.live = FALSE])
  BY <1>2, InvalidatedIsWeaker DEF Inv, TypeOK
<1>3. \/ grants' = grants
      \/ \E g \in Code : grants' = [grants EXCEPT ![g].live = FALSE]
      \/ \E g \in Code, m \in Row : grants[g] = NULL /\ grants' = [grants EXCEPT ![g] = m]
  <2>1. ASSUME NEW g \in Code, NEW u \in User, NEW c \in Client, NEW s \in Scope,
               Authorize(g, u, c, s)
        PROVE  \E m \in Row : grants[g] = NULL /\ grants' = [grants EXCEPT ![g] = m]
    <3>1. [user |-> u, client |-> c, scope |-> s, live |-> TRUE] \in Row
      BY DEF Row
    <3>2. QED
      BY <2>1, <3>1 DEF Authorize
  <2>2. ASSUME NEW p \in Worker, InvalidateGrant(p)
        PROVE  \E g \in Code : grants' = [grants EXCEPT ![g].live = FALSE]
    <3>1. req[p].grant \in Code
      BY <2>2 DEF InvalidateGrant, At, Inv, RequestOK, TypeOK, Request
    <3>2. QED
      BY <2>2, <3>1 DEF InvalidateGrant
  <2>3. QED
    BY <2>1, <2>2 DEF Next, Environment, Start, Step, Crash, vars, CodeLapses, TokenLapses,
       AuthorizationCode, Login, Refresh, ExpireRefresh, ExpireAccess, GetAccessToken,
       CreateAccessToken, CreateRefreshToken, Answer
<1>4. \/ tokens' = tokens
      \/ \E t \in Token : tokens' = [tokens EXCEPT ![t].live = FALSE]
      \/ \E t \in Token, m \in Row : tokens[t] = NULL /\ tokens' = [tokens EXCEPT ![t] = m]
  <2>1. ASSUME NEW p \in Worker, NEW t \in Token, CreateAccessToken(p, t)
        PROVE  \E m \in Row : tokens[t] = NULL /\ tokens' = [tokens EXCEPT ![t] = m]
    <3>1. req[p].user \in User /\ req[p].client \in Client /\ req[p].scope \in Scope
      BY <2>1 DEF CreateAccessToken, At, Inv, RequestOK, TypeOK, Request
    <3>2. [user |-> req[p].user, client |-> req[p].client, scope |-> req[p].scope,
           live |-> TRUE] \in Row
      BY <3>1 DEF Row
    <3>3. QED
      BY <2>1, <3>2 DEF CreateAccessToken
  <2>2. ASSUME NEW p \in Worker, ExpireAccess(p)
        PROVE  \E t \in Token : tokens' = [tokens EXCEPT ![t].live = FALSE]
    <3>1. req[p].old \in Token
      BY <2>2 DEF ExpireAccess, At, Inv, RequestOK, TypeOK, Request
    <3>2. QED
      BY <2>2, <3>1 DEF ExpireAccess
  <2>3. QED
    BY <2>1, <2>2 DEF Next, Environment, Start, Step, Crash, vars, CodeLapses, TokenLapses,
       AuthorizationCode, Login, Refresh, ExpireRefresh, GetAccessToken, Authorize,
       CreateRefreshToken, InvalidateGrant, Answer
<1>5. \/ refresh' = refresh
      \/ \E t \in Token : refresh' = [refresh EXCEPT ![t] = "expired"]
      \/ \E t \in Token : refresh[t] = "none" /\ refresh' = [refresh EXCEPT ![t] = "fresh"]
  <2>1. ASSUME NEW p \in Worker, CreateRefreshToken(p)
        PROVE  \E t \in Token :
                  refresh[t] = "none" /\ refresh' = [refresh EXCEPT ![t] = "fresh"]
    <3>1. req[p].at \in Token /\ refresh[req[p].at] = "none"
      BY <2>1 DEF CreateRefreshToken, At, Inv, RequestOK, TypeOK, Request
    <3>2. QED
      BY <2>1, <3>1 DEF CreateRefreshToken
  <2>2. ASSUME NEW p \in Worker, ExpireRefresh(p)
        PROVE  \E t \in Token : refresh' = [refresh EXCEPT ![t] = "expired"]
    <3>1. req[p].old \in Token
      BY <2>2 DEF ExpireRefresh, At, Inv, RequestOK, TypeOK, Request
    <3>2. QED
      BY <2>2, <3>1 DEF ExpireRefresh
  <2>3. QED
    BY <2>1, <2>2 DEF Next, Environment, Start, Step, Crash, vars, CodeLapses, TokenLapses,
       AuthorizationCode, Login, Refresh, ExpireAccess, GetAccessToken, Authorize,
       CreateAccessToken, InvalidateGrant, Answer
<1>6. \A g \in Code : grants[g] # NULL => Weaker(grants[g], grants'[g])
  BY <1>1, <1>3 DEF Inv, TypeOK
<1>7. \A t \in Token : tokens[t] # NULL => Weaker(tokens[t], tokens'[t])
  BY <1>2, <1>4 DEF Inv, TypeOK
<1>8. \A t \in Token : /\ refresh[t] # "none" => refresh'[t] # "none"
                       /\ refresh[t] = "expired" => refresh'[t] = "expired"
  BY <1>5 DEF Inv, TypeOK
<1>9. QED
  BY <1>6, <1>7, <1>8 DEF Evolves

(***************************************************************************)
(* The requests                                                            *)
(***************************************************************************)

\* What a request knows stays true while the tables evolve.
LEMMA KnownStays ==
    ASSUME TypeOK, Evolves, NEW p \in Worker,
           RequestOK(grants, tokens, refresh, req[p]),
           At(p, "createRefresh") => refresh'[req[p].at] = "none"
    PROVE  RequestOK(grants', tokens', refresh', req[p])
<1>1. req[p] \in Request
  BY DEF TypeOK
<1>2. /\ req[p].grant # NULL => Weaker(grants[req[p].grant], grants'[req[p].grant])
      /\ req[p].old # NULL => Weaker(tokens[req[p].old], tokens'[req[p].old])
      /\ req[p].pc \in {"createRefresh", "invalidate", "answer"} =>
           tokens'[req[p].at] # NULL
  BY <1>1 DEF Evolves, RequestOK, Request, Weaker
<1>3. req[p].old # NULL =>
        /\ refresh'[req[p].old] # "none"
        /\ refresh[req[p].old] = "expired" => refresh'[req[p].old] = "expired"
  BY <1>1 DEF Evolves, RequestOK, Request
<1>4. QED
  BY <1>1, <1>2, <1>3 DEF RequestOK, Weaker, Request, At

\* The refresh token that a request is about to create is created by it alone.
LEMMA NotYetCreated ==
    ASSUME Inv, [Next]_vars, NEW p \in Worker, At(p, "createRefresh"),
           req'[p] = req[p], NEW t, t = req[p].at
    PROVE  refresh'[t] = "none"
<1>1. refresh[t] = "none" /\ req[p] \in Request /\ t \in Token
  BY DEF Inv, RequestOK, At, TypeOK, Request
<1>2. ASSUME NEW q \in Worker, CreateRefreshToken(q) PROVE refresh'[t] = "none"
  <2>1. q # p
    BY <1>2 DEF CreateRefreshToken, Goto, Become, At, AfterToken, Inv, TypeOK, Request
  <2>2. req[q].at # t
    BY <1>2, <2>1 DEF CreateRefreshToken, Inv, OneCreates
  <2>3. QED
    BY <1>1, <1>2, <2>2 DEF CreateRefreshToken, Inv, TypeOK
<1>3. ASSUME NEW q \in Worker, ExpireRefresh(q) PROVE refresh'[t] = "none"
  <2>1. req[q].old # t
    BY <1>1, <1>3 DEF ExpireRefresh, At, Inv, RequestOK
  <2>2. QED
    BY <1>1, <1>3, <2>1 DEF ExpireRefresh, Inv, TypeOK
<1>4. refresh' = refresh \/ \E q \in Worker : CreateRefreshToken(q) \/ ExpireRefresh(q)
  BY DEF Next, Environment, Start, Step, Crash, vars, CodeLapses, TokenLapses,
     AuthorizationCode, Login, Refresh, ExpireAccess, GetAccessToken, Authorize,
     CreateAccessToken, InvalidateGrant, Answer
<1>5. QED
  BY <1>1, <1>2, <1>3, <1>4

\* A step leaves the requests of the other workers alone.
LEMMA OthersStay ==
    ASSUME [Next]_vars, TypeOK, NEW p \in Worker
    PROVE  req'[p] = req[p] \/ Start(p) \/ Step(p) \/ Crash(p)
<1>1. CASE UNCHANGED vars
  BY <1>1 DEF vars
<1>2. CASE Environment
  BY <1>2 DEF Environment, Authorize, CodeLapses, TokenLapses
<1>3. ASSUME NEW q \in Worker, Start(q) \/ Step(q) \/ Crash(q), q # p
      PROVE  req'[p] = req[p]
  BY <1>3 DEF Start, Step, Crash, AuthorizationCode, Login, Refresh, ExpireRefresh,
     ExpireAccess, GetAccessToken, CreateAccessToken, CreateRefreshToken,
     InvalidateGrant, Answer, Become, Goto, Done, TypeOK
<1>4. QED
  BY <1>1, <1>2, <1>3 DEF Next

\* A worker without a request knows nothing.
LEMMA IdleOK ==
    ASSUME NEW G, NEW T, NEW R
    PROVE  RequestOK(G, T, R, Idle)
BY DEF RequestOK, Idle

\* What a worker's own step leaves in hand agrees with the tables.
LEMMA OwnStep ==
    ASSUME Inv, Evolves, TypeOK', NEW p \in Worker, Start(p) \/ Step(p) \/ Crash(p)
    PROVE  RequestOK(grants', tokens', refresh', req'[p])
<1> DEFINE r == req[p]
<1> USE OAuthAssumption, NullAssumption
<1>1. /\ r \in Request /\ RequestOK(grants, tokens, refresh, r)
      /\ \A g \in Code : grants[g] \in Row \cup {NULL}
      /\ \A t \in Token : tokens[t] \in Row \cup {NULL}
      /\ \A t \in Token : refresh[t] \in {"none", "fresh", "expired"}
      /\ TypeOK
  BY DEF Inv, TypeOK
<1>2. ASSUME Done(p) PROVE RequestOK(grants', tokens', refresh', req'[p])
  BY <1>1, <1>2, IdleOK DEF Done, Become, TypeOK
<1>3. ASSUME NEW g \in Code, NEW c \in Client, NEW s \in Scope, AuthorizationCode(p, g, c, s)
      PROVE  RequestOK(grants', tokens', refresh', req'[p])
  BY <1>1, <1>3 DEF AuthorizationCode, Redeemable, Become, FirstStep, RequestOK, Idle, Row, TypeOK
<1>4. ASSUME NEW u \in User, NEW c \in Client, NEW s \in Scope, Login(p, u, c, s)
      PROVE  RequestOK(grants', tokens', refresh', req'[p])
  BY <1>1, <1>4 DEF Login, Become, FirstStep, RequestOK, Idle, TypeOK
<1>5. ASSUME NEW t \in Token, NEW c \in Client, NEW s \in Scope, Refresh(p, t, c, s)
      PROVE  RequestOK(grants', tokens', refresh', req'[p])
  BY <1>1, <1>5 DEF Refresh, Holds, Become, RequestOK, Idle, Row, TypeOK
<1>6. CASE ExpireRefresh(p)
  BY <1>1, <1>6 DEF ExpireRefresh, Goto, Become, At, RequestOK, Request, TypeOK
<1>7. CASE ExpireAccess(p)
  <2>1. /\ r.pc = "expireAccess" /\ r.old \in Token /\ tokens[r.old] \in Row
        /\ req'[p] = [r EXCEPT !.pc = "create"]
        /\ tokens' = [tokens EXCEPT ![r.old].live = FALSE]
        /\ grants' = grants /\ refresh' = refresh
    BY <1>1, <1>7 DEF ExpireAccess, Goto, Become, At, RequestOK, Request, TypeOK
  <2>2. /\ tokens'[r.old] = [tokens[r.old] EXCEPT !.live = FALSE]
        /\ Weaker(tokens[r.old], tokens'[r.old]) /\ ~tokens'[r.old].live
    BY <1>1, <2>1, InvalidatedIsWeaker DEF TypeOK, Row
  <2>3. /\ req'[p].pc = "create" /\ req'[p].user = r.user /\ req'[p].client = r.client
        /\ req'[p].scope = r.scope /\ req'[p].grant = r.grant /\ req'[p].old = r.old
    BY <1>1, <2>1 DEF Request
  <2>4. QED
    BY <1>1, <2>1, <2>2, <2>3 DEF RequestOK, Weaker
<1>8. CASE GetAccessToken(p)
  <2>1. ASSUME Goto(p, "create") PROVE RequestOK(grants', tokens', refresh', req'[p])
    BY <1>1, <1>8, <2>1 DEF GetAccessToken, Goto, Become, At, RequestOK, Request, TypeOK
  <2>2. ASSUME NEW t \in Token, tokens[t] # NULL,
               Become(p, [r EXCEPT !.at = t, !.pc = AfterToken(r)])
        PROVE  RequestOK(grants', tokens', refresh', req'[p])
    BY <1>1, <1>8, <2>2
       DEF GetAccessToken, Become, AfterToken, At, RequestOK, Request, TypeOK
  <2>3. QED
    BY <1>2, <1>8, <2>1, <2>2 DEF GetAccessToken, Same
<1>9. CASE CreateRefreshToken(p)
  BY <1>1, <1>9
     DEF CreateRefreshToken, Goto, Become, AfterToken, At, RequestOK, Request, TypeOK
<1>10. ASSUME NEW t \in Token, CreateAccessToken(p, t)
       PROVE  RequestOK(grants', tokens', refresh', req'[p])
  <2>1. refresh[t] = "none"
    BY <1>10 DEF CreateAccessToken, Inv, RowsOK
  <2>2. r.old # t
    BY <1>1, <1>10 DEF CreateAccessToken, RequestOK
  <2>3. tokens'[t] # NULL
    <3>1. r.user \in User /\ r.client \in Client /\ r.scope \in Scope
      BY <1>1, <1>10 DEF CreateAccessToken, At, RequestOK, Request
    <3>2. [user |-> r.user, client |-> r.client, scope |-> r.scope, live |-> TRUE] \in Row
      BY <3>1 DEF Row
    <3>3. QED
      BY <1>1, <1>10, <3>2 DEF CreateAccessToken, TypeOK
  <2>4. QED
    BY <1>1, <1>10, <2>1, <2>2, <2>3
       DEF CreateAccessToken, Become, At, RequestOK, Request, TypeOK
<1>11. CASE InvalidateGrant(p)
  <2>1. /\ r.pc = "invalidate" /\ r.grant \in Code /\ grants[r.grant] \in Row
        /\ req'[p] = [r EXCEPT !.pc = "answer"]
        /\ grants' = [grants EXCEPT ![r.grant].live = FALSE]
        /\ tokens' = tokens /\ refresh' = refresh
    BY <1>1, <1>11 DEF InvalidateGrant, Goto, Become, At, RequestOK, Request, TypeOK
  <2>2. /\ grants'[r.grant] = [grants[r.grant] EXCEPT !.live = FALSE]
        /\ Weaker(grants[r.grant], grants'[r.grant]) /\ ~grants'[r.grant].live
    BY <1>1, <2>1, InvalidatedIsWeaker DEF TypeOK, Row
  <2>3. /\ req'[p].pc = "answer" /\ req'[p].user = r.user /\ req'[p].client = r.client
        /\ req'[p].scope = r.scope /\ req'[p].grant = r.grant /\ req'[p].old = r.old
        /\ req'[p].at = r.at
    BY <1>1, <2>1 DEF Request
  <2>4. QED
    BY <1>1, <2>1, <2>2, <2>3 DEF RequestOK, Weaker
<1>12. CASE Answer(p)
  BY <1>2, <1>12 DEF Answer
<1>13. CASE Crash(p)
  BY <1>2, <1>13 DEF Crash
<1>14. QED
  BY <1>3, <1>4, <1>5, <1>6, <1>7, <1>8, <1>9, <1>10, <1>11, <1>12, <1>13 DEF Start, Step

\* What every request knows is still so after any step.
LEMMA RequestsStep ==
    ASSUME Inv, [Next]_vars, NEW p \in Worker
    PROVE  RequestOK(grants, tokens, refresh, req[p])'
<1>1. Evolves /\ TypeOK'
  BY EvolveStep, TypeStep
<1>2. CASE req'[p] = req[p]
  BY <1>1, <1>2, KnownStays, NotYetCreated DEF Inv
<1>3. CASE Start(p) \/ Step(p) \/ Crash(p)
  BY <1>1, <1>3, OwnStep
<1>4. QED
  BY <1>2, <1>3, OthersStay DEF Inv

(***************************************************************************)
(* The tables and the histories                                            *)
(***************************************************************************)

\* Only CreateAccessToken writes a new token and its history, or leaves a
\* request about to create a refresh token.
LEMMA NoCreation ==
    ASSUME Inv, [Next]_vars,
           ~ \E p \in Worker, t \in Token : CreateAccessToken(p, t)
    PROVE  /\ UNCHANGED <<origin, parent>>
           /\ \A t \in Token : tokens'[t] # NULL => tokens[t] # NULL
           /\ \A p \in Worker : At(p, "createRefresh")' => req'[p] = req[p]
<1> USE NullAssumption
<1>1. CASE UNCHANGED vars
  BY <1>1 DEF vars
<1>2. CASE Environment
  <2>1. UNCHANGED <<origin, parent, req>>
    BY <1>2 DEF Environment, Authorize, CodeLapses, TokenLapses
  <2>2. \/ tokens' = tokens
        \/ \E t \in Token : tokens[t] # NULL /\ tokens' = [tokens EXCEPT ![t].live = FALSE]
    BY <1>2 DEF Environment, Authorize, CodeLapses, TokenLapses, Accepted
  <2>3. QED
    BY <2>1, <2>2 DEF Inv, TypeOK
<1>3. ASSUME NEW p \in Worker, Start(p) \/ Step(p) \/ Crash(p)
      PROVE  /\ UNCHANGED <<origin, parent>>
             /\ \A t \in Token : tokens'[t] # NULL => tokens[t] # NULL
             /\ \A q \in Worker : At(q, "createRefresh")' => req'[q] = req[q]
  <2>1. UNCHANGED <<origin, parent>>
    BY <1>3 DEF Start, Step, Crash, AuthorizationCode, Login, Refresh, ExpireRefresh,
       ExpireAccess, GetAccessToken, CreateRefreshToken, InvalidateGrant, Answer
  <2>2. ASSUME ExpireAccess(p) PROVE \A t \in Token : tokens'[t] # NULL => tokens[t] # NULL
    <3>1. req[p].old \in Token /\ tokens[req[p].old] # NULL
      BY <2>2 DEF ExpireAccess, At, Inv, RequestOK, TypeOK, Request
    <3>2. QED
      BY <2>2, <3>1 DEF ExpireAccess, Inv, TypeOK
  <2>3. \A t \in Token : tokens'[t] # NULL => tokens[t] # NULL
    BY <1>3, <2>2 DEF Start, Step, Crash, AuthorizationCode, Login, Refresh, ExpireRefresh,
       GetAccessToken, CreateRefreshToken, InvalidateGrant, Answer
  <2>4. req'[p].pc # "createRefresh" /\ \A q \in Worker : q # p => req'[q] = req[q]
    <3>1. req[p] \in Request /\ req \in [Worker -> Request]
      BY DEF Inv, TypeOK
    <3>2. ASSUME NEW r, Become(p, r), r.pc # "createRefresh"
          PROVE  req'[p].pc # "createRefresh" /\ \A q \in Worker : q # p => req'[q] = req[q]
      BY <3>1, <3>2 DEF Become
    <3>3. ASSUME NEW label, label # "createRefresh", Goto(p, label)
          PROVE  req'[p].pc # "createRefresh" /\ \A q \in Worker : q # p => req'[q] = req[q]
      BY <3>1, <3>2, <3>3 DEF Goto, Request
    <3>4. CASE Done(p)
      BY <3>2, <3>4 DEF Done, Idle
    <3>5. CASE Start(p)
      <4>1. \E r : Become(p, r) /\ r.pc # "createRefresh"
        <5>1. PICK c \in Client, s \in Scope :
                \/ \E g \in Code : AuthorizationCode(p, g, c, s)
                \/ \E u \in User : Login(p, u, c, s)
                \/ \E t \in Token : Refresh(p, t, c, s)
          BY <3>5 DEF Start
        <5>2. ASSUME NEW g \in Code, AuthorizationCode(p, g, c, s)
              PROVE  \E r : Become(p, r) /\ r.pc # "createRefresh"
          <6> DEFINE r == [Idle EXCEPT !.pc = FirstStep, !.user = grants[g].user, !.client = c,
                                   !.scope = grants[g].scope, !.grant = g]
          <6>1. Become(p, r)
            BY <5>2 DEF AuthorizationCode
          <6>2. r.pc # "createRefresh"
            BY DEF Idle, FirstStep
          <6> HIDE DEF r
          <6>3. QED
            BY <6>1, <6>2
        <5>3. ASSUME NEW u \in User, Login(p, u, c, s)
              PROVE  \E r : Become(p, r) /\ r.pc # "createRefresh"
          <6> DEFINE r == [Idle EXCEPT !.pc = FirstStep, !.user = u, !.client = c, !.scope = s]
          <6>1. Become(p, r)
            BY <5>3 DEF Login
          <6>2. r.pc # "createRefresh"
            BY DEF Idle, FirstStep
          <6> HIDE DEF r
          <6>3. QED
            BY <6>1, <6>2
        <5>4. ASSUME NEW t \in Token, Refresh(p, t, c, s)
              PROVE  \E r : Become(p, r) /\ r.pc # "createRefresh"
          <6> DEFINE r == [Idle EXCEPT !.pc = "expireRefresh", !.user = tokens[t].user,
                                   !.client = c, !.scope = tokens[t].scope, !.old = t]
          <6>1. Become(p, r)
            BY <5>4 DEF Refresh
          <6>2. r.pc # "createRefresh"
            BY DEF Idle, FirstStep
          <6> HIDE DEF r
          <6>3. QED
            BY <6>1, <6>2
        <5>5. QED
          BY <5>1, <5>2, <5>3, <5>4
      <4>2. QED
        BY <3>2, <4>1
    <3>6. CASE GetAccessToken(p)
      <4>1. ASSUME NEW t \in Token, Become(p, [req[p] EXCEPT !.at = t, !.pc = AfterToken(req[p])])
            PROVE  req'[p].pc # "createRefresh" /\ \A q \in Worker : q # p => req'[q] = req[q]
        BY <3>1, <3>2, <4>1 DEF AfterToken, Request
      <4>2. QED
        BY <3>3, <3>4, <3>6, <4>1 DEF GetAccessToken, Same
    <3>7. QED
      BY <1>3, <3>3, <3>4, <3>5, <3>6 DEF Step, Crash, ExpireRefresh, ExpireAccess,
         CreateRefreshToken, InvalidateGrant, Answer, AfterToken
  <2>5. QED
    BY <2>1, <2>3, <2>4 DEF At
<1>4. QED
  BY <1>1, <1>2, <1>3 DEF Next

\* what CreateAccessToken has in hand and what it writes
Creates(p, t) ==
    /\ tokens[t] = NULL /\ refresh[t] = "none"
    /\ tokens'[t] = [user |-> req[p].user, client |-> req[p].client,
                     scope |-> req[p].scope, live |-> TRUE]
    /\ origin'[t] = IF req[p].old = NULL THEN req[p].grant ELSE origin[req[p].old]
    /\ parent'[t] = req[p].old
    /\ \A u \in Token : u # t => /\ tokens'[u] = tokens[u] /\ origin'[u] = origin[u]
                                 /\ parent'[u] = parent[u]
    /\ UNCHANGED <<grants, refresh, given>>
    /\ req'[p].at = t /\ \A q \in Worker : q # p => req'[q] = req[q]
    /\ req[p] \in Request /\ req[p].pc = "create"
    /\ RequestOK(grants, tokens, refresh, req[p])

\* What create_access_token does to the tables and the request.
LEMMA Creation ==
    ASSUME Inv, NEW p \in Worker, NEW t \in Token, CreateAccessToken(p, t)
    PROVE  Creates(p, t)
<1>1. req[p] \in Request /\ RequestOK(grants, tokens, refresh, req[p])
  BY DEF Inv, TypeOK
<1>2. req'[p].at = t /\ \A q \in Worker : q # p => req'[q] = req[q]
  BY <1>1 DEF CreateAccessToken, Become, Inv, TypeOK, Request
<1>3. tokens[t] = NULL /\ refresh[t] = "none"
  BY DEF CreateAccessToken, Inv, RowsOK
<1>4. QED
  BY <1>1, <1>2, <1>3 DEF Creates, CreateAccessToken, At, Inv, TypeOK, Request

\* Every step keeps what is said of the rows.
LEMMA RowsStep ==
    ASSUME Inv, [Next]_vars
    PROVE  RowsOK'
<1>1. Evolves
  BY EvolveStep
<1>2. CASE \E p \in Worker, t \in Token : CreateAccessToken(p, t)
  <2>1. PICK p \in Worker, t \in Token : Creates(p, t)
    BY <1>2, Creation
  <2>2. tokens'[t] # NULL
    <3>1. tokens'[t] \in Row
      BY <2>1 DEF Creates, Row, RequestOK, Request
    <3>2. QED
      BY <3>1, NullAssumption
  <2>3. ASSUME NEW u \in Token
        PROVE  /\ refresh'[u] # "none" => tokens'[u] # NULL
               /\ origin'[u] # NULL => grants'[origin'[u]] # NULL
               /\ parent'[u] # NULL => tokens'[parent'[u]] # NULL
    <3>1. CASE u = t
      BY <2>1, <2>2, <3>1, OAuthAssumption DEF Creates, Inv, RowsOK, RequestOK, Request
    <3>2. CASE u # t
      BY <2>1, <2>2, <3>2 DEF Creates, Inv, RowsOK, TypeOK
    <3>3. QED
      BY <3>1, <3>2
  <2>4. QED
    BY <2>3 DEF RowsOK
<1>3. CASE ~ \E p \in Worker, t \in Token : CreateAccessToken(p, t)
  <2>1. ASSUME NEW t \in Token, refresh'[t] # "none" PROVE tokens[t] # NULL
    <3>1. CASE refresh[t] # "none"
      BY <3>1 DEF Inv, RowsOK
    <3>2. CASE refresh[t] = "none"
      <4>1. PICK q \in Worker : CreateRefreshToken(q) \/ ExpireRefresh(q)
        BY <2>1, <3>2 DEF Next, Environment, Start, Step, Crash, vars, CodeLapses, TokenLapses,
           AuthorizationCode, Login, Refresh, ExpireAccess, GetAccessToken, Authorize,
           CreateAccessToken, InvalidateGrant, Answer
      <4>2. CASE CreateRefreshToken(q)
        BY <2>1, <3>2, <4>2 DEF CreateRefreshToken, At, Inv, TypeOK, RequestOK
      <4>3. CASE ExpireRefresh(q)
        BY <2>1, <3>2, <4>3 DEF ExpireRefresh, At, Inv, TypeOK, RequestOK
      <4>4. QED
        BY <4>1, <4>2, <4>3
    <3>3. QED
      BY <3>1, <3>2
  <2>2. \A t \in Token : tokens[t] # NULL => tokens'[t] # NULL
    BY <1>1 DEF Evolves, Weaker
  <2>3. \A g \in Code : grants[g] # NULL => grants'[g] # NULL
    BY <1>1 DEF Evolves, Weaker
  <2>4. QED
    BY <1>3, <2>1, <2>2, <2>3, NoCreation DEF Inv, RowsOK, TypeOK
<1>4. QED
  BY <1>2, <1>3

\* Every step leaves tokens within the scope of their code.
LEMMA WithinGrantStep ==
    ASSUME Inv, [Next]_vars
    PROVE  WithinGrant'
<1>1. Evolves
  BY EvolveStep
<1> SUFFICES ASSUME NEW t \in Token, tokens'[t] # NULL, origin'[t] # NULL
             PROVE  /\ tokens'[t].user = grants'[origin'[t]].user
                    /\ tokens'[t].client = grants'[origin'[t]].client
                    /\ tokens'[t].scope \subseteq grants'[origin'[t]].scope
  BY DEF WithinGrant
<1>2. CASE tokens[t] # NULL /\ origin'[t] = origin[t]
  <2>1. origin[t] \in Code /\ grants[origin[t]] # NULL
    BY <1>2 DEF Inv, TypeOK, RowsOK
  <2>2. Weaker(tokens[t], tokens'[t]) /\ Weaker(grants[origin[t]], grants'[origin[t]])
    BY <1>1, <1>2, <2>1 DEF Evolves
  <2>3. QED
    BY <1>2, <2>2 DEF Weaker, Inv, WithinGrant
<1>3. ASSUME NEW p \in Worker, Creates(p, t)
      PROVE  /\ tokens'[t].user = grants'[origin'[t]].user
             /\ tokens'[t].client = grants'[origin'[t]].client
             /\ tokens'[t].scope \subseteq grants'[origin'[t]].scope
  <2>1. CASE req[p].old = NULL
    BY <1>3, <2>1 DEF Creates, RequestOK
  <2>2. CASE req[p].old # NULL
    BY <1>3, <2>2 DEF Creates, RequestOK, Request, Inv, WithinGrant
  <2>3. QED
    BY <2>1, <2>2
<1>4. CASE \E p \in Worker, u \in Token : CreateAccessToken(p, u)
  <2>1. PICK p \in Worker, u \in Token : Creates(p, u)
    BY <1>4, Creation
  <2>2. u # t => tokens[t] # NULL /\ origin'[t] = origin[t]
    BY <2>1 DEF Creates
  <2>3. QED
    BY <1>2, <1>3, <2>1, <2>2
<1>5. QED
  BY <1>2, <1>4, NoCreation

\* Every step leaves refreshed tokens dead.
LEMMA OldIsInvalidStep ==
    ASSUME Inv, [Next]_vars
    PROVE  OldIsInvalid'
<1>1. Evolves
  BY EvolveStep
<1> DEFINE Dead(o) == /\ ~(tokens'[o] # NULL /\ tokens'[o].live)
                      /\ refresh'[o] = "expired"
<1>2. ASSUME NEW o \in Token, tokens[o] # NULL, ~tokens[o].live, refresh[o] = "expired"
      PROVE  Dead(o)
  BY <1>1, <1>2 DEF Evolves, Weaker
<1>3. ASSUME NEW t \in Token, parent[t] # NULL
      PROVE  Dead(parent[t])
  <2>1. /\ parent[t] \in Token /\ tokens[parent[t]] # NULL
        /\ ~tokens[parent[t]].live /\ refresh[parent[t]] = "expired"
    BY <1>3 DEF Inv, TypeOK, RowsOK, OldIsInvalid, Accepted
  <2>2. QED
    BY <1>2, <2>1
<1>4. CASE \E p \in Worker, t \in Token : CreateAccessToken(p, t)
  <2>1. PICK p \in Worker, t \in Token : Creates(p, t)
    BY <1>4, Creation
  <2>2. parent'[t] # NULL => Dead(parent'[t])
    <3>1. parent'[t] # NULL =>
            /\ parent'[t] \in Token /\ tokens[parent'[t]] # NULL
            /\ ~tokens[parent'[t]].live /\ refresh[parent'[t]] = "expired"
      BY <2>1 DEF Creates, RequestOK, Request
    <3>2. QED
      BY <1>2, <3>1
  <2>3. \A u \in Token : u # t => parent'[u] = parent[u]
    BY <2>1 DEF Creates
  <2>4. QED
    BY <1>3, <2>2, <2>3 DEF OldIsInvalid, Accepted
<1>5. CASE ~ \E p \in Worker, t \in Token : CreateAccessToken(p, t)
  BY <1>3, <1>5, NoCreation DEF OldIsInvalid, Accepted
<1>6. QED
  BY <1>4, <1>5

\* Every step leaves answered codes spent.
LEMMA AnsweredIsSpentStep ==
    ASSUME Inv, [Next]_vars
    PROVE  AnsweredIsSpent'
<1>1. Evolves
  BY EvolveStep
<1>2. ASSUME NEW g \in Code, grants[g] # NULL, ~grants[g].live
      PROVE  grants'[g] # NULL /\ ~grants'[g].live
  BY <1>1, <1>2 DEF Evolves, Weaker
<1>3. ASSUME NEW d \in given', d[1] # NULL
      PROVE  d[1] \in Code /\ grants[d[1]] # NULL /\ ~grants[d[1]].live
  <2>1. CASE d \in given
    BY <1>3, <2>1 DEF Inv, TypeOK, AnsweredIsSpent
  <2>2. CASE d \notin given
    <3>1. PICK p \in Worker : Answer(p)
      BY <2>2, <1>3 DEF Next, Environment, Start, Step, Crash, vars, CodeLapses, TokenLapses,
         AuthorizationCode, Login, Refresh, ExpireRefresh, ExpireAccess, GetAccessToken,
         Authorize, CreateAccessToken, CreateRefreshToken, InvalidateGrant
    <3>2. d = <<req[p].grant, req[p].at>>
      BY <1>3, <2>2, <3>1 DEF Answer
    <3>3. /\ req[p] \in Request /\ req[p].pc = "answer"
          /\ RequestOK(grants, tokens, refresh, req[p])
      BY <3>1 DEF Answer, At, Inv, TypeOK
    <3>4. QED
      BY <1>3, <3>2, <3>3 DEF RequestOK, Request
  <2>3. QED
    BY <2>1, <2>2
<1>4. QED
  BY <1>2, <1>3 DEF AnsweredIsSpent

\* No step makes two requests create the refresh token of one token.
LEMMA OneCreatesStep ==
    ASSUME Inv, [Next]_vars
    PROVE  OneCreates'
<1>1. CASE \E p \in Worker, t \in Token : CreateAccessToken(p, t)
  <2>1. PICK p \in Worker, t \in Token : Creates(p, t)
    BY <1>1, Creation
  <2>2. ASSUME NEW q \in Worker, q # p, req'[q].pc = "createRefresh"
        PROVE  req'[q].at # t
    <3>1. req'[q] = req[q] /\ tokens[t] = NULL
      BY <2>1, <2>2 DEF Creates
    <3>2. QED
      BY <2>2, <3>1 DEF Inv, RequestOK
  <2>3. QED
    BY <2>1, <2>2 DEF Creates, OneCreates, At, Inv
<1>2. CASE ~ \E p \in Worker, t \in Token : CreateAccessToken(p, t)
  BY <1>2, NoCreation DEF OneCreates, At, Inv
<1>3. QED
  BY <1>1, <1>2

(***************************************************************************)
(* The theorems                                                            *)
(***************************************************************************)
LEMMA InitInv == Init => Inv
<1> SUFFICES ASSUME Init PROVE Inv
  OBVIOUS
<1>1. TypeOK
  BY IdleType DEF Init, TypeOK
<1>2. RowsOK /\ WithinGrant /\ OldIsInvalid /\ AnsweredIsSpent
  BY DEF Init, RowsOK, WithinGrant, OldIsInvalid, AnsweredIsSpent
<1>3. OneCreates /\ \A p \in Worker : RequestOK(grants, tokens, refresh, req[p])
  BY IdleOK DEF Init, OneCreates, At, Idle
<1>4. QED
  BY <1>1, <1>2, <1>3 DEF Inv

\* The invariant is inductive.
LEMMA InvStep == Inv /\ [Next]_vars => Inv'
BY TypeStep, RowsStep, WithinGrantStep, OldIsInvalidStep, AnsweredIsSpentStep, OneCreatesStep,
   RequestsStep DEF Inv

\* The invariant, in every state of every behaviour of provider/.
THEOREM Inductive == Spec => []Inv
BY InitInv, InvStep, PTL DEF Spec

\* The tables and the requests in hand keep their types, whatever the numbers
\* of codes, tokens and workers and whether tokens are shared or not.
THEOREM TypeCorrect == Spec => []TypeOK
<1>1. Inv => TypeOK
  BY DEF Inv
<1>2. QED
  BY <1>1, Inductive, PTL

\* A token that descends from a code, by any number of refreshes, stays within
\* what its user allowed: his own account, that client, that scope.
THEOREM StaysWithinGrant == Spec => []WithinGrant
<1>1. Inv => WithinGrant
  BY DEF Inv
<1>2. QED
  BY <1>1, Inductive, PTL

\* Once a refreshing has made a new token, neither the old access token nor its
\* refresh token is ever accepted again, by whichever worker and after any crash.
THEOREM OldAlwaysInvalid == Spec => []OldIsInvalid
<1>1. Inv => OldIsInvalid
  BY DEF Inv
<1>2. QED
  BY <1>1, Inductive, PTL

\* A code that was answered with a token redeems nothing more, however many
\* workers had read it before.
THEOREM AnsweredAlwaysSpent == Spec => []AnsweredIsSpent
<1>1. Inv => AnsweredIsSpent
  BY DEF Inv
<1>2. QED
  BY <1>1, Inductive, PTL

\* Neither a token that was refreshed nor a code that was answered is ever
\* accepted again, whichever saves race and whichever requests break off.
THEOREM SpentStaysDead == Spec => []SpentIsDead
<1>1. Inv => SpentIsDead
  BY DEF Inv, SpentIsDead
<1>2. QED
  BY <1>1, Inductive, PTL

(***************************************************************************)
(* One live token for each code, while requests do not overlap.            *)
(*                                                                         *)
(* Any request may break off, so a code may have made tokens that were     *)
(* never answered, and be redeemed again.  What keeps the promise differs  *)
(* with SINGLE_ACCESS_TOKEN: with it a token is made for a code only while *)
(* the code has none, and one is answered again only while it is the only  *)
(* one; without it a code one of whose tokens was answered is spent.  A    *)
(* token that was refreshed may have lapsed by then, so the invariant      *)
(* counts the refresh token too: of the tokens answered, one at most is    *)
(* alive, by itself or by its refresh token.                               *)
(***************************************************************************)

\* the tokens that were answered
Handed == {t \in Token : \E d \in given : d[2] = t}

\* accepted, or good for another one
Alive(t) == tokens[t].live \/ refresh[t] = "fresh"

\* what was answered is in the tables
HandedKnown == \A t \in Handed : tokens[t] # NULL /\ refresh[t] # "none"

\* a descendant of a code is exactly as its user authorized it
Exact ==
    \A t \in Token : origin[t] # NULL =>
        /\ tokens[t] # NULL
        /\ tokens[t].user = grants[origin[t]].user
        /\ tokens[t].client = grants[origin[t]].client
        /\ tokens[t].scope = grants[origin[t]].scope

\* of the tokens answered for the code of o, none is alive but t
OnlyAlive(o, t) ==
    \A u \in Handed : origin[u] # NULL /\ origin[u] = origin[o] /\ Alive(u) => u = t

OneAlive == \A t \in Handed : Alive(t) => OnlyAlive(t, t)

\* without SINGLE_ACCESS_TOKEN, a code with a token answered is spent
AnsweredOnce ==
    ~SINGLE_ACCESS_TOKEN =>
        \A t \in Handed : origin[t] # NULL => ~grants[origin[t]].live

\* what the request in hand knows of the tokens answered before it
Hand(p) ==
    LET r == req[p]
    IN  /\ r.pc = "get" => SINGLE_ACCESS_TOKEN /\ r.old = NULL
        /\ r.old # NULL => r.old \in Handed
        /\ r.pc = "expireRefresh" => refresh[r.old] = "fresh"
        /\ r.pc \in {"expireAccess", "create"} /\ r.old # NULL => OnlyAlive(r.old, r.old)
        /\ r.pc = "create" /\ r.grant # NULL => \A t \in Handed : origin[t] # r.grant
        /\ r.pc \in {"createRefresh", "invalidate", "answer"} =>
             /\ OnlyAlive(r.at, r.at)
             /\ ~SINGLE_ACCESS_TOKEN /\ origin[r.at] # NULL =>
                  \/ r.grant = origin[r.at]
                  \/ r.old # NULL /\ origin[r.old] = origin[r.at]

AloneInv ==
    /\ Inv /\ ~Overlap
    /\ HandedKnown /\ Exact /\ OneAlive /\ AnsweredOnce
    /\ \A p \in Worker : Hand(p)

(***************************************************************************)
(* The tables and what was answered                                        *)
(***************************************************************************)

\* A row keeps the code it descends from.
LEMMA OriginStays ==
    ASSUME Inv, [Next]_vars, NEW t \in Token, tokens[t] # NULL
    PROVE  origin'[t] = origin[t]
<1>1. CASE \E p \in Worker, u \in Token : CreateAccessToken(p, u)
  <2>1. PICK p \in Worker, u \in Token : Creates(p, u)
    BY <1>1, Creation
  <2> QED BY <2>1 DEF Creates
<1> QED BY <1>1, NoCreation

\* Only Answer hands out a token.
LEMMA HandedStep ==
    ASSUME Inv, [Next]_vars
    PROVE  \/ given' = given
           \/ \E p \in Worker : /\ Answer(p) /\ refresh[req[p].at] # "none"
                                /\ req[p].at \in Token
                                /\ Handed' = Handed \cup {req[p].at}
<1>1. ASSUME NEW p \in Worker, Answer(p), given' # given
      PROVE  /\ refresh[req[p].at] # "none" /\ req[p].at \in Token
             /\ Handed' = Handed \cup {req[p].at}
  <2>1. /\ refresh[req[p].at] # "none" /\ req[p].at \in Token
        /\ given' = given \cup {<<req[p].grant, req[p].at>>}
    BY <1>1 DEF Answer, At, Inv, RequestOK, TypeOK, Request
  <2>2. \A d : d \in given' <=> d \in given \/ d = <<req[p].grant, req[p].at>>
    BY <2>1
  <2>3. <<req[p].grant, req[p].at>>[2] = req[p].at OBVIOUS
  <2> QED BY <2>1, <2>2, <2>3 DEF Handed
<1>2. given' = given \/ \E p \in Worker : Answer(p)
  BY ZenonT(30)
     DEF Next, Environment, Start, Step, Crash, vars, CodeLapses, TokenLapses, Authorize,
         AuthorizationCode, Login, Refresh, ExpireRefresh, ExpireAccess, GetAccessToken,
         CreateAccessToken, CreateRefreshToken, InvalidateGrant
<1> QED BY <1>1, <1>2

\* A token that was answered does not come back to life.
LEMMA NoRevival ==
    ASSUME Inv, Evolves, HandedKnown, NEW t \in Handed, Alive(t)'
    PROVE  Alive(t)
<1>1. t \in Token /\ tokens[t] # NULL /\ refresh[t] \in {"fresh", "expired"}
  BY DEF Handed, HandedKnown, Inv, TypeOK
<1>2. Weaker(tokens[t], tokens'[t]) /\ (refresh[t] = "expired" => refresh'[t] = "expired")
  BY <1>1 DEF Evolves
<1> QED BY <1>1, <1>2 DEF Alive, Weaker

\* So what is the only one alive stays the only one, while nothing is answered.
LEMMA OnlyAliveStays ==
    ASSUME Inv, [Next]_vars, HandedKnown, Handed' = Handed, NEW o \in Token, NEW t,
           tokens[o] # NULL, OnlyAlive(o, t)
    PROVE  OnlyAlive(o, t)'
<1>1. Evolves /\ origin'[o] = origin[o]
  BY EvolveStep, OriginStays
<1>2. ASSUME NEW u \in Handed, Alive(u)', origin'[u] # NULL, origin'[u] = origin[o]
      PROVE  u = t
  <2>1. u \in Token /\ tokens[u] # NULL
    BY DEF Handed, HandedKnown
  <2>2. Alive(u) /\ origin'[u] = origin[u]
    BY <1>1, <1>2, <2>1, NoRevival, OriginStays
  <2> QED BY <1>2, <2>2 DEF OnlyAlive
<1> QED BY <1>1, <1>2 DEF OnlyAlive

\* What is answered has a row and a refresh token.
LEMMA HandedKnownStep ==
    ASSUME Inv, [Next]_vars, HandedKnown
    PROVE  HandedKnown'
<1>1. ASSUME NEW t \in Handed' PROVE t \in Token /\ tokens[t] # NULL /\ refresh[t] # "none"
  BY HandedStep DEF HandedKnown, Handed, Inv, RowsOK
<1>2. Evolves BY EvolveStep
<1> QED BY <1>1, <1>2 DEF HandedKnown, Evolves, Weaker

\* A row has exactly the user, client and scope of its code.
LEMMA ExactStep ==
    ASSUME Inv, [Next]_vars, Exact
    PROVE  Exact'
<1> DEFINE Fits(t) == /\ tokens'[t] # NULL
                      /\ tokens'[t].user = grants'[origin'[t]].user
                      /\ tokens'[t].client = grants'[origin'[t]].client
                      /\ tokens'[t].scope = grants'[origin'[t]].scope
<1>1. Evolves BY EvolveStep
<1>2. ASSUME NEW t \in Token, tokens[t] # NULL, origin'[t] # NULL PROVE Fits(t)
  <2>1. origin'[t] = origin[t] BY <1>2, OriginStays
  <2>2. origin[t] \in Code /\ grants[origin[t]] # NULL
    BY <1>2, <2>1 DEF Inv, TypeOK, RowsOK
  <2>3. Weaker(tokens[t], tokens'[t]) /\ Weaker(grants[origin[t]], grants'[origin[t]])
    BY <1>1, <1>2, <2>2 DEF Evolves
  <2> QED BY <1>2, <2>1, <2>3 DEF Weaker, Exact
<1>3. ASSUME NEW p \in Worker, NEW t \in Token, Creates(p, t), origin'[t] # NULL PROVE Fits(t)
  <2>1. tokens'[t] # NULL
    <3>1. tokens'[t] \in Row
      BY <1>3 DEF Creates, Row, RequestOK, Request
    <3> QED BY <3>1, NullAssumption
  <2>4. /\ tokens'[t].user = req[p].user /\ tokens'[t].client = req[p].client
        /\ tokens'[t].scope = req[p].scope /\ grants' = grants
        /\ RequestOK(grants, tokens, refresh, req[p]) /\ req[p] \in Request
    BY <1>3 DEF Creates
  <2>2. CASE req[p].old = NULL
    <3>1. origin'[t] = req[p].grant BY <1>3, <2>2 DEF Creates
    <3> QED BY <1>3, <2>1, <2>2, <2>4, <3>1 DEF RequestOK
  <2>3. CASE req[p].old # NULL
    <3>1. origin'[t] = origin[req[p].old] /\ req[p].old \in Token
      BY <1>3, <2>3, <2>4 DEF Creates, Request
    <3> QED BY <1>3, <2>1, <2>3, <2>4, <3>1 DEF RequestOK, Exact
  <2> QED BY <2>2, <2>3
<1>4. ASSUME NEW t \in Token, tokens[t] = NULL, origin'[t] # NULL PROVE Fits(t)
  <2>1. CASE \E p \in Worker, u \in Token : CreateAccessToken(p, u)
    <3>1. PICK p \in Worker, u \in Token : Creates(p, u)
      BY <2>1, Creation
    <3>2. u = t
      BY <1>4, <3>1 DEF Creates, Exact
    <3> QED BY <1>3, <1>4, <3>1, <3>2
  <2> QED BY <1>4, <2>1, NoCreation DEF Exact
<1> QED BY <1>2, <1>4 DEF Exact

\* Of the tokens answered for one code, one is alive at most, and nothing else is.
LEMMA OneAliveStep ==
    ASSUME Inv, [Next]_vars, HandedKnown, OneAlive, \A p \in Worker : Hand(p)
    PROVE  OneAlive'
<1>1. CASE given' = given
  <2>1. Handed' = Handed /\ Evolves BY <1>1, EvolveStep DEF Handed
  <2>2. ASSUME NEW t \in Handed, Alive(t)' PROVE OnlyAlive(t, t)'
    <3>1. t \in Token /\ tokens[t] # NULL /\ OnlyAlive(t, t)
      BY <2>1, <2>2, NoRevival DEF OneAlive, Handed, HandedKnown
    <3> QED BY <2>1, <3>1, OnlyAliveStays
  <2> QED BY <2>1, <2>2 DEF OneAlive
<1>2. ASSUME NEW p \in Worker, Answer(p), Handed' = Handed \cup {req[p].at}
      PROVE  OneAlive'
  <2>1. OnlyAlive(req[p].at, req[p].at)
    BY <1>2 DEF Answer, At, Hand
  <2>2. UNCHANGED <<tokens, refresh, origin>>
    BY <1>2 DEF Answer
  <2>3. \A t \in Handed' : Alive(t) => OnlyAlive(t, t) /\ \A u \in Handed' :
            origin[u] # NULL /\ origin[u] = origin[t] /\ Alive(u) => u = t
    BY <1>2, <2>1 DEF OneAlive, OnlyAlive
  <2> QED BY <2>2, <2>3 DEF OneAlive, OnlyAlive, Alive
<1> QED BY <1>1, <1>2, HandedStep

\* Without SINGLE_ACCESS_TOKEN, a code one of whose tokens was answered is spent.
LEMMA AnsweredOnceStep ==
    ASSUME Inv, [Next]_vars, HandedKnown, AnsweredOnce, \A p \in Worker : Hand(p)
    PROVE  AnsweredOnce'
<1> SUFFICES ASSUME ~SINGLE_ACCESS_TOKEN, NEW t \in Handed', origin'[t] # NULL
             PROVE  ~grants'[origin'[t]].live
  BY DEF AnsweredOnce
<1>1. t \in Token /\ tokens[t] # NULL /\ (origin[t] # NULL => ~grants[origin[t]].live)
  <2>1. CASE t \in Handed BY <2>1 DEF AnsweredOnce, Handed, HandedKnown
  <2>2. ASSUME NEW p \in Worker, Answer(p), refresh[req[p].at] # "none", t = req[p].at
        PROVE  t \in Token /\ tokens[t] # NULL /\ (origin[t] # NULL => ~grants[origin[t]].live)
    <3>1. /\ req[p] \in Request /\ req[p].pc = "answer"
          /\ RequestOK(grants, tokens, refresh, req[p]) /\ Hand(p)
      BY <2>2 DEF Answer, At, Inv, TypeOK
    <3> QED BY <2>2, <3>1 DEF RequestOK, Request, Hand, AnsweredOnce
  <2> QED BY <2>1, <2>2, HandedStep DEF Handed
<1>2. origin'[t] = origin[t] /\ grants[origin[t]] # NULL /\ origin[t] \in Code
  BY <1>1, OriginStays DEF Inv, RowsOK, TypeOK
<1>3. Weaker(grants[origin[t]], grants'[origin[t]])
  BY <1>2, EvolveStep DEF Evolves
<1> QED BY <1>1, <1>2, <1>3 DEF Weaker

(***************************************************************************)
(* The request in hand                                                     *)
(***************************************************************************)
\* An idle worker has nothing in hand.
LEMMA HandIdle ==
    ASSUME NEW p \in Worker, req'[p] = Idle
    PROVE  Hand(p)'
BY DEF Hand, Idle

\* What a request knows stays true while it waits and nothing else is in hand.
LEMMA HandStays ==
    ASSUME Inv, [Next]_vars, HandedKnown, NEW p \in Worker, req'[p] = req[p], Hand(p),
           given' = given, refresh' = refresh
    PROVE  Hand(p)'
<1>1. /\ req[p] \in Request /\ RequestOK(grants, tokens, refresh, req[p])
      /\ Handed' = Handed
  BY DEF Inv, TypeOK, Handed
<1>2. ASSUME NEW t \in Handed PROVE origin'[t] = origin[t]
  BY OriginStays DEF Handed, HandedKnown
<1>3. req[p].old # NULL =>
          req[p].old \in Token /\ tokens[req[p].old] # NULL /\ origin'[req[p].old] = origin[req[p].old]
  BY <1>1, OriginStays DEF RequestOK, Request
<1>4. req[p].pc \in {"createRefresh", "invalidate", "answer"} =>
          req[p].at \in Token /\ tokens[req[p].at] # NULL /\ origin'[req[p].at] = origin[req[p].at]
  BY <1>1, OriginStays DEF RequestOK, Request
<1>5. req[p].pc \in {"expireAccess", "create"} /\ req[p].old # NULL =>
          OnlyAlive(req[p].old, req[p].old)'
  <2>1. SUFFICES ASSUME req[p].pc \in {"expireAccess", "create"}, req[p].old # NULL
                 PROVE  OnlyAlive(req[p].old, req[p].old)'
    OBVIOUS
  <2>2. OnlyAlive(req[p].old, req[p].old) BY <2>1 DEF Hand
  <2>3. ASSUME NEW o, o = req[p].old PROVE OnlyAlive(o, o)'
    BY <1>1, <1>3, <2>1, <2>2, <2>3, OnlyAliveStays
  <2> QED BY <2>3 DEF OnlyAlive
<1>6. req[p].pc \in {"createRefresh", "invalidate", "answer"} =>
          OnlyAlive(req[p].at, req[p].at)'
  <2>1. SUFFICES ASSUME req[p].pc \in {"createRefresh", "invalidate", "answer"}
                 PROVE  OnlyAlive(req[p].at, req[p].at)'
    OBVIOUS
  <2>2. OnlyAlive(req[p].at, req[p].at) BY <2>1 DEF Hand
  <2>3. ASSUME NEW o, o = req[p].at PROVE OnlyAlive(o, o)'
    BY <1>1, <1>4, <2>1, <2>2, <2>3, OnlyAliveStays
  <2> QED BY <2>3 DEF OnlyAlive
<1> QED BY <1>1, <1>2, <1>3, <1>4, <1>5, <1>6 DEF Hand

\* A request that begins knows of no token answered that is alive for its code.
LEMMA HandBegins ==
    ASSUME Inv, HandedKnown, AnsweredOnce, NEW p \in Worker, Start(p)
    PROVE  Hand(p)'
<1> USE OAuthAssumption
<1>1. /\ given' = given /\ refresh' = refresh /\ origin' = origin /\ Handed' = Handed
      /\ SINGLE_ACCESS_TOKEN => FirstStep = "get"
      /\ ~SINGLE_ACCESS_TOKEN => FirstStep = "create"
  BY DEF Start, AuthorizationCode, Login, Refresh, FirstStep, Handed
<1>2. ASSUME NEW g \in Code, NEW c \in Client, NEW s \in Scope, AuthorizationCode(p, g, c, s)
      PROVE  Hand(p)'
  <2>1. req'[p].pc = FirstStep /\ req'[p].grant = g /\ req'[p].old = NULL
    BY <1>2 DEF AuthorizationCode, Become, Idle, Inv, TypeOK
  <2>2. ~SINGLE_ACCESS_TOKEN => \A t \in Handed : origin[t] # g
    BY <1>2 DEF AuthorizationCode, Redeemable, AnsweredOnce
  <2> QED BY <1>1, <2>1, <2>2 DEF Hand
<1>3. ASSUME NEW u \in User, NEW c \in Client, NEW s \in Scope, Login(p, u, c, s)
      PROVE  Hand(p)'
  <2>1. req'[p].pc = FirstStep /\ req'[p].grant = NULL /\ req'[p].old = NULL
    BY <1>3 DEF Login, Become, Idle, Inv, TypeOK
  <2> QED BY <1>1, <2>1 DEF Hand
<1>4. ASSUME NEW t \in Token, NEW c \in Client, NEW s \in Scope, Refresh(p, t, c, s)
      PROVE  Hand(p)'
  <2>1. req'[p].pc = "expireRefresh" /\ req'[p].grant = NULL /\ req'[p].old = t
    BY <1>4 DEF Refresh, Become, Idle, Inv, TypeOK
  <2>2. t \in Handed /\ refresh[t] = "fresh"
    BY <1>4 DEF Refresh, Holds, Handed
  <2> QED BY <1>1, <2>1, <2>2 DEF Hand
<1> QED BY <1>2, <1>3, <1>4 DEF Start

\* The token that get_access_token finds is the only one for its user, its
\* client and its scope, so the only one for its code.
LEMMA HandGets ==
    ASSUME Inv, HandedKnown, Exact, NEW p \in Worker, Hand(p), GetAccessToken(p)
    PROVE  Hand(p)'
<1> DEFINE r == req[p]
<1>1. /\ r \in Request /\ RequestOK(grants, tokens, refresh, r) /\ SINGLE_ACCESS_TOKEN
      /\ UNCHANGED <<given, refresh, tokens, grants, origin>> /\ Handed' = Handed
      /\ r.pc = "get" /\ r.old = NULL
  BY DEF GetAccessToken, At, Hand, Inv, TypeOK, Handed
<1>2. CASE Same(r) = {}
  <2>1. /\ req'[p].pc = "create" /\ req'[p].old = NULL /\ req'[p].grant = r.grant
    BY <1>1, <1>2 DEF GetAccessToken, Goto, Become, Inv, TypeOK, Request
  <2>2. ASSUME r.grant # NULL, NEW t \in Handed, origin[t] = r.grant PROVE FALSE
    <3>1. t \in Same(r)
      BY <1>1, <2>2 DEF Exact, RequestOK, Same, Handed
    <3> QED BY <3>1, <1>2
  <2> QED BY <1>1, <2>1, <2>2 DEF Hand
<1>3. CASE Same(r) # {} /\ Cardinality(Same(r)) > 1
  BY <1>3, HandIdle DEF GetAccessToken, Done, Become, Inv, TypeOK
<1>4. CASE Same(r) # {} /\ ~(Cardinality(Same(r)) > 1)
  <2>1. PICK t \in Same(r) : Become(p, [r EXCEPT !.at = t, !.pc = AfterToken(r)])
    BY <1>4 DEF GetAccessToken
  <2>2. /\ req'[p].at = t /\ req'[p].old = NULL /\ t \in Token
        /\ req'[p].pc \in {"answer", "invalidate"}
    BY <1>1, <2>1 DEF Become, AfterToken, Inv, TypeOK, Request, Same
  <2>3. ASSUME NEW u \in Same(r) PROVE u = t
    <3>1. IsFiniteSet(Same(r)) /\ Cardinality(Same(r)) \in Nat
      BY TokenAssumption, FS_Subset, FS_CardinalityType DEF Same
    <3>2. Cardinality(Same(r)) = 1
      BY <1>4, <3>1, FS_EmptySet
    <3> QED BY <2>3, <3>1, <3>2, FS_Singleton
  <2>4. ASSUME NEW u \in Handed, origin[u] # NULL, origin[u] = origin[t] PROVE u = t
    <3>1. u \in Same(r)
      BY <1>1, <2>1, <2>4 DEF Exact, Same, Handed
    <3> QED BY <3>1, <2>3
  <2>5. OnlyAlive(t, t)'
    BY <1>1, <2>4 DEF OnlyAlive
  <2> QED BY <1>1, <2>2, <2>5 DEF Hand, OnlyAlive
<1> QED BY <1>2, <1>3, <1>4

\* The token made is the only one alive for its code.
LEMMA HandCreates ==
    ASSUME Inv, [Next]_vars, HandedKnown, NEW p \in Worker, NEW t \in Token, Hand(p),
           CreateAccessToken(p, t)
    PROVE  Hand(p)'
<1> DEFINE r == req[p]
<1> USE OAuthAssumption
<1>1. /\ Creates(p, t) /\ r \in Request /\ RequestOK(grants, tokens, refresh, r)
      /\ Handed' = Handed /\ r.pc = "create"
  BY Creation DEF Creates, Handed
<1>2. /\ req'[p].pc = "createRefresh" /\ req'[p].at = t /\ req'[p].old = r.old
      /\ req'[p].grant = r.grant
  BY <1>1 DEF CreateAccessToken, Become, Inv, TypeOK, Request
<1>3. ASSUME NEW u \in Handed, origin'[u] # NULL, origin'[u] = origin'[t], Alive(u)'
      PROVE  FALSE
  <2>1. u \in Token /\ tokens[u] # NULL /\ u # t /\ origin'[u] = origin[u]
    BY <1>1, OriginStays DEF Handed, HandedKnown, Creates
  <2>2. Alive(u)
    BY <1>3, EvolveStep, NoRevival
  <2>3. CASE r.old = NULL
    BY <1>1, <1>3, <2>1, <2>3 DEF Creates, Hand
  <2>4. CASE r.old # NULL
    <3>1. origin[u] = origin[r.old] /\ ~tokens[r.old].live /\ refresh[r.old] = "expired"
      BY <1>1, <1>3, <2>1, <2>4 DEF Creates, RequestOK
    <3>2. u = r.old
      BY <1>1, <1>3, <2>1, <2>2, <2>4, <3>1 DEF Hand, OnlyAlive
    <3> QED BY <2>2, <3>1, <3>2 DEF Alive
  <2> QED BY <2>3, <2>4
<1>4. OnlyAlive(t, t)'
  BY <1>1, <1>3 DEF OnlyAlive
<1>5. origin'[t] # NULL => \/ r.grant = origin'[t]
                           \/ r.old # NULL /\ origin'[r.old] = origin'[t]
  BY <1>1 DEF Creates, Request, RequestOK
<1>6. r.old # NULL => r.old \in Handed'
  BY <1>1 DEF Hand
<1> QED BY <1>2, <1>4, <1>5, <1>6 DEF Hand, OnlyAlive

\* The steps that save a row of the token in hand, or answer it.
LEMMA HandSaves ==
    ASSUME Inv, [Next]_vars, HandedKnown, OneAlive, NEW p \in Worker, Hand(p),
           \/ ExpireRefresh(p) \/ ExpireAccess(p) \/ CreateRefreshToken(p) \/ InvalidateGrant(p)
    PROVE  Hand(p)'
<1> DEFINE r == req[p]
<1>1. /\ r \in Request /\ RequestOK(grants, tokens, refresh, r)
      /\ Handed' = Handed /\ origin' = origin
  BY DEF Inv, TypeOK, ExpireRefresh, ExpireAccess, CreateRefreshToken, InvalidateGrant, Handed
<1>2. ASSUME NEW label, Goto(p, label)
      PROVE  /\ req'[p].pc = label /\ req'[p].old = r.old /\ req'[p].grant = r.grant
             /\ req'[p].at = r.at
  BY <1>1, <1>2 DEF Goto, Become, Inv, TypeOK, Request
<1>3. CASE ExpireRefresh(p)
  <2>1. /\ req'[p].pc = "expireAccess" /\ req'[p].old = r.old /\ req'[p].grant = r.grant
        /\ r.old \in Handed /\ Alive(r.old) /\ tokens[r.old] # NULL
    BY <1>1, <1>2, <1>3 DEF ExpireRefresh, At, RequestOK, Hand, Alive
  <2>2. ASSUME NEW o \in Handed, o = r.old PROVE OnlyAlive(o, o)'
    BY <1>1, <2>1, <2>2, OnlyAliveStays DEF OneAlive, Handed
  <2>3. OnlyAlive(req[p].old, req[p].old)' BY <2>1, <2>2 DEF OnlyAlive
  <2> QED BY <1>1, <2>1, <2>3 DEF Hand
<1>4. CASE ExpireAccess(p)
  <2>1. /\ req'[p].pc = "create" /\ req'[p].old = r.old /\ req'[p].grant = r.grant
        /\ r.old \in Handed /\ r.old # NULL /\ tokens[r.old] # NULL /\ r.grant = NULL
        /\ OnlyAlive(r.old, r.old)
    BY <1>1, <1>2, <1>4 DEF ExpireAccess, At, RequestOK, Hand
  <2>2. ASSUME NEW o \in Handed, o = r.old PROVE OnlyAlive(o, o)'
    BY <1>1, <2>1, <2>2, OnlyAliveStays DEF Handed
  <2>3. OnlyAlive(req[p].old, req[p].old)' BY <2>1, <2>2 DEF OnlyAlive
  <2> QED BY <1>1, <2>1, <2>3 DEF Hand
<1>5. CASE CreateRefreshToken(p) \/ InvalidateGrant(p)
  <2>1. /\ req'[p].pc \in {"invalidate", "answer"} /\ req'[p].old = r.old
        /\ req'[p].grant = r.grant /\ req'[p].at = r.at
        /\ r.at \in Token /\ tokens[r.at] # NULL /\ OnlyAlive(r.at, r.at)
        /\ r.pc \in {"createRefresh", "invalidate"}
    BY <1>1, <1>2, <1>5
       DEF CreateRefreshToken, InvalidateGrant, At, AfterToken, RequestOK, Request, Hand
  <2>2. ASSUME NEW o \in Token, o = r.at PROVE OnlyAlive(o, o)'
    BY <1>1, <2>1, <2>2, OnlyAliveStays
  <2>3. OnlyAlive(req[p].at, req[p].at)' BY <2>1, <2>2 DEF OnlyAlive
  <2> QED BY <1>1, <2>1, <2>3 DEF Hand
<1> QED BY <1>3, <1>4, <1>5

\* Nothing else is in hand while a request is.
LEMMA Others ==
    ASSUME ~Overlap, ~Overlap', NEW p \in Worker, Inv, Start(p) \/ Step(p) \/ Crash(p),
           NEW q \in Worker, q # p, [Next]_vars
    PROVE  req'[q] = Idle
<1>1. ~At(p, "idle") \/ ~At(p, "idle")'
  <2>1. CASE Start(p)
    <3>1. ASSUME NEW r, Become(p, r), r.pc # "idle" PROVE ~At(p, "idle")'
      BY <3>1 DEF Become, At, Inv, TypeOK
    <3>2. FirstStep \in {"get", "create"} BY DEF FirstStep
    <3> QED BY <2>1, <3>1, <3>2 DEF Start, AuthorizationCode, Login, Refresh, Idle
  <2>2. CASE Step(p) \/ Crash(p)
    BY <2>2 DEF Step, Crash, ExpireRefresh, ExpireAccess, GetAccessToken, CreateAccessToken,
       CreateRefreshToken, InvalidateGrant, Answer, At
  <2> QED BY <2>1, <2>2
<1>2. req'[q] = req[q]
  BY DEF Start, Step, Crash, AuthorizationCode, Login, Refresh, ExpireRefresh,
     ExpireAccess, GetAccessToken, CreateAccessToken, CreateRefreshToken,
     InvalidateGrant, Answer, Become, Goto, Done, Inv, TypeOK
<1>3. req[p] # Idle \/ req'[p] # Idle
  BY <1>1 DEF At, Idle
<1> QED BY <1>2, <1>3 DEF Overlap

\* Every step leaves every worker with true knowledge of what it holds.
LEMMA HandStep ==
    ASSUME AloneInv, [Next]_vars, ~Overlap', NEW p \in Worker
    PROVE  Hand(p)'
<1>1. /\ Inv /\ ~Overlap /\ HandedKnown /\ Exact /\ OneAlive /\ AnsweredOnce /\ Hand(p)
  BY DEF AloneInv
<1>2. CASE UNCHANGED vars
  BY <1>1, <1>2, HandStays DEF vars
<1>3. CASE Environment
  <2>1. req' = req /\ given' = given /\ refresh' = refresh
    BY <1>3 DEF Environment, Authorize, CodeLapses, TokenLapses
  <2> QED BY <1>1, <2>1, HandStays
<1>4. CASE Done(p)
  BY <1>1, <1>4, HandIdle DEF Done, Become, Inv, TypeOK
<1>5. CASE Start(p) \/ Step(p) \/ Crash(p)
  BY <1>1, <1>4, <1>5, HandBegins, HandGets, HandCreates, HandSaves DEF Step, Answer, Crash
<1>6. ASSUME NEW q \in Worker, q # p, Start(q) \/ Step(q) \/ Crash(q) PROVE Hand(p)'
  BY <1>1, <1>6, Others, HandIdle
<1> QED BY <1>2, <1>3, <1>5, <1>6 DEF Next

(***************************************************************************)
(* The theorem                                                             *)
(***************************************************************************)
\* At the start nothing was answered.
LEMMA AloneInit == Init => AloneInv
<1> SUFFICES ASSUME Init PROVE AloneInv OBVIOUS
<1>1. Inv BY InitInv
<1>2. ~Overlap /\ \A t : t \notin Handed
  BY DEF Init, Overlap, Handed
<1>3. HandedKnown /\ Exact /\ OneAlive /\ AnsweredOnce
  BY <1>2 DEF Init, HandedKnown, Exact, OneAlive, AnsweredOnce
<1>4. ASSUME NEW p \in Worker PROVE Hand(p)
  BY DEF Init, Hand, Idle
<1> QED BY <1>1, <1>2, <1>3, <1>4 DEF AloneInv

\* The invariant is inductive while requests do not overlap.
LEMMA AloneStep ==
    ASSUME AloneInv, [Next]_vars, ~Overlap'
    PROVE  AloneInv'
BY InvStep, HandedKnownStep, ExactStep, OneAliveStep, AnsweredOnceStep, HandStep DEF AloneInv

\* Of the tokens answered for one code, one at most is ever accepted, while
\* requests do not overlap: for any numbers of codes, tokens and workers, with
\* SINGLE_ACCESS_TOKEN or without, and whichever requests break off.
THEOREM OneLiveTokenWhenAlone == RunSpec => []OneLiveTokenAlone
<1>1. RunInit => (alone => AloneInv)
  BY AloneInit DEF RunInit
<1>2. (alone => AloneInv) /\ [RunNext]_<<vars, alone>> => (alone => AloneInv)'
  <2>1. CASE RunNext
    BY <2>1, AloneStep DEF RunNext
  <2>2. ASSUME UNCHANGED <<vars, alone>>, alone, AloneInv PROVE AloneInv'
    BY <2>2, AloneStep DEF AloneInv, Overlap, vars
  <2> QED BY <2>1, <2>2
<1>3. (alone => AloneInv) => OneLiveTokenAlone
  <2>1. ASSUME OneAlive, Inv PROVE OneLiveToken
    <3>1. ASSUME NEW d \in given, NEW e \in given, origin[d[2]] # NULL,
                 origin[d[2]] = origin[e[2]], Accepted(d[2]), Accepted(e[2])
          PROVE  d[2] = e[2]
      <4>1. d[2] \in Handed /\ e[2] \in Handed
        BY <2>1 DEF Handed, Inv, TypeOK
      <4> QED BY <2>1, <3>1, <4>1 DEF OneAlive, OnlyAlive, Alive, Accepted
    <3> QED BY <3>1 DEF OneLiveToken
  <2> QED BY <2>1 DEF OneLiveTokenAlone, AloneInv
<1> QED BY <1>1, <1>2, <1>3, PTL DEF RunSpec
=============================================================================

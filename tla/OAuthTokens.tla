---------------------------- MODULE OAuthTokens ----------------------------
(***************************************************************************)
(* The OAuth2 provider's tables Grant, AccessToken and RefreshToken        *)
(* (provider/oauth2/models.py) and its token endpoint (provider/views.py,  *)
(* provider/oauth2/views.py), through which the mobile clients log in.     *)
(*                                                                         *)
(* Every create() and save() of the endpoint commits by itself, so a step  *)
(* is one of them, with the reads before it; a worker may die, or its      *)
(* handler raise, between two of them.  No row is ever deleted, and rows   *)
(* change only in the column expires (here: live) or expired.              *)
(*                                                                         *)
(* A code or a token is its random string (long_token), and a refresh      *)
(* token is known by the access token it is one-to-one with.  Clocks are   *)
(* abstracted: a code or an access token may lapse at any time.  A scope   *)
(* is the set of its bits, READ always among them (clean_scope).           *)
(***************************************************************************)
EXTENDS Integers, FiniteSets

CONSTANTS
    User, Client, Code, Token, Worker,
    NULL,
    SINGLE_ACCESS_TOKEN  \* constants.py: hand out one token again and again

ASSUME OAuthAssumption ==
    /\ NULL \notin User \cup Client \cup Code \cup Token
    /\ SINGLE_ACCESS_TOKEN \in BOOLEAN

VARIABLES
    grants,   \* table Grant, by code
    tokens,   \* table AccessToken, by token
    refresh,  \* table RefreshToken, by access token
    req,      \* the request each worker serves
    given,    \* history: the codes (or NULL) answered, with what token
    origin,   \* history: origin[t] is the code that t descends from, or NULL
    parent    \* history: parent[t] is the token whose refreshing made t, or NULL

vars == <<grants, tokens, refresh, req, given, origin, parent>>

(***************************************************************************)
(* Tables and requests                                                     *)
(***************************************************************************)
Bit == {"read", "write"}

Scope == {s \in SUBSET Bit : "read" \in s}

Row == [user : User, client : Client, scope : Scope, live : BOOLEAN]

ASSUME NullAssumption == NULL \notin Row

Label == {"idle", "get", "expireRefresh", "expireAccess", "create",
          "createRefresh", "invalidate", "answer"}

Request == [pc : Label, user : User \cup {NULL}, client : Client \cup {NULL},
            scope : Scope,
            grant : Code \cup {NULL},   \* the code being redeemed
            old : Token \cup {NULL},    \* the token being refreshed
            at : Token \cup {NULL}]     \* the token to answer with

Idle == [pc |-> "idle", user |-> NULL, client |-> NULL, scope |-> {"read"},
         grant |-> NULL, old |-> NULL, at |-> NULL]

TypeOK ==
    /\ grants \in [Code -> Row \cup {NULL}]
    /\ tokens \in [Token -> Row \cup {NULL}]
    /\ refresh \in [Token -> {"none", "fresh", "expired"}]
    /\ req \in [Worker -> Request]
    /\ given \in SUBSET ((Code \cup {NULL}) \X Token)
    /\ origin \in [Token -> Code \cup {NULL}]
    /\ parent \in [Token -> Token \cup {NULL}]

Init ==
    /\ grants = [g \in Code |-> NULL]
    /\ tokens = [t \in Token |-> NULL]
    /\ refresh = [t \in Token |-> "none"]
    /\ req = [p \in Worker |-> Idle]
    /\ given = {}
    /\ origin = [t \in Token |-> NULL]
    /\ parent = [t \in Token |-> NULL]

(***************************************************************************)
(* Queries                                                                 *)
(***************************************************************************)

\* Grant.objects.get(code=, client=, expires__gt=now())
Redeemable(g, c) == grants[g] # NULL /\ grants[g].client = c /\ grants[g].live

\* AccessToken.objects.get(token=, expires__gt=now())
Accepted(t) == tokens[t] # NULL /\ tokens[t].live

\* a client presents only refresh tokens that it was answered with
Holds(c, t) == tokens[t] # NULL /\ tokens[t].client = c /\ \E d \in given : d[2] = t

\* scope.check, for scopes that have at least READ
Check(wants, has) == wants \subseteq has

\* AccessToken.objects.get(user=, client=, scope=), lapsed tokens included
Same(r) == {t \in Token : /\ tokens[t] # NULL /\ tokens[t].user = r.user
                          /\ tokens[t].client = r.client /\ tokens[t].scope = r.scope}

(***************************************************************************)
(* Requests                                                                *)
(***************************************************************************)
At(p, label) == req[p].pc = label

Become(p, r) == req' = [req EXCEPT ![p] = r]

Goto(p, label) == Become(p, [req[p] EXCEPT !.pc = label])

Done(p) == Become(p, Idle)

FirstStep == IF SINGLE_ACCESS_TOKEN THEN "get" ELSE "create"

AfterToken(r) == IF r.grant = NULL THEN "answer" ELSE "invalidate"

\* Authorize.handle, save_authorization: the user lets a client have a code
Authorize(g, u, c, s) ==
    /\ grants[g] = NULL
    /\ grants' = [grants EXCEPT ![g] = [user |-> u, client |-> c, scope |-> s,
                                        live |-> TRUE]]
    /\ UNCHANGED <<tokens, refresh, req, given, origin, parent>>

AuthorizationCode(p, g, c, wants) ==
    /\ At(p, "idle")
    /\ Redeemable(g, c) /\ Check(wants, grants[g].scope)
    /\ Become(p, [Idle EXCEPT !.pc = FirstStep, !.user = grants[g].user, !.client = c,
                              !.scope = grants[g].scope, !.grant = g])
    /\ UNCHANGED <<grants, tokens, refresh, given, origin, parent>>

\* mutant: a login that found no user is not refused
LoginNobody(p, u, c, s) ==
    /\ At(p, "idle")
    /\ Become(p, [Idle EXCEPT !.pc = FirstStep, !.client = c, !.scope = s])
    /\ UNCHANGED <<grants, tokens, refresh, given, origin, parent>>

\* the password and social_oauth grants, once they know the user
Login(p, u, c, s) ==
    /\ At(p, "idle")
    /\ Become(p, [Idle EXCEPT !.pc = FirstStep, !.user = u, !.client = c, !.scope = s])
    /\ UNCHANGED <<grants, tokens, refresh, given, origin, parent>>

\* mutant: the new token gets the scope asked for, whatever the old one's
RefreshWanted(p, t, c, wants) ==
    /\ At(p, "idle")
    /\ Holds(c, t) /\ refresh[t] = "fresh"
    /\ Become(p, [Idle EXCEPT !.pc = "expireRefresh", !.user = tokens[t].user,
                              !.client = c, !.scope = wants, !.old = t])
    /\ UNCHANGED <<grants, tokens, refresh, given, origin, parent>>

Refresh(p, t, c, wants) ==
    /\ At(p, "idle")
    /\ Holds(c, t) /\ refresh[t] = "fresh" /\ Check(wants, tokens[t].scope)
    /\ Become(p, [Idle EXCEPT !.pc = "expireRefresh", !.user = tokens[t].user,
                              !.client = c, !.scope = tokens[t].scope, !.old = t])
    /\ UNCHANGED <<grants, tokens, refresh, given, origin, parent>>

\* mutant: only the access token is invalidated
ExpireRefreshNot(p) ==
    /\ At(p, "expireRefresh") /\ Goto(p, "expireAccess")
    /\ UNCHANGED <<grants, tokens, refresh, given, origin, parent>>

\* invalidate_refresh_token
ExpireRefresh(p) ==
    /\ At(p, "expireRefresh") /\ Goto(p, "expireAccess")
    /\ refresh' = [refresh EXCEPT ![req[p].old] = "expired"]
    /\ UNCHANGED <<grants, tokens, given, origin, parent>>

\* mutant: the old access token is left to lapse by itself
ExpireAccessNot(p) ==
    /\ At(p, "expireAccess") /\ Goto(p, "create")
    /\ UNCHANGED <<grants, tokens, refresh, given, origin, parent>>

\* invalidate_access_token
ExpireAccess(p) ==
    /\ At(p, "expireAccess") /\ Goto(p, "create")
    /\ tokens' = [tokens EXCEPT ![req[p].old].live = FALSE]
    /\ UNCHANGED <<grants, refresh, given, origin, parent>>

\* get_access_token: no row is an invitation to create one, and more than
\* one raises MultipleObjectsReturned, which nothing catches
GetAccessToken(p) ==
    LET same == Same(req[p])
    IN  /\ At(p, "get")
        /\ IF same = {} THEN Goto(p, "create")
           ELSE IF Cardinality(same) > 1 THEN Done(p)
           ELSE \E t \in same :
                   Become(p, [req[p] EXCEPT !.at = t, !.pc = AfterToken(req[p])])
        /\ UNCHANGED <<grants, tokens, refresh, given, origin, parent>>

CreateAccessToken(p, t) ==
    LET r == req[p]
    IN  /\ At(p, "create") /\ tokens[t] = NULL
        /\ tokens' = [tokens EXCEPT ![t] = [user |-> r.user, client |-> r.client,
                                            scope |-> r.scope, live |-> TRUE]]
        /\ origin' = [origin EXCEPT ![t] = IF r.old = NULL THEN r.grant ELSE origin[r.old]]
        /\ parent' = [parent EXCEPT ![t] = r.old]
        /\ Become(p, [r EXCEPT !.pc = "createRefresh", !.at = t])
        /\ UNCHANGED <<grants, refresh, given>>

CreateRefreshToken(p) ==
    /\ At(p, "createRefresh")
    /\ refresh' = [refresh EXCEPT ![req[p].at] = "fresh"]
    /\ Goto(p, AfterToken(req[p]))
    /\ UNCHANGED <<grants, tokens, given, origin, parent>>

\* mutant: a grant is left to lapse by itself
InvalidateGrantNot(p) ==
    /\ At(p, "invalidate") /\ Goto(p, "answer")
    /\ UNCHANGED <<grants, tokens, refresh, given, origin, parent>>

InvalidateGrant(p) ==
    /\ At(p, "invalidate") /\ Goto(p, "answer")
    /\ grants' = [grants EXCEPT ![req[p].grant].live = FALSE]
    /\ UNCHANGED <<tokens, refresh, given, origin, parent>>

\* access_token_response: DoesNotExist if the token has no refresh token (yet)
Answer(p) ==
    /\ At(p, "answer") /\ Done(p)
    /\ given' = IF refresh[req[p].at] = "none" THEN given
                ELSE given \cup {<<req[p].grant, req[p].at>>}
    /\ UNCHANGED <<grants, tokens, refresh, origin, parent>>

\* a worker dies or its handler raises: what it has saved stays
Crash(p) ==
    /\ ~At(p, "idle") /\ Done(p)
    /\ UNCHANGED <<grants, tokens, refresh, given, origin, parent>>

\* EXPIRE_CODE_DELTA is over
CodeLapses(g) ==
    /\ grants[g] # NULL /\ grants[g].live
    /\ grants' = [grants EXCEPT ![g].live = FALSE]
    /\ UNCHANGED <<tokens, refresh, req, given, origin, parent>>

\* EXPIRE_DELTA is over
TokenLapses(t) ==
    /\ Accepted(t)
    /\ tokens' = [tokens EXCEPT ![t].live = FALSE]
    /\ UNCHANGED <<grants, refresh, req, given, origin, parent>>

(***************************************************************************)
(* The specification                                                       *)
(***************************************************************************)
Start(p) ==
    \E c \in Client, s \in Scope :
        \/ \E g \in Code : AuthorizationCode(p, g, c, s)
        \/ \E u \in User : Login(p, u, c, s)
        \/ \E t \in Token : Refresh(p, t, c, s)

Step(p) ==
    \/ ExpireRefresh(p) \/ ExpireAccess(p)
    \/ GetAccessToken(p) \/ CreateRefreshToken(p)
    \/ \E t \in Token : CreateAccessToken(p, t)
    \/ InvalidateGrant(p) \/ Answer(p)

Environment ==
    \/ \E g \in Code, u \in User, c \in Client, s \in Scope : Authorize(g, u, c, s)
    \/ \E g \in Code : CodeLapses(g)
    \/ \E t \in Token : TokenLapses(t)

Next == Environment \/ \E p \in Worker : Start(p) \/ Step(p) \/ Crash(p)

Spec == Init /\ [][Next]_vars

(***************************************************************************)
(* Properties under any interleaving                                       *)
(***************************************************************************)

\* A token answered to a code acts for the user who authorized it, for the
\* client he authorized and within the scope he allowed, and so does every
\* token got by refreshing it, however many times (RefreshTokenGrantForm.clean:
\* "Make sure that the scope is less or equal to the previous scope!").
WithinGrant ==
    \A t \in Token : tokens[t] # NULL /\ origin[t] # NULL =>
        /\ tokens[t].user = grants[origin[t]].user
        /\ tokens[t].client = grants[origin[t]].client
        /\ tokens[t].scope \subseteq grants[origin[t]].scope

\* "When a new access token is created from a refresh token, the old one is
\* *always* invalidated", and so is the refresh token: whoever else was
\* refreshing it, and wherever the request broke off.
OldIsInvalid ==
    \A t \in Token : parent[t] # NULL =>
        /\ ~Accepted(parent[t])
        /\ refresh[parent[t]] = "expired"

\* A code that was answered with a token redeems nothing more
\* (test_fetching_access_token_multiple_times), and no stale save of a
\* concurrent redemption brings it back.
AnsweredIsSpent ==
    \A d \in given : d[1] # NULL => grants[d[1]] # NULL /\ ~grants[d[1]].live

\* What was handed out once is not handed out again: neither a token that was
\* refreshed nor a code that was answered comes back to life.
SpentIsDead == OldIsInvalid /\ AnsweredIsSpent

(***************************************************************************)
(* Properties of a single worker (the tests exercise this case)            *)
(***************************************************************************)

\* A user who authorized a client once has handed out one usable token: of
\* the tokens answered that descend from one code, one is accepted at most.
OneLiveToken ==
    \A d, e \in given :
        /\ origin[d[2]] # NULL /\ origin[d[2]] = origin[e[2]]
        /\ Accepted(d[2]) /\ Accepted(e[2])
        => d[2] = e[2]

(***************************************************************************)
(* What the comments of get_access_token say, refuted by a run             *)
(***************************************************************************)

\* "None found... make a new one!": with SINGLE_ACCESS_TOKEN, one token at
\* most exists for a user, a client and a scope, and is fetched ever after.
SingleToken ==
    \A t \in Token : tokens[t] # NULL => Same(tokens[t]) = {t}
=============================================================================

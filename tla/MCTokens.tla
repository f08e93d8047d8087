------------------------------ MODULE MCTokens ------------------------------
(***************************************************************************)
(* Tokens with requests that overlap, and with requests that do not: some  *)
(* promises are kept only by the latter.                                   *)
(***************************************************************************)
EXTENDS MCOAuthTokens

\* long_token makes strings of one length
ASSUME TokenAssumption == IsFiniteSet(Token)

VARIABLE alone   \* requests do not overlap in this behaviour

Overlap == \E p, q \in Worker : p # q /\ req[p] # Idle /\ req[q] # Idle

RunInit == alone \in BOOLEAN /\ Init
RunNext == Next /\ (alone => ~Overlap') /\ UNCHANGED alone
RunSpec == RunInit /\ [][RunNext]_<<vars, alone>>

\* While requests do not overlap, OneLiveToken: though any of them may break off.
OneLiveTokenAlone == alone => OneLiveToken
=============================================================================

--------------------------- MODULE MCOAuthTokens ---------------------------
(***************************************************************************)
(* Small instances of OAuthTokens.                                         *)
(***************************************************************************)
EXTENDS OAuthTokens, TLC

Symmetry == Permutations(User) \cup Permutations(Client) \cup Permutations(Code)
            \cup Permutations(Token) \cup Permutations(Worker)
=============================================================================

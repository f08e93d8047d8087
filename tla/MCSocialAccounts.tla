-------------------------- MODULE MCSocialAccounts --------------------------
(***************************************************************************)
(* Small instances of SocialAccounts.  Ann can authenticate as two weixin  *)
(* openids of one unionid and as two qq accounts; Bob as a weixin openid   *)
(* for which weixin reports no unionid.  Ann also has a user with a        *)
(* password.                                                               *)
(***************************************************************************)
EXTENDS SocialAccounts, TLC

CONSTANTS ann, bob, u1, u2, u3, wx1, wx2, qq1, qq2, wx3, unionA

MCprovider == [a \in Account |-> IF a \in {wx1, wx3} THEN "weixin"
                                 ELSE IF a = wx2 THEN "weixinapp" ELSE "qq"]
MCunion == [a \in Account |-> IF a \in {wx1, wx2} THEN unionA ELSE NULL]
MCholder == [a \in Account |-> IF a \in {wx3} THEN bob ELSE ann]
MCregistered == [u \in User |-> IF u = u3 THEN ann ELSE NULL]

Symmetry == Permutations(Worker) \cup Permutations({u1, u2})
=============================================================================

---------------------------- MODULE MCPoolList ----------------------------
(* Four servers; the table may lose three of them, and one may move. *)
EXTENDS PoolList, TLC

CONSTANTS s1, s2, s3, s4, ip1, ip2

Only(set, ip) == [s \in Server |-> IF s \in set THEN ip ELSE NoIp]

MCTable == { Only(Server, ip1), Only({s2, s3}, ip1), Only({s4}, ip2), Only({}, ip1) }
=============================================================================

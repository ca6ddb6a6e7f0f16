----------------------------- MODULE MCHumanIds -----------------------------
(* Two projects, the code of one continuing that of the other: PR and PR-X.  *)
EXTENDS HumanIds, TLC

CONSTANTS PR, PRX

PRFinds == PR :> {PR, PRX} @@ PRX :> {PRX}
PRRank == PR :> 1 @@ PRX :> 2

\* Files of two rows: both stored, or one of the two failing in its own way.
SmallFiles ==
    {<<"fine", k>> : k \in Kinds} \cup {<<k, "fine">> : k \in Kinds}
=============================================================================

-------------------------- MODULE MCCloudFunctions ---------------------------
(* Instance of CloudFunctions for TLC: "here" is near two lights, "there" is *)
(* where the second one stands, "far" is near none; the third light is       *)
(* always just too far away.                                                 *)
EXTENDS CloudFunctions, TLC

CONSTANTS l1, l2, l3, c1

MCDist == [p \in Pos |-> [l \in Light |-> IF p = "far" \/ l = l3 THEN 2
                                          ELSE IF p = "there" /\ l = l2 THEN 0 ELSE 1]]
At(c, p, s) == [car |-> c, pos |-> p, stamp |-> s]
MCMessages == {<<At(c1, "there", 1)>>, <<At(NoId, "far", 2), At(c1, "there", 3)>>}
MCLightWrites == {l1 :> Red @@ l2 :> 0, l1 :> Other @@ l2 :> Red}
===============================================================================

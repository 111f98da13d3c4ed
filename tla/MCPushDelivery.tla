--------------------------- MODULE MCPushDelivery ---------------------------
(* One user subscribed at two instances, with a tag at the first of them.  *)
EXTENDS PushDelivery
CONSTANTS s1, s2, u, c1, c2, tag
MCHome == [s \in Sessions |-> IF s = s1 THEN c1 ELSE c2]
MCOwner == [s \in Sessions |-> u]
MCTags == [s \in Sessions |-> IF s = s1 THEN {tag} ELSE {}]
MCAims == {[scope |-> All, wants |-> {}], [scope |-> All, wants |-> {tag}],
           [scope |-> c1, wants |-> {}]}
=============================================================================

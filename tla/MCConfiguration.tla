-------------------------- MODULE MCConfiguration --------------------------
(* Two pools, one of them on two networks; the table begins with the other *)
(* one, by its hexadecimal id.                                             *)
EXTENDS Configuration, TLC

CONSTANTS p1, p2, mainnet, preprod

Id(p, f) == [pool |-> p, form |-> f]
Source(p, f, n) == [pool |-> Id(p, f), network |-> n]

MCParams ==
  {Source(p1, "bech32", mainnet), Source(p1, "bech32", preprod),
   [pool |-> Blank, network |-> mainnet]}

Config(p) == [params |-> p, status |-> "active"]
MCFirst ==
  {[i \in 1..MaxIds |->
      IF i = 1 THEN Config(Source(p2, "hex", mainnet)) ELSE None]}

(* On one network the account is on its way from the second pool to the    *)
(* first, and may move on; on the other it delegates nowhere at first.     *)
MCAccounts0 ==
  {(mainnet :> [status |-> "registered", live |-> p1, next |-> p1,
                active |-> p2, stake |-> 1])
     @@ (preprod :> [status |-> "not_registered", live |-> NoPool,
                     next |-> NoPool, active |-> NoPool, stake |-> 1])}

Leaf(f, o, v) == [fact |-> f, op |-> o, value |-> v]
Rule(t, c) == [tier |-> t, when |-> c]
MCRules ==
  {<<Rule("gold", [Always EXCEPT !.all = {Leaf("any_active", "==", Truth(TRUE)),
                                          Leaf("total_active_stake", ">=", Amount(2))}]),
     Rule("base", Always)>>,
   <<Rule("bad", [Always EXCEPT !.leaf = Leaf("any_active", "is", Truth(TRUE))])>>}
============================================================================

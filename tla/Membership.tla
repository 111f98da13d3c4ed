----------------------------- MODULE Membership -----------------------------
(***************************************************************************)
(* What the issuer concludes from the chain, as pure operators: the state  *)
(* of a credential at one pool, the attestation of one configured pool,    *)
(* the union of the facts of all of them, and the tier the issuer's own    *)
(* rules draw from those facts.                                            *)
(*                                                                         *)
(* A configured pool id is written in hex or in bech32; both canonicalize  *)
(* to the pool.  An id of white space canonicalizes to NoPool.  The fact   *)
(* map is total here: state "" and amount 0 stand for a fact of a pool id  *)
(* that was never set, which adds nothing to the facts derived from all.   *)
(***************************************************************************)
EXTENDS Naturals, Sequences, FiniteSetsExt

CONSTANTS
  Pools,   \* stake pools
  NoPool   \* the empty pool id; no delegation, no active stake

ASSUME PoolsAssumption == NoPool \notin Pools

States == {"none", "pending", "active"}

(* A pool id as configured; Blank is one of white space only.              *)
Blank == [pool |-> NoPool, form |-> "blank"]
PoolIds == [pool : Pools, form : {"bech32", "hex"}] \cup {Blank}

Canonical(id) == id.pool

(* The part of a chain snapshot that a state is derived from.  A snapshot  *)
(* that an amount is read from has a stake as well.                        *)
Accounts == {"registered", "not_registered", "unknown"}
Snapshot ==
  [status : Accounts, live : Pools \cup {NoPool}, active : Pools \cup {NoPool}]

----------------------------------------------------------------------------
(* Mutant: live delegation alone makes a member.                           *)
DeriveState_LiveFirst(snap, id) ==
  LET want == Canonical(id) IN
  IF want = NoPool THEN "none"
  ELSE IF snap.status = "registered" /\ snap.live = want THEN "pending"
  ELSE IF snap.active = want THEN "active"
  ELSE "none"

(* Active stake dominates; a registered account that delegates to the pool *)
(* is entering; an id that canonicalizes to nothing matches nothing.       *)
DeriveState(snap, id) ==
  LET want == Canonical(id) IN
  IF want = NoPool THEN "none"
  ELSE IF snap.active = want THEN "active"
  ELSE IF snap.status = "registered" /\ snap.live = want THEN "pending"
  ELSE "none"

----------------------------------------------------------------------------
(* An attestor is a configured pool on a network.  Its facts are keyed by  *)
(* the pool id as configured, without the network.  The number of epochs   *)
(* is a fact that comes and goes with the amount of stake.                 *)
NoFacts == [id \in PoolIds |-> [state |-> "", stake |-> 0]]

Attest(a, snap) ==
  LET s == DeriveState(snap, a.pool)
  IN [pool  |-> a.pool,
      state |-> s,
      held  |-> s # "none",
      stake |-> IF s = "active" THEN snap.stake ELSE 0]

(* The facts an attestation sets replace those of the same name; an amount *)
(* it does not set stays what it was.                                      *)
Union(facts, att) ==
  [facts EXCEPT ![att.pool] =
     [state |-> att.state,
      stake |-> IF att.stake > 0 THEN att.stake ELSE @.stake]]

AnyActive(facts) == \E id \in PoolIds : facts[id].state = "active"

TotalActiveStake(facts) == MapThenSumSet(LAMBDA id : facts[id].stake, PoolIds)

RepresentativeState(held, facts) ==
  IF AnyActive(facts) THEN "active" ELSE IF held THEN "pending" ELSE "none"

----------------------------------------------------------------------------
(* The tier rules: an ordered list of a tier and a condition over facts.   *)
(* A condition is a conjunction, a disjunction, a negation (not has one    *)
(* member then) or the comparison of a fact; what is under one of the      *)
(* first three is a comparison or empty.  An empty condition always holds. *)
(* Facts and the values they are compared with are texts in the code: of a *)
(* truth value, of a number, or empty.                                     *)
Truth(b) == [truth |-> b]
Amount(n) == [amount |-> n]
NoText == [blank |-> TRUE]

Unset == [fact |-> "", op |-> "", value |-> NoText]
Always == [all |-> {}, any |-> {}, not |-> {}, leaf |-> Unset]

(* The facts an issuer can compare here; one of an unknown name is empty.  *)
FactValue(facts, name) ==
  CASE name = "any_active" -> Truth(AnyActive(facts))
    [] name = "total_active_stake" -> Amount(TotalActiveStake(facts))
    [] OTHER -> NoText

nz(have) == IF have = NoText THEN Amount(0) ELSE have

(* Any two texts are equal or not.  Only numbers have an order, an empty   *)
(* fact being zero, so that no ordering operator holds for a truth value.  *)
Compare(have, op, want) ==
  \/ op = "==" /\ have = want
  \/ op = "!=" /\ have # want
  \/ /\ "amount" \in DOMAIN nz(have) \cap DOMAIN want
     /\ LET n == nz(have).amount
        IN \/ op = ">=" /\ n >= want.amount
           \/ op = ">"  /\ n > want.amount
           \/ op = "<=" /\ n <= want.amount
           \/ op = "<"  /\ n < want.amount

LeafHolds(leaf, facts) ==
  leaf.fact # "" => Compare(FactValue(facts, leaf.fact), leaf.op, leaf.value)

(* The forms are tried in this order, and the first that is set decides.   *)
Holds(c, facts) ==
  IF c.all # {} THEN \A x \in c.all : LeafHolds(x, facts)
  ELSE IF c.any # {} THEN \E x \in c.any : LeafHolds(x, facts)
  ELSE IF c.not # {} THEN \A x \in c.not : ~LeafHolds(x, facts)
  ELSE LeafHolds(c.leaf, facts)

(* The tier of the first rule that matches, no tier without one.           *)
Tier(rules, facts) ==
  LET matching == {i \in DOMAIN rules : Holds(rules[i].when, facts)}
  IN IF matching = {} THEN "" ELSE rules[Min(matching)].tier

LeafValid(leaf) ==
  IF leaf.fact = "" THEN leaf.op = "" /\ leaf.value = NoText
  ELSE leaf.op \in {"==", "!=", ">=", ">", "<=", "<"}

(* At most one form is set, and every comparison is one.                   *)
Valid(c) ==
  /\ Cardinality({f \in {"all", "any", "not"} : c[f] # {}}
                 \cup {f \in {"leaf"} : c.leaf.fact # ""}) <= 1
  /\ \A x \in c.all \cup c.any \cup c.not \cup {c.leaf} : LeafValid(x)

Validate(rules) == \A i \in DOMAIN rules : rules[i].tier # "" /\ Valid(rules[i].when)
============================================================================

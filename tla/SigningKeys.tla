---------------------------- MODULE SigningKeys ----------------------------
(***************************************************************************)
(* The issuer's signing keys: rotation, retirement, signing and the JWKS.  *)
(*                                                                         *)
(* Each operation is a handful of autocommitted statements, one action     *)
(* each, that other requests interleave with.  Rotate lists the active     *)
(* keys, demotes them one by one and then inserts the new key; a request   *)
(* for tokens reads the newest active key and signs with it later; the     *)
(* JWKS is read in two statements.  A kid is its place in the order of     *)
(* created_at, which Rotate reads from the clock before anything else.     *)
(***************************************************************************)
EXTENDS Naturals

CONSTANTS
  MaxKeys,   \* bound on the rotations begun
  Handlers   \* request goroutines

ASSUME MaxKeysAssumption == MaxKeys \in Nat

Keys == 1..MaxKeys
NoKey == 0

VARIABLES
  status,  \* status of each IssuerKey row, "absent" when there is none
  begun,   \* rotations begun
  cut,     \* history: a rotation failed after its listing, none succeeded since
  pc,      \* where each handler is
  kid,     \* the key a handler creates, retires or signs with
  todo,    \* active keys that Rotate listed and has yet to demote
  seen,    \* keys the JWKS under construction has so far
  before,  \* history: keys that were published when its construction began
  live     \* keys that some unexpired token is signed with

local == <<pc, kid, todo>>
jwks == <<seen, before>>
vars == <<status, begun, cut, local, jwks, live>>

Statuses == {"absent", "active", "rotating", "retired"}
Places == {"idle", "list", "demote", "retire", "sign", "jwks", "served"}

TypeOK ==
  /\ status \in [Keys -> Statuses]
  /\ begun \in 0..MaxKeys
  /\ cut \in BOOLEAN
  /\ pc \in [Handlers -> Places]
  /\ kid \in [Handlers -> Keys \cup {NoKey}]
  /\ todo \in [Handlers -> SUBSET Keys]
  /\ seen \in [Handlers -> SUBSET Keys]
  /\ before \in [Handlers -> SUBSET Keys]
  /\ live \subseteq Keys

ByStatus(s) == {k \in Keys : status[k] = s}
Published == ByStatus("active") \cup ByStatus("rotating")

Goto(p, place) == pc' = [pc EXCEPT ![p] = place]

Begin(p, place, k) ==
  /\ pc[p] = "idle"
  /\ Goto(p, place)
  /\ kid' = [kid EXCEPT ![p] = k]

Answer(p) ==
  /\ Goto(p, "idle")
  /\ kid' = [kid EXCEPT ![p] = NoKey]
  /\ todo' = [todo EXCEPT ![p] = {}]

Init ==
  /\ status = [k \in Keys |-> "absent"]
  /\ begun = 0
  /\ cut = FALSE
  /\ pc = [p \in Handlers |-> "idle"]
  /\ kid = [p \in Handlers |-> NoKey]
  /\ todo = [p \in Handlers |-> {}]
  /\ seen = [p \in Handlers |-> {}]
  /\ before = [p \in Handlers |-> {}]
  /\ live = {}

----------------------------------------------------------------------------
(* Rotate: read the clock and generate the key pair ...                    *)
Rotate(p) ==
  /\ begun < MaxKeys
  /\ begun' = begun + 1
  /\ Begin(p, "list", begun + 1)
  /\ UNCHANGED <<status, cut, todo, jwks, live>>

(* ... list the active keys ...                                            *)
ListActive(p) ==
  /\ pc[p] = "list"
  /\ Goto(p, "demote")
  /\ todo' = [todo EXCEPT ![p] = ByStatus("active")]
  /\ UNCHANGED <<status, begun, cut, kid, jwks, live>>

(* Mutant: the prior key goes straight to retired, without an overlap.     *)
Demote_Retires(p, k) ==
  /\ pc[p] = "demote" /\ k \in todo[p]
  /\ status' = [status EXCEPT ![k] = "retired"]
  /\ todo' = [todo EXCEPT ![p] = @ \ {k}]
  /\ UNCHANGED <<begun, cut, pc, kid, jwks, live>>

(* ... demote each of them, whatever its status has become since ...       *)
Demote(p, k) ==
  /\ pc[p] = "demote" /\ k \in todo[p]
  /\ status' = [status EXCEPT ![k] = "rotating"]
  /\ todo' = [todo EXCEPT ![p] = @ \ {k}]
  /\ UNCHANGED <<begun, cut, pc, kid, jwks, live>>

(* ... and insert the new active key.                                      *)
Create(p) ==
  /\ pc[p] = "demote" /\ todo[p] = {}
  /\ status' = [status EXCEPT ![kid[p]] = "active"]
  /\ cut' = FALSE
  /\ Answer(p)
  /\ UNCHANGED <<begun, jwks, live>>

(* Mutant: any key without tokens may be retired, the active one included. *)
Retire_AnyStatus(p, k) ==
  /\ status[k] \in {"active", "rotating"}
  /\ k \notin live /\ \A q \in Handlers : pc[q] = "sign" => kid[q] # k
  /\ Begin(p, "retire", k)
  /\ UNCHANGED <<status, begun, cut, todo, jwks, live>>

(* Retire: the owner asks for it once every token of the key has expired,  *)
(* judging rightly; the status is read first and written after.            *)
Retire(p, k) ==
  /\ status[k] = "rotating"
  /\ k \notin live /\ \A q \in Handlers : pc[q] = "sign" => kid[q] # k
  /\ Begin(p, "retire", k)
  /\ UNCHANGED <<status, begun, cut, todo, jwks, live>>

RetireWrite(p) ==
  /\ pc[p] = "retire"
  /\ status' = [status EXCEPT ![kid[p]] = "retired"]
  /\ Answer(p)
  /\ UNCHANGED <<begun, cut, jwks, live>>

----------------------------------------------------------------------------
(* ActiveSigner: the newest active key; without one the request fails.     *)
ActiveSigner(p) ==
  /\ \E k \in ByStatus("active") :
       /\ \A j \in ByStatus("active") : j <= k
       /\ Begin(p, "sign", k)
  /\ UNCHANGED <<status, begun, cut, todo, jwks, live>>

(* The token is signed with the key read earlier.                          *)
Sign(p) ==
  /\ pc[p] = "sign"
  /\ live' = live \cup {kid[p]}
  /\ Answer(p)
  /\ UNCHANGED <<status, begun, cut, jwks>>

(* The last unexpired token of a key expires.                              *)
TokensExpire(k) ==
  /\ k \in live
  /\ live' = live \ {k}
  /\ UNCHANGED <<status, begun, cut, local, jwks>>

(* PublicJWKSKeys: the active keys, then the rotating ones.                *)
ReadJWKS(p, first) ==
  /\ Begin(p, "jwks", NoKey)
  /\ seen' = [seen EXCEPT ![p] = ByStatus(first)]
  /\ before' = [before EXCEPT ![p] = Published]
  /\ UNCHANGED <<status, begun, cut, todo, live>>

ServeJWKS(p, second) ==
  /\ pc[p] = "jwks"
  /\ Goto(p, "served")
  /\ seen' = [seen EXCEPT ![p] = @ \cup ByStatus(second)]
  /\ UNCHANGED <<status, begun, cut, kid, todo, before, live>>

(* Mutants: the two statements the other way round.                        *)
JWKS_RotatingFirst(p) == ReadJWKS(p, "rotating") \/ ServeJWKS(p, "active")

JWKS(p) == ReadJWKS(p, "active") \/ ServeJWKS(p, "rotating")

(* The request ends: its response is written, a statement fails, its       *)
(* context is cancelled, or the process dies.                              *)
End(p) ==
  /\ pc[p] # "idle"
  /\ Answer(p)
  /\ seen' = [seen EXCEPT ![p] = {}]
  /\ before' = [before EXCEPT ![p] = {}]
  /\ cut' = (cut \/ pc[p] = "demote")
  /\ UNCHANGED <<status, begun, live>>

Next ==
  \/ \E k \in Keys : TokensExpire(k)
  \/ \E p \in Handlers :
       \/ Rotate(p) \/ ListActive(p) \/ Create(p) \/ RetireWrite(p)
       \/ \E k \in Keys : Demote(p, k) \/ Retire(p, k)
       \/ ActiveSigner(p) \/ Sign(p) \/ JWKS(p) \/ End(p)

Spec == Init /\ [][Next]_vars

----------------------------------------------------------------------------
(* Every unexpired token verifies against the published keys, whatever     *)
(* rotations and retirements overlap with its signing.                     *)
LiveTokensVerify == live \subseteq Published

(* Retire's contract: "the active signing key can never be retired out     *)
(* from under issuance", also by a retirement that a rotation overtakes.   *)
ActiveNotRetired ==
  [][\A k \in Keys :
       status[k] = "active" => status'[k] \in {"active", "rotating"}]_vars

(* A key published before and after the two statements of a JWKS request   *)
(* is in the document, although a rotation may move it between them.       *)
JWKSComplete ==
  [][\A p \in Handlers :
       pc[p] = "jwks" /\ pc'[p] = "served" =>
         before[p] \cap Published \subseteq seen'[p]]_vars

(* Rotate leaves the issuer without a key to sign with only while it is    *)
(* between its listing and its insert, or when it failed there; the next   *)
(* rotation that is done ends that.  However rotations and retirements     *)
(* overlap, nothing else takes the last active key away.                   *)
SignerUnlessCut ==
  (\E k \in Keys : status[k] # "absent") /\ ByStatus("active") = {} =>
    cut \/ \E p \in Handlers : pc[p] = "demote"

(* Retire calls a retired key "an already-terminal key": it never comes    *)
(* back into the published set.                                            *)
RetiredIsTerminal ==
  [][\A k \in Keys : status[k] = "retired" => status'[k] = "retired"]_vars

(* The package comment: "Rotation is zero-downtime via JWKS overlap".  Once*)
(* there has been a key and no rotation is under way, there is a key to    *)
(* sign with.                                                              *)
AlwaysASigner ==
  (Published # {} /\ \A p \in Handlers : pc[p] \notin {"list", "demote"})
    => ByStatus("active") # {}
============================================================================

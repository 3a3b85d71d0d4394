---------------------------- MODULE TokenEscrow ----------------------------
(***************************************************************************)
(* What a token promises its holders, with no shard, freeze, pause or role *)
(* in sight.  An amount is held by somebody or it is pending in exactly    *)
(* one transfer, and a pending transfer is settled once: it is committed   *)
(* to its destination or cancelled back to its sender.  What is created    *)
(* and destroyed is booked in the supply, nothing else changes the sum of  *)
(* what is held and pending.  FungibleLedger and NFTLedger, the models of  *)
(* the code, are shown to implement this module, and the steps of          *)
(* MultiTransfer to be steps of it.                                        *)
(***************************************************************************)
EXTENDS Integers

CONSTANTS Holders,   \* who can hold the token
          TransferIds, \* names of transfers, so that two equal ones differ
          Values       \* amounts that can be created or transferred

VARIABLES holding,   \* what every holder owns
          pending,   \* the transfers not settled yet
          supply     \* created or promised, less destroyed

vars == <<holding, pending, supply>>

Transfers == [id : TransferIds, from : Holders, to : Holders, val : Values]

EscrowTypeOK ==
  /\ holding \in [Holders -> Nat]
  /\ pending \subseteq Transfers
  /\ supply \in Nat

Init ==
  /\ holding = [h \in Holders |-> 0]
  /\ pending = {}
  /\ supply = 0

Create(h, v) ==
  /\ holding' = [holding EXCEPT ![h] = @ + v]
  /\ UNCHANGED pending
  /\ supply' = supply + v

Destroy(h, v) ==
  /\ holding[h] >= v
  /\ holding' = [holding EXCEPT ![h] = @ - v]
  /\ UNCHANGED pending
  /\ supply' = supply - v

\* A transfer inside one shard, done at once; h and g may be the same holder.
Move(h, g, v) ==
  /\ holding[h] >= v
  /\ holding' = [[holding EXCEPT ![h] = @ - v] EXCEPT ![g] = @ + v]
  /\ UNCHANGED <<pending, supply>>

Fresh(t) == \A p \in pending : p.id # t.id

Reserve(t) ==
  /\ Fresh(t)
  /\ holding[t.from] >= t.val
  /\ holding' = [holding EXCEPT ![t.from] = @ - t.val]
  /\ pending' = pending \cup {t}
  /\ UNCHANGED supply

\* New supply that is on its way before anybody holds it.
Promise(t) ==
  /\ Fresh(t)
  /\ pending' = pending \cup {t}
  /\ UNCHANGED holding
  /\ supply' = supply + t.val

Commit(t) ==
  /\ holding' = [holding EXCEPT ![t.to] = @ + t.val]
  /\ pending' = pending \ {t}
  /\ UNCHANGED supply

Cancel(t) ==
  /\ holding' = [holding EXCEPT ![t.from] = @ + t.val]
  /\ pending' = pending \ {t}
  /\ UNCHANGED supply

Next ==
  \/ \E h \in Holders, v \in Values : Create(h, v)
  \/ \E h \in Holders : \E v \in 0..holding[h] : Destroy(h, v)
  \/ \E h, g \in Holders, v \in Values : Move(h, g, v)
  \/ \E t \in Transfers : Reserve(t) \/ Promise(t)
  \/ \E t \in pending : Commit(t) \/ Cancel(t)

Spec == Init /\ [][Next]_vars
=============================================================================
